------------------------- MODULE AgreementGateProofs -------------------------
(***************************************************************************)
(* The cross-kernel gate, for every list of cases and whatever the kernels *)
(* lack: what a pass means, what a failure means, and which checks the     *)
(* cases of generate_cases.py tell apart; where the implementations of     *)
(* verify_envelope agree by their own text, for every envelope; and that   *)
(* every case has the verdict it was written for.                          *)
(***************************************************************************)
EXTENDS AgreementGate, ConformanceCorpus, TLAPS

-----------------------------------------------------------------------------
(* The loop invariant: the recorded verdicts are Python's, and as long as  *)
(* a leg has counted no mismatch it matches on the cases behind it.        *)

RecordedOk ==
  \A i \in 1 .. Len(recorded) :
    /\ recorded[i] = VerdictOn("py", i)
    /\ Cases[i].negative => ~VerdictOn("py", i).ok

LegOk ==
  /\ pc = "ts" /\ mismatches = 0 => \A i \in 1 .. at : TsMatches(i)
  /\ pc = "go" /\ mismatches = 0 => \A i \in 1 .. at : GoMatches(i)

BehindOk ==
  /\ pc \in {"export", "toolchain", "go", "ok"} => \A i \in Indexes : TsMatches(i)
  /\ pc = "ok" => \A i \in Indexes : GoMatches(i)

\* Counting starts at zero when a leg starts.
AtRest ==
  /\ pc = "python" => mismatches = 0
  /\ pc \in {"export", "toolchain"} => at = 0

\* What cases.json may hold.
Records == {VerdictOn("py", i) : i \in Indexes}

IInv == TypeOK /\ recorded \in Seq(Records) /\ RecordedOk /\ LegOk /\ BehindOk /\ AtRest

\* A leg only looks at recorded verdicts, and recorded has one for each case
\* by then.
Frame == UNCHANGED <<lacks, recorded>>

\* So nothing a leg relies on changes under it.
LEMMA FrameKeeps ==
  ASSUME Frame
  PROVE  /\ \A k, i : VerdictOn(k, i)' = VerdictOn(k, i)
         /\ \A i : TsMatches(i)' = TsMatches(i) /\ GoMatches(i)' = GoMatches(i)
         /\ Records' = Records
         /\ recorded \in Seq(Records) => (recorded \in Seq(Records))'
         /\ RecordedOk => RecordedOk'
<1>1. \A k, i : VerdictOn(k, i)' = VerdictOn(k, i)
  BY DEF Frame, VerdictOn
<1>2. \A i : TsMatches(i)' = TsMatches(i) /\ GoMatches(i)' = GoMatches(i)
  BY <1>1 DEF Frame, TsMatches, GoMatches
<1>3. Records' = Records
  BY <1>1 DEF Records
<1>4. recorded' = recorded
  BY DEF Frame
<1>5. RecordedOk => RecordedOk'
  BY <1>1, <1>4 DEF RecordedOk
<1> QED BY <1>1, <1>2, <1>3, <1>4, <1>5

-----------------------------------------------------------------------------
\* One more verdict, which the assertion let through.
LEMMA RecordCaseKeeps ==
  ASSUME IInv, RecordCase
  PROVE  IInv'
<1> DEFINE v == VerdictOn("py", at + 1)
<1>0. /\ Len(Cases) \in Nat /\ at \in 0 .. Len(Cases) /\ at < Len(Cases)
      /\ at + 1 \in Indexes /\ Len(recorded) = at /\ pc = "python" /\ pc' = "python"
  BY CasesAssumption DEF IInv, TypeOK, RecordCase, More, Indexes
<1>1. /\ recorded \in Seq(Records) /\ v \in Records
      /\ recorded' = Append(recorded, v) /\ lacks' = lacks
  BY <1>0 DEF IInv, RecordCase, Records
<1>2. \A k, i : VerdictOn(k, i)' = VerdictOn(k, i)
  BY <1>1 DEF VerdictOn
<1>3. Records' = Records
  BY <1>2 DEF Records
<1>4. Cases[at + 1].negative => ~v.ok
  BY DEF RecordCase, RefusedNegative
<1> HIDE DEF v
<1>5. /\ recorded' \in Seq(Records) /\ Len(recorded') = at + 1
      /\ recorded'[at + 1] = v
      /\ \A i \in 1 .. at : recorded'[i] = recorded[i]
  BY <1>0, <1>1
<1>6. TypeOK'
  BY <1>0, <1>5 DEF IInv, TypeOK, RecordCase
<1>7. RecordedOk'
  <2> SUFFICES ASSUME NEW i \in 1 .. at + 1
               PROVE  /\ recorded'[i] = VerdictOn("py", i)
                      /\ Cases[i].negative => ~VerdictOn("py", i).ok
    BY <1>2, <1>5 DEF RecordedOk
  <2>1. CASE i = at + 1
    BY <2>1, <1>4, <1>5 DEF v
  <2>2. CASE i \in 1 .. at
    BY <2>2, <1>0, <1>5 DEF IInv, RecordedOk
  <2> QED BY <1>0, <2>1, <2>2
<1> QED BY <1>0, <1>3, <1>5, <1>6, <1>7 DEF IInv, LegOk, BehindOk, AtRest, RecordCase

\* What TypeOK says of the counters.
LEMMA Counters ==
  ASSUME TypeOK
  PROVE  /\ Len(Cases) \in Nat /\ at \in Nat /\ mismatches \in Nat
         /\ at <= Len(Cases) /\ mismatches <= at
         /\ ~More => at = Len(Cases)
         /\ More => at + 1 <= Len(Cases)
<1>1. Len(Cases) \in Nat
  BY CasesAssumption
<1>2. at \in 0 .. Len(Cases) /\ mismatches \in 0 .. at
  BY DEF TypeOK
<1>3. at \in Nat /\ at <= Len(Cases)
  BY <1>1, <1>2
<1>4. mismatches \in Nat /\ mismatches <= at
  BY <1>2, <1>3
<1>5. ~More => at = Len(Cases)
  BY <1>1, <1>3 DEF More
<1>6. More => at + 1 <= Len(Cases)
  BY <1>1, <1>3 DEF More
<1> QED BY <1>1, <1>3, <1>4, <1>5, <1>6

\* A leg that goes on: all but its own counters and marks stay.
LEMMA KeepsTypeOK ==
  ASSUME TypeOK, UNCHANGED <<lacks, go_installed, recorded>>,
         pc \notin {"python", "python_failed"}, pc' \notin {"python", "python_failed"},
         pc' \in Legs \cup {"ok"} \cup Failures,
         at' \in 0 .. Len(Cases), mismatches' \in 0 .. at'
  PROVE  TypeOK'
BY DEF TypeOK

\* One case of a comparing leg.
LEMMA CompareKeeps ==
  ASSUME IInv, CompareTs \/ CompareGo
  PROVE  IInv'
<1>1. /\ More /\ at' = at + 1 /\ pc' = pc /\ pc \in {"ts", "go"}
      /\ lacks' = lacks /\ recorded' = recorded /\ go_installed' = go_installed
  BY DEF CompareTs, CompareGo, Compare
<1>2. /\ pc = "ts" => mismatches' = mismatches + (IF TsMatches(at + 1) THEN 0 ELSE 1)
      /\ pc = "go" => mismatches' = mismatches + (IF GoMatches(at + 1) THEN 0 ELSE 1)
  BY DEF CompareTs, CompareGo, Compare
<1>3. Frame
  BY <1>1 DEF Frame
<1>4. /\ at \in Nat /\ mismatches \in Nat /\ mismatches <= at
      /\ Len(Cases) \in Nat /\ at + 1 <= Len(Cases)
  BY <1>1, Counters DEF IInv
<1>5. mismatches' \in {mismatches, mismatches + 1}
  <2>1. CASE pc = "ts"
    BY <1>2, <1>4, <2>1
  <2>2. CASE pc = "go"
    BY <1>2, <1>4, <2>2
  <2> QED BY <1>1, <2>1, <2>2
<1>6. mismatches' \in 0 .. at' /\ at' \in 0 .. Len(Cases)
  BY <1>1, <1>4, <1>5
<1>7. TypeOK'
  BY <1>1, <1>6, KeepsTypeOK DEF IInv, Legs
<1>8. LegOk'
  <2>1. CASE pc = "ts"
    <3>1. mismatches' = 0 => mismatches = 0 /\ TsMatches(at + 1)
      BY <1>2, <1>4, <2>1
    <3>2. mismatches = 0 => \A i \in 1 .. at : TsMatches(i)
      BY <2>1 DEF IInv, LegOk
    <3>3. mismatches' = 0 => \A i \in 1 .. at + 1 : TsMatches(i)
      BY <1>4, <3>1, <3>2
    <3> QED BY <1>1, <1>3, <2>1, <3>3, FrameKeeps DEF LegOk
  <2>2. CASE pc = "go"
    <3>1. mismatches' = 0 => mismatches = 0 /\ GoMatches(at + 1)
      BY <1>2, <1>4, <2>2
    <3>2. mismatches = 0 => \A i \in 1 .. at : GoMatches(i)
      BY <2>2 DEF IInv, LegOk
    <3>3. mismatches' = 0 => \A i \in 1 .. at + 1 : GoMatches(i)
      BY <1>4, <3>1, <3>2
    <3> QED BY <1>1, <1>3, <2>2, <3>3, FrameKeeps DEF LegOk
  <2> QED BY <1>1, <2>1, <2>2
<1>9. BehindOk' /\ AtRest'
  BY <1>1, <1>3, FrameKeeps DEF IInv, BehindOk, Indexes, AtRest
<1> QED BY <1>3, <1>7, <1>8, <1>9, FrameKeeps DEF IInv

\* The end of a comparing leg: without a mismatch, it matched everywhere.
LEMMA FinishLegKeeps ==
  ASSUME IInv, FinishLeg("ts", "export", "ts_failed") \/ FinishLeg("go", "ok", "go_failed")
  PROVE  IInv'
<1>1. /\ ~More /\ at' = 0 /\ mismatches' = 0
      /\ lacks' = lacks /\ recorded' = recorded /\ go_installed' = go_installed
  BY DEF FinishLeg
<1>2. Frame
  BY <1>1 DEF Frame
<1>3. at = Len(Cases) /\ mismatches \in Nat /\ Len(Cases) \in Nat
  BY <1>1, Counters DEF IInv
<1>4. \/ pc = "ts" /\ pc' = "ts_failed"
      \/ pc = "ts" /\ pc' = "export" /\ mismatches = 0
      \/ pc = "go" /\ pc' = "go_failed"
      \/ pc = "go" /\ pc' = "ok" /\ mismatches = 0
  <2>1. (mismatches > 0) \/ mismatches = 0
    BY <1>3
  <2> QED BY <2>1 DEF FinishLeg
<1>5. at' \in 0 .. Len(Cases) /\ mismatches' \in 0 .. at'
  BY <1>1, <1>3
<1>6. TypeOK'
  BY <1>1, <1>4, <1>5, KeepsTypeOK DEF IInv, Legs, Failures
<1>7. LegOk' /\ AtRest'
  BY <1>1, <1>4 DEF LegOk, AtRest
<1>8. pc = "ts" /\ mismatches = 0 => \A i \in Indexes : TsMatches(i)
  BY <1>3 DEF IInv, LegOk, Indexes
<1>9. pc = "go" /\ mismatches = 0 => \A i \in Indexes : TsMatches(i) /\ GoMatches(i)
  BY <1>3 DEF IInv, LegOk, BehindOk, Indexes
<1>10. Indexes' = Indexes
  BY DEF Indexes
<1>11. BehindOk'
  BY <1>2, <1>4, <1>8, <1>9, <1>10, FrameKeeps DEF BehindOk
<1> QED BY <1>2, <1>6, <1>7, <1>11, FrameKeeps DEF IInv

\* The steps that only move on.
LEMMA MovingOnKeeps ==
  ASSUME IInv, AssertionFails \/ CasesWritten \/ ExportLeg \/ Toolchain
  PROVE  IInv'
<1>1. /\ lacks' = lacks /\ recorded' = recorded /\ go_installed' = go_installed
      /\ mismatches' = mismatches
  BY DEF AssertionFails, CasesWritten, ExportLeg, Toolchain
<1>2. Frame
  BY <1>1 DEF Frame
<1>3. /\ at \in Nat /\ mismatches \in Nat /\ mismatches <= at
      /\ Len(Cases) \in Nat /\ at <= Len(Cases) /\ (~More => at = Len(Cases))
  BY Counters DEF IInv
<1>4. \/ pc = "python" /\ pc' = "python_failed" /\ at' = at
      \/ pc = "python" /\ pc' = "ts" /\ at = Len(Cases) /\ at' = 0 /\ mismatches = 0
      \/ pc = "export" /\ pc' \in {"toolchain", "export_failed"} /\ at' = at /\ at = 0
      \/ pc = "toolchain" /\ pc' \in {"go", "toolchain_failed"} /\ at' = at /\ at = 0
  BY <1>3 DEF IInv, AtRest, AssertionFails, CasesWritten, ExportLeg, Toolchain
<1>5. at' \in 0 .. Len(Cases) /\ mismatches' \in 0 .. at'
  BY <1>1, <1>3, <1>4
<1>6. pc' \in Legs \cup {"ok"} \cup Failures
  BY <1>4 DEF Legs, Failures
<1>7. Len(recorded') = IF pc' \in {"python", "python_failed"} THEN at' ELSE Len(Cases)
  BY <1>1, <1>4 DEF IInv, TypeOK
<1>8. TypeOK'
  BY <1>1, <1>5, <1>6, <1>7 DEF IInv, TypeOK
<1>9. AtRest'
  BY <1>1, <1>4 DEF AtRest
<1>10. LegOk'
  BY <1>4 DEF LegOk
<1>11. Indexes' = Indexes
  BY DEF Indexes
<1>12. BehindOk'
  BY <1>2, <1>4, <1>11, FrameKeeps DEF IInv, BehindOk
<1> QED BY <1>2, <1>8, <1>9, <1>10, <1>12, FrameKeeps DEF IInv

-----------------------------------------------------------------------------
\* The gate starts within its invariant ...
LEMMA Initially == Init => IInv
<1> SUFFICES ASSUME Init PROVE IInv
  OBVIOUS
<1>1. TypeOK
  BY CasesAssumption, RegressionsAssumption DEF Init, TypeOK, Legs
<1>2. recorded \in Seq(Records) /\ RecordedOk
  BY DEF Init, RecordedOk
<1> QED BY <1>1, <1>2 DEF Init, IInv, LegOk, BehindOk, AtRest

\* ... and every step of every leg keeps it.
LEMMA StepKeeps == IInv /\ [Next]_vars => IInv'
<1> SUFFICES ASSUME IInv, [Next]_vars PROVE IInv'
  OBVIOUS
<1>1. CASE UNCHANGED vars
  <2>1. Frame /\ UNCHANGED <<lacks, go_installed, recorded, at, mismatches, pc>>
    BY <1>1 DEF vars, Frame
  <2>2. TypeOK' /\ AtRest'
    BY <2>1 DEF IInv, TypeOK, AtRest
  <2>3. LegOk' /\ BehindOk'
    BY <2>1, FrameKeeps DEF IInv, LegOk, BehindOk
  <2> QED BY <2>1, <2>2, <2>3, FrameKeeps DEF IInv
<1>2. CASE Next
  BY <1>2, RecordCaseKeeps, CompareKeeps, FinishLegKeeps, MovingOnKeeps DEF Next
<1> QED BY <1>1, <1>2

(***************************************************************************)
(* The counters of the legs stay within the cases, and a leg only starts   *)
(* on a complete cases.json.                                               *)
(***************************************************************************)
THEOREM TypeCorrect == Spec => []TypeOK
<1>1. IInv => TypeOK
  BY DEF IInv
<1> QED BY <1>1, Initially, StepKeeps, PTL DEF Spec

(***************************************************************************)
(* run.sh ends well only if on every case the ts verdict equals Python's   *)
(* in every field and go's agrees on ok, whatever the cases and whatever   *)
(* the kernels lack; and then Python rejects every negative.               *)
(***************************************************************************)
THEOREM PassMeansAgreement == Spec => []AgreedOnCases
<1>1. IInv => AgreedOnCases
  <2> SUFFICES ASSUME IInv, Passes, NEW i \in Indexes
               PROVE  /\ VerdictOn("ts", i) = VerdictOn("py", i)
                      /\ VerdictOn("go", i).ok = VerdictOn("py", i).ok
                      /\ Cases[i].negative => ~VerdictOn("py", i).ok
    BY DEF AgreedOnCases
  <2>1. i \in 1 .. Len(recorded)
    BY DEF IInv, TypeOK, Passes, Indexes
  <2>2. TsMatches(i) /\ GoMatches(i)
    BY DEF IInv, BehindOk, Passes
  <2> QED BY <2>1, <2>2 DEF IInv, RecordedOk, TsMatches, GoMatches
<1> QED BY <1>1, Initially, StepKeeps, PTL DEF Spec

-----------------------------------------------------------------------------
(***************************************************************************)
(* The kernels as written: on an envelope of any profile but the two only  *)
(* Python knows, supported or not, and nested no deeper than the bound of  *)
(* Python and TypeScript, which go has none for, their verdict records are *)
(* equal, for every envelope and all external bytes.                       *)
(***************************************************************************)
THEOREM KernelsAgree ==
  ASSUME NEW e, NEW bytes, NEW k \in Kernels,
         e.spec_version \notin {Absent, "ario.mlflow/v1"}, CanonicalEnvelope(e)
  PROVE  Verdict(k, {}, e, bytes) = Verdict("py", {}, e, bytes)
<1>1. e.spec_version \notin {Absent, "ario.mlflow/v1"}
  OBVIOUS
<1>2. envelope_for_signature(e) = SignedScope(e)
  BY <1>1 DEF envelope_for_signature, SignedScope, Annotated
<1>3. ASSUME NEW c \in Checks
      PROVE  Holds(k, c, e, bytes) <=> Holds("py", c, e, bytes)
  <2>1. DepthOk(k, e) /\ DepthOk("py", e)
    BY DEF DepthOk
  <2>2. SpecOk(k, e) <=> SpecOk("py", e)
    BY <1>1 DEF SpecOk, spec_version_ok, spec_version_supported, ACCEPTED_SPEC_VERSIONS
  <2>3. ScopeOf(k, e) = ScopeOf("py", e)
    BY <1>2 DEF ScopeOf
  <2> QED BY <2>1, <2>2, <2>3 DEF Holds, Checks
<1>4. Passed(k, {}, e, bytes) = Passed("py", {}, e, bytes)
  BY <1>3 DEF Passed
<1> QED BY <1>4 DEF Verdict

(***************************************************************************)
(* The Python kernel of the gate is verify_envelope as Envelope has it,    *)
(* which the bundles, exports and transits are about: the same verdict in  *)
(* all four fields, for every envelope without an unpaired surrogate.      *)
(***************************************************************************)
THEOREM PythonKernelIsVerifyEnvelope ==
  ASSUME NEW e, NEW bytes, e.body # LoneSurrogate
  PROVE  /\ Verdict("py", {}, e, bytes).ok <=> VerifyOk(e, bytes, FALSE)
         /\ Verdict("py", {}, e, bytes).phk = payload_hash_ok(e, bytes)
         /\ Verdict("py", {}, e, bytes).sig <=> signature_ok(e)
         /\ Verdict("py", {}, e, bytes).spec <=> spec_version_ok(e, FALSE)
<1> DEFINE passed == Passed("py", {}, e, bytes)
<1>1. /\ "text" \in passed
      /\ "depth" \in passed <=> CanonicalEnvelope(e)
      /\ "spec" \in passed <=> spec_version_ok(e, FALSE)
      /\ "payload_hash" \in passed <=> e.payload_hash \notin {Absent, NotAString}
      /\ "inline" \in passed <=> (e.payload # Absent => e.payload_hash = Sha256(e.payload))
      /\ "bytes" \in passed <=> (bytes # Absent => e.payload_hash = Sha256(bytes))
      /\ "signature" \in passed <=>
           /\ e.signature # Absent
           /\ e.signature = SignatureBy(e.public_key, envelope_for_signature(e))
  BY DEF Passed, Checks, Holds, TextOk, DepthOk, SpecOk, ScopeOf
<1>2. /\ Verdict("py", {}, e, bytes).ok <=>
           /\ "spec" \in passed
           /\ {"text", "depth", "signature"} \subseteq passed
           /\ Binding(passed, e, bytes) # "false"
      /\ Verdict("py", {}, e, bytes).phk = Binding(passed, e, bytes)
      /\ Verdict("py", {}, e, bytes).sig <=> {"text", "depth", "signature"} \subseteq passed
      /\ Verdict("py", {}, e, bytes).spec <=> "spec" \in passed
  BY DEF Verdict
<1> HIDE DEF passed
<1>3. Binding(passed, e, bytes) = payload_hash_ok(e, bytes)
  BY <1>1 DEF Binding, payload_hash_ok, InlineBinds, CanonicalEnvelope
<1>4. {"text", "depth", "signature"} \subseteq passed <=> signature_ok(e)
  BY <1>1 DEF signature_ok, CanonicalEnvelope
<1> QED BY <1>1, <1>2, <1>3, <1>4 DEF VerifyOk

-----------------------------------------------------------------------------
(* What one kernel signs the others accept.                                *)

\* A hash, a signature and a profile are none of the marks for what is not there.
TermsPresent ==
  /\ \A x : Sha256(x) \notin {Absent, NotAString}
  /\ \A k, x : SignatureBy(k, x) # Absent
  /\ Absent \notin ACCEPTED_SPEC_VERSIONS

\* An envelope all three kernels can read: with the fields of one, of a profile
\* they share, its text and nesting canonical.
Common(e) ==
  /\ e = [spec_version |-> e.spec_version, payload |-> e.payload,
          payload_hash |-> e.payload_hash, public_key |-> e.public_key, body |-> e.body,
          notes |-> e.notes, co_signatures |-> e.co_signatures, signature |-> e.signature]
  /\ e.spec_version \in {"ario.agent/v1", "ario.events/v1"}
  /\ e.body # LoneSurrogate
  /\ e.payload # Uncanonical

\* Such an envelope, signed over all but its two signature fields, passes
\* every check of every kernel.
LEMMA SignedPasses ==
  ASSUME TermsPresent, NEW w, Common(w), NEW bytes, NEW k \in Kernels,
         w.payload_hash \notin {Absent, NotAString},
         w.payload # Absent => w.payload_hash = Sha256(w.payload),
         bytes # Absent => w.payload_hash = Sha256(bytes),
         NEW env, env = [w EXCEPT !.signature = SignatureBy(w.public_key, SignedScope(w))]
  PROVE  Verdict(k, {}, env, bytes).ok
<1>1. PICK g : g = SignatureBy(w.public_key, SignedScope(w))
  OBVIOUS
<1>2. env = [w EXCEPT !.signature = g]
  BY <1>1
<1>3. /\ env.spec_version = w.spec_version /\ env.payload = w.payload
      /\ env.payload_hash = w.payload_hash /\ env.public_key = w.public_key
      /\ env.body = w.body /\ env.notes = w.notes /\ env.signature = g
  BY <1>2 DEF Common
<1>4. w.spec_version \notin {Absent, "ario.mlflow/v1"}
  BY DEF Common, TermsPresent, ACCEPTED_SPEC_VERSIONS
<1>5. SignedScope(env) = SignedScope(w)
  BY <1>3 DEF SignedScope
<1>6. ScopeOf("py", env) = SignedScope(env)
  BY <1>3, <1>4 DEF ScopeOf, envelope_for_signature, SignedScope, Annotated
<1>7. SpecOk("py", env) /\ TextOk(env) /\ DepthOk("py", env) /\ CanonicalEnvelope(env)
  BY <1>3, <1>4 DEF SpecOk, spec_version_ok, spec_version_supported, ACCEPTED_SPEC_VERSIONS,
                    TextOk, DepthOk, CanonicalEnvelope, Common
<1>8. env.signature # Absent
  BY <1>1, <1>3 DEF TermsPresent
<1>9. \A c \in Checks : Holds("py", c, env, bytes)
  BY <1>1, <1>3, <1>5, <1>6, <1>7, <1>8 DEF Holds, Checks
<1>10. Passed("py", {}, env, bytes) = Checks
  BY <1>9 DEF Passed
<1>11. Verdict("py", {}, env, bytes).ok
  BY <1>10 DEF Verdict, Binding, Checks
<1>12. Verdict(k, {}, env, bytes) = Verdict("py", {}, env, bytes)
  BY <1>3, <1>4, <1>7, KernelsAgree
<1> QED BY <1>11, <1>12

(***************************************************************************)
(* Every kernel accepts what sign_envelope (Python) returns for such an    *)
(* envelope, with the external bytes it commits to or with none.  That the *)
(* payload_hash a caller fills in is a string is not checked by            *)
(* sign_envelope; it has to be one here.                                   *)
(***************************************************************************)
THEOREM SignedIsAcceptedByAll ==
  ASSUME TermsPresent, NEW e, Common(e), NEW key, ~SignRaises(e, key),
         e.payload_hash # NotAString, NEW k \in Kernels, NEW bytes,
         bytes # Absent => sign_envelope(e, key).payload_hash = Sha256(bytes)
  PROVE  Verdict(k, {}, sign_envelope(e, key), bytes).ok
<1> DEFINE c == CompletedHash(e)
           w == CompletedKey(c, key)
<1>1. /\ c.payload_hash = IF e.payload # Absent /\ e.payload_hash = Absent
                          THEN Sha256(e.payload) ELSE e.payload_hash
      /\ c = [spec_version |-> e.spec_version, payload |-> e.payload,
              payload_hash |-> c.payload_hash, public_key |-> e.public_key, body |-> e.body,
              notes |-> e.notes, co_signatures |-> e.co_signatures, signature |-> e.signature]
  BY DEF CompletedHash, Common
<1>2. /\ w.public_key = key
      /\ w = [spec_version |-> e.spec_version, payload |-> e.payload,
              payload_hash |-> c.payload_hash, public_key |-> key, body |-> e.body,
              notes |-> e.notes, co_signatures |-> e.co_signatures, signature |-> e.signature]
  <2>1. e.public_key \in {Absent, key}
    BY DEF SignRaises
  <2> HIDE DEF c
  <2> QED BY <1>1, <2>1 DEF CompletedKey
<1>3. sign_envelope(e, key) = [w EXCEPT !.signature = SignatureBy(key, envelope_for_signature(w))]
  BY DEF sign_envelope
<1> HIDE DEF c, w
<1>4. Common(w) /\ w.payload_hash = c.payload_hash /\ w.payload = e.payload
  BY <1>2 DEF Common
<1>5. /\ c.payload_hash \notin {Absent, NotAString}
      /\ e.payload # Absent => c.payload_hash = Sha256(e.payload)
  BY <1>1 DEF SignRaises, TermsPresent
<1>6. envelope_for_signature(w) = SignedScope(w)
  BY <1>4 DEF Common, TermsPresent, ACCEPTED_SPEC_VERSIONS,
              envelope_for_signature, SignedScope, Annotated
<1>7. PICK g : g = SignatureBy(key, SignedScope(w))
  OBVIOUS
<1>8. [w EXCEPT !.signature = g].payload_hash = c.payload_hash
  BY <1>2
<1>9. PICK env : env = sign_envelope(e, key)
  OBVIOUS
<1>10. env = [w EXCEPT !.signature = SignatureBy(w.public_key, SignedScope(w))]
  BY <1>2, <1>3, <1>6, <1>9
<1>11. bytes # Absent => w.payload_hash = Sha256(bytes)
  BY <1>2, <1>3, <1>4, <1>6, <1>7, <1>8
<1> QED BY <1>4, <1>5, <1>9, <1>10, <1>11, SignedPasses

(***************************************************************************)
(* And every kernel accepts what SignEnvelope of the vendored Go verifier  *)
(* returns, if its payload is nested within the bound of the other two.    *)
(***************************************************************************)
THEOREM GoSignedIsAcceptedByAll ==
  ASSUME TermsPresent, NEW e, Common(e), NEW key, ~GoSignRaises(e), NEW k \in Kernels
  PROVE  Verdict(k, {}, GoSignEnvelope(e, key), Absent).ok
<1> DEFINE c == [e EXCEPT !.payload_hash = Sha256(e.payload)]
           w == [c EXCEPT !.public_key = key]
<1>1. c = [spec_version |-> e.spec_version, payload |-> e.payload,
           payload_hash |-> Sha256(e.payload), public_key |-> e.public_key, body |-> e.body,
           notes |-> e.notes, co_signatures |-> e.co_signatures, signature |-> e.signature]
  BY DEF Common
<1>2. [e EXCEPT !.payload_hash = Sha256(e.payload), !.public_key = key] = w
  BY DEF Common
<1> HIDE DEF c
<1>3. w = [spec_version |-> e.spec_version, payload |-> e.payload,
           payload_hash |-> Sha256(e.payload), public_key |-> key, body |-> e.body,
           notes |-> e.notes, co_signatures |-> e.co_signatures, signature |-> e.signature]
  BY <1>1
<1> HIDE DEF w
<1>4. /\ Common(w) /\ w.payload_hash = Sha256(w.payload) /\ w.public_key = key
      /\ w.payload # Absent
  BY <1>3 DEF Common, GoSignRaises
<1>5. w.payload_hash \notin {Absent, NotAString}
  BY <1>4 DEF TermsPresent
<1>6. PICK env : env = GoSignEnvelope(e, key)
  OBVIOUS
<1>7. env = [w EXCEPT !.signature = SignatureBy(w.public_key, SignedScope(w))]
  BY <1>2, <1>4, <1>6 DEF GoSignEnvelope
<1> QED BY <1>4, <1>5, <1>6, <1>7, SignedPasses

-----------------------------------------------------------------------------
(* And the other way round: what a gate that fails has found.              *)

\* A mismatch a leg counted is on a case behind it; a leg that failed has one.
Blame ==
  /\ pc = "ts" /\ mismatches > 0 => \E i \in Indexes : ~TsMatches(i)
  /\ pc = "go" /\ mismatches > 0 => \E i \in Indexes : ~GoMatches(i)
  /\ pc = "python_failed" => \E i \in Indexes : Cases[i].negative /\ VerdictOn("py", i).ok
  /\ pc = "ts_failed" => \E i \in Indexes : ~TsMatches(i)
  /\ pc = "go_failed" => \E i \in Indexes : ~GoMatches(i)

\* No step blames a kernel without a case.
LEMMA BlameKeeps == IInv /\ Blame /\ [Next]_vars => Blame'
<1> SUFFICES ASSUME IInv, Blame, [Next]_vars PROVE Blame'
  OBVIOUS
<1>0. /\ Len(Cases) \in Nat /\ at \in Nat /\ mismatches \in Nat /\ mismatches <= at
      /\ More => at + 1 \in Indexes
  BY Counters DEF IInv, Indexes
<1>1. CASE UNCHANGED vars
  <2>1. Frame /\ UNCHANGED <<mismatches, pc>>
    BY <1>1 DEF vars, Frame
  <2> QED BY <2>1, FrameKeeps DEF Blame, Indexes
<1>2. CASE RecordCase
  BY <1>2 DEF RecordCase, Blame
<1>3. CASE AssertionFails
  <2>1. /\ Cases[at + 1].negative /\ VerdictOn("py", at + 1).ok /\ at + 1 \in Indexes
        /\ Frame /\ pc' = "python_failed"
    BY <1>0, <1>3 DEF AssertionFails, RefusedNegative, Frame
  <2> QED BY <2>1, FrameKeeps DEF Blame, Indexes
<1>4. CASE CasesWritten
  <2>1. pc' = "ts" /\ mismatches' = 0
    BY <1>4 DEF CasesWritten, IInv, AtRest
  <2> QED BY <2>1 DEF Blame
<1>5. ASSUME CompareTs \/ CompareGo PROVE Blame'
  <2>1. Frame /\ pc' = pc /\ at + 1 \in Indexes
    BY <1>0, <1>5 DEF CompareTs, CompareGo, Compare, Frame
  <2>2. CASE CompareTs
    <3>1. pc' = "ts" /\ (mismatches' > 0 => mismatches > 0 \/ ~TsMatches(at + 1))
      BY <1>0, <2>2 DEF CompareTs, Compare
    <3>2. pc = "ts"
      BY <2>2 DEF CompareTs
    <3> QED BY <2>1, <3>1, <3>2, FrameKeeps DEF Blame, Indexes
  <2>3. CASE CompareGo
    <3>1. pc' = "go" /\ (mismatches' > 0 => mismatches > 0 \/ ~GoMatches(at + 1))
      BY <1>0, <2>3 DEF CompareGo, Compare
    <3>2. pc = "go"
      BY <2>3 DEF CompareGo
    <3> QED BY <2>1, <3>1, <3>2, FrameKeeps DEF Blame, Indexes
  <2> QED BY <1>5, <2>2, <2>3
<1>6. CASE FinishLeg("ts", "export", "ts_failed")
  <2>1. /\ Frame /\ pc = "ts" /\ mismatches' = 0
        /\ pc' = "export" \/ (pc' = "ts_failed" /\ mismatches > 0)
    BY <1>6 DEF FinishLeg, Frame
  <2> QED BY <2>1, FrameKeeps DEF Blame, Indexes
<1>7. CASE FinishLeg("go", "ok", "go_failed")
  <2>1. /\ Frame /\ pc = "go" /\ mismatches' = 0
        /\ pc' = "ok" \/ (pc' = "go_failed" /\ mismatches > 0)
    BY <1>7 DEF FinishLeg, Frame
  <2> QED BY <2>1, FrameKeeps DEF Blame, Indexes
<1>8. CASE ExportLeg
  BY <1>8 DEF ExportLeg, Blame
<1>9. CASE Toolchain
  <2>1. pc = "toolchain" /\ pc' \in {"go", "toolchain_failed"} /\ mismatches' = mismatches
    BY <1>9 DEF Toolchain
  <2>2. ~(mismatches > 0)
    BY <1>0, <2>1 DEF IInv, AtRest
  <2> QED BY <2>1, <2>2 DEF Blame
<1> QED BY <1>1, <1>2, <1>3, <1>4, <1>5, <1>6, <1>7, <1>8, <1>9 DEF Next

(***************************************************************************)
(* run.sh never cries wolf: the assertion of generate_cases.py failed on a *)
(* negative Python accepts, and a leg that failed has a case on which its  *)
(* kernel does not give Python's verdict.                                  *)
(***************************************************************************)
THEOREM FailuresAreReal ==
  Spec => [](/\ pc = "python_failed" =>
                  \E i \in Indexes : Cases[i].negative /\ VerdictOn("py", i).ok
             /\ pc = "ts_failed" => \E i \in Indexes : VerdictOn("ts", i) # VerdictOn("py", i)
             /\ pc = "go_failed" =>
                  \E i \in Indexes : VerdictOn("go", i).ok # VerdictOn("py", i).ok)
<1>1. Init => Blame
  BY DEF Init, Blame
<1>2. IInv /\ Blame =>
        /\ pc = "python_failed" => \E i \in Indexes : Cases[i].negative /\ VerdictOn("py", i).ok
        /\ pc = "ts_failed" => \E i \in Indexes : VerdictOn("ts", i) # VerdictOn("py", i)
        /\ pc = "go_failed" => \E i \in Indexes : VerdictOn("go", i).ok # VerdictOn("py", i).ok
  <2> SUFFICES ASSUME IInv, Blame
               PROVE  /\ pc = "python_failed" =>
                           \E i \in Indexes : Cases[i].negative /\ VerdictOn("py", i).ok
                      /\ pc = "ts_failed" =>
                           \E i \in Indexes : VerdictOn("ts", i) # VerdictOn("py", i)
                      /\ pc = "go_failed" =>
                           \E i \in Indexes : VerdictOn("go", i).ok # VerdictOn("py", i).ok
    OBVIOUS
  <2>1. ASSUME pc \in {"ts_failed", "go_failed"}, NEW i \in Indexes
        PROVE  recorded[i] = VerdictOn("py", i)
    BY <2>1 DEF IInv, TypeOK, RecordedOk, Indexes
  <2> QED BY <2>1 DEF Blame, TsMatches, GoMatches
<1> QED BY <1>1, <1>2, Initially, StepKeeps, BlameKeeps, PTL DEF Spec

(***************************************************************************)
(* So the kernels as written pass, whatever the cases: of the profiles     *)
(* KernelsAgree is about, nested within the bound, and with negatives that *)
(* Python rejects.                                                         *)
(***************************************************************************)
THEOREM RealKernelsPass ==
  ASSUME \A i \in Indexes : /\ Cases[i].envelope.spec_version \notin {Absent, "ario.mlflow/v1"}
                            /\ CanonicalEnvelope(Cases[i].envelope)
                            /\ Cases[i].negative =>
                                 ~Verdict("py", {}, Cases[i].envelope, Cases[i].bytes).ok
  PROVE  Spec => []((\A k \in Kernels : lacks[k] = {}) =>
                      pc \notin {"python_failed", "ts_failed", "go_failed"})
<1> DEFINE Found == /\ pc = "python_failed" =>
                         \E i \in Indexes : Cases[i].negative /\ VerdictOn("py", i).ok
                    /\ pc = "ts_failed" =>
                         \E i \in Indexes : VerdictOn("ts", i) # VerdictOn("py", i)
                    /\ pc = "go_failed" =>
                         \E i \in Indexes : VerdictOn("go", i).ok # VerdictOn("py", i).ok
<1>1. Found => ((\A k \in Kernels : lacks[k] = {}) =>
                  pc \notin {"python_failed", "ts_failed", "go_failed"})
  <2> SUFFICES ASSUME \A k \in Kernels : lacks[k] = {}, Found
               PROVE  pc \notin {"python_failed", "ts_failed", "go_failed"}
    OBVIOUS
  <2>1. ASSUME NEW i \in Indexes, NEW k \in Kernels
        PROVE  VerdictOn(k, i) = Verdict("py", {}, Cases[i].envelope, Cases[i].bytes)
    <3>1. VerdictOn(k, i) = Verdict(k, {}, Cases[i].envelope, Cases[i].bytes)
      BY DEF VerdictOn
    <3>2. \A e, bytes : e.spec_version \notin {Absent, "ario.mlflow/v1"} /\ CanonicalEnvelope(e)
            => Verdict(k, {}, e, bytes) = Verdict("py", {}, e, bytes)
      BY KernelsAgree
    <3> QED BY <3>1, <3>2
  <2>2. {"py", "ts", "go"} \subseteq Kernels
    BY DEF Kernels
  <2> QED BY <2>1, <2>2
<1>2. Spec => []Found
  BY FailuresAreReal
<1> QED BY <1>1, <1>2, PTL

-----------------------------------------------------------------------------
(* What a passing gate says of the kernels' checks.                        *)

\* Everything in the case is in order, except for what check c is about.
Isolates(c, i) ==
  \A k \in Kernels, d \in Checks :
    Holds(k, d, Cases[i].envelope, Cases[i].bytes) <=> d # c

\* A kernel accepts such a case exactly if it lacks the check.
LEMMA IsolatedVerdict ==
  ASSUME NEW c \in Checks, NEW i, Isolates(c, i), NEW k \in Kernels
  PROVE  VerdictOn(k, i).ok <=> c \in lacks[k]
<1> DEFINE env == Cases[i].envelope
           bytes == Cases[i].bytes
           passed == Passed(k, lacks[k], env, bytes)
           phk == Binding(passed, env, bytes)
<1>1. \A d \in Checks : d \in passed <=> (d # c \/ c \in lacks[k])
  BY DEF Passed, Isolates
<1>2. /\ c = "inline" => env.payload # Absent
      /\ c = "bytes" => bytes # Absent
  BY DEF Isolates, Holds, Checks, Kernels
<1>3. VerdictOn(k, i).ok <=> /\ {"spec", "text", "depth", "signature"} \subseteq passed
                             /\ phk # "false"
  BY DEF VerdictOn, Verdict
<1> HIDE DEF passed, env, bytes
<1>4. phk # "false" <=> (c \in {"payload_hash", "inline", "bytes"} => c \in lacks[k])
                        /\ (c = "depth" /\ c \notin lacks[k] /\ env.payload # Absent => FALSE)
  BY <1>1, <1>2 DEF Binding, Checks
<1> QED BY <1>1, <1>3, <1>4 DEF Checks


\* So agreement on it is agreement on that check.
LEMMA IsolatedAgree ==
  ASSUME AgreedOnCases, Passes, NEW c \in Checks, NEW i \in Indexes, Isolates(c, i)
  PROVE  /\ \A k \in Kernels : c \in lacks[k] <=> c \in lacks["py"]
         /\ Cases[i].negative => c \notin lacks["py"]
<1>1. \A k \in Kernels : VerdictOn(k, i).ok <=> c \in lacks[k]
  BY IsolatedVerdict
<1>2. \A k \in Kernels : VerdictOn(k, i).ok = VerdictOn("py", i).ok
  BY DEF AgreedOnCases, Kernels
<1>3. Cases[i].negative => ~VerdictOn("py", i).ok
  BY DEF AgreedOnCases
<1> QED BY <1>1, <1>2, <1>3 DEF Kernels

(***************************************************************************)
(* run.sh ends well only if all three kernels make, or all three lack,     *)
(* every check a case turns on alone; if that case is a negative of the    *)
(* corpus, they make it.  For any cases and anything the kernels lack.     *)
(***************************************************************************)
THEOREM IsolatedChecksAgree ==
  ASSUME NEW c \in Checks, NEW i \in Indexes, Isolates(c, i)
  PROVE  Spec => [](Passes => /\ \A k \in Kernels : c \in lacks[k] <=> c \in lacks["py"]
                              /\ Cases[i].negative => c \notin lacks["py"])
<1>1. AgreedOnCases => (Passes => /\ \A k \in Kernels : c \in lacks[k] <=> c \in lacks["py"]
                                  /\ Cases[i].negative => c \notin lacks["py"])
  BY IsolatedAgree
<1> QED BY <1>1, PassMeansAgreement, PTL

\* The model values of the corpus and its terms are told apart.
TermsDiffer ==
  /\ {Absent, LoneSurrogate} \cap {"adversarial", "negative"} = {}
  /\ Absent # MalformedMinors[1]
  /\ TermsPresent
  /\ \A id : Named(id) \notin {Absent, Uncanonical}
  /\ Absent # Uncanonical

\* The cases the corpus has for the spec_version, for the payload_hash, for
\* external bytes, for the signature and for an inline payload.
SampledCases ==
  {negative_cases[1], negative_cases[5],
   adversarial_cases[4], adversarial_cases[5], adversarial_cases[10]}

\* A finite sequence, of whatever it holds.
IsFiniteSeq(s) == s \in Seq({s[i] : i \in DOMAIN s})

\* A function on 1 .. n is one.
LEMMA ListedSeq ==
  ASSUME NEW n \in Nat, NEW f, f = [i \in 1 .. n |-> f[i]]
  PROVE  IsFiniteSeq(f) /\ Len(f) = n
<1> DEFINE S == {f[i] : i \in DOMAIN f}
<1>1. DOMAIN f = 1 .. n
  OBVIOUS
<1>2. \A i \in 1 .. n : f[i] \in S
  BY <1>1
<1> HIDE DEF S
<1>3. f \in [1 .. n -> S]
  BY <1>1, <1>2
<1>4. f \in Seq(S) /\ Len(f) = n
  BY <1>3
<1> QED BY <1>4 DEF S, IsFiniteSeq

\* The entries of u are those of s and then those of t.
Joins(u, s, t) ==
  /\ Len(u) = Len(s) + Len(t)
  /\ \A i \in 1 .. Len(s) : i \in 1 .. Len(u) /\ u[i] = s[i]
  /\ \A i \in 1 .. Len(t) : Len(s) + i \in 1 .. Len(u) /\ u[Len(s) + i] = t[i]

\* So it is for a concatenation.
LEMMA Concatenated ==
  ASSUME NEW s, IsFiniteSeq(s), NEW t, IsFiniteSeq(t)
  PROVE  IsFiniteSeq(s \o t) /\ Joins(s \o t, s, t)
<1> DEFINE S == {s[i] : i \in DOMAIN s} \cup {t[i] : i \in DOMAIN t}
<1>1. s \in Seq(S) /\ t \in Seq(S)
  BY DEF IsFiniteSeq
<1> HIDE DEF S
<1>2. s \o t \in Seq(S)
  BY <1>1
<1>3. Len(s) \in Nat /\ Len(t) \in Nat /\ Len(s \o t) = Len(s) + Len(t)
  BY <1>1
<1>4. \A i \in 1 .. Len(s) : (s \o t)[i] = s[i]
  BY <1>1, <1>3
<1>5. \A i \in 1 .. Len(t) : (s \o t)[Len(s) + i] = t[i]
  <2> SUFFICES ASSUME NEW i \in 1 .. Len(t) PROVE (s \o t)[Len(s) + i] = t[i]
    OBVIOUS
  <2> QED BY <1>1, <1>3
<1>6. IsFiniteSeq(s \o t)
  <2>1. PICK u \in Seq(S) : u = s \o t
    BY <1>2
  <2>2. IsFiniteSeq(u)
    BY DEF IsFiniteSeq
  <2> QED BY <2>1, <2>2
<1> QED BY <1>3, <1>4, <1>5, <1>6 DEF Joins

\* The negatives of the corpus.
LEMMA Negatives ==
  /\ IsFiniteSeq(negative_cases) /\ Len(negative_cases) = 5
  /\ \A i \in 1 .. 5 : /\ negative_cases[i].envelope = negative_vectors[i]
                       /\ negative_cases[i].bytes = Absent
                       /\ negative_cases[i].negative
                       /\ negative_cases[i].expect = "rejected"
  /\ negative_vectors[1] = Complete(Bare("ario.agent/v1.x", "negative"),
                                    Sha256(Named("negative record")))
  /\ \A i \in 1 .. 3 : negative_vectors[i] = Complete(Bare(MalformedMinors[i], "negative"),
                                                     Sha256(Named("negative record")))
  /\ /\ negative_vectors[4].spec_version = "ario.agent/v1"
     /\ negative_vectors[4].payload = Absent
     /\ negative_vectors[4].body = LoneSurrogate
  /\ negative_vectors[5] = sign([Bare("ario.agent/v1", "negative") EXCEPT !.public_key = FIXED_SEED])
<1> DEFINE record_hash == Sha256(Named("negative record"))
           bad == [i \in DOMAIN MalformedMinors |->
                     Complete(Bare(MalformedMinors[i], "negative"), record_hash)]
           surrogate == [Bare("ario.agent/v1", LoneSurrogate) EXCEPT
                           !.payload_hash = record_hash, !.public_key = FIXED_SEED,
                           !.signature = SignatureBy("nobody", Absent)]
           unhashed == sign([Bare("ario.agent/v1", "negative") EXCEPT !.public_key = FIXED_SEED])
           tail == <<surrogate, unhashed>>
<1>1. negative_vectors = bad \o tail
  BY DEF negative_vectors
<1>2. DOMAIN MalformedMinors = 1 .. 3 /\ MalformedMinors[1] = "ario.agent/v1.x"
  BY DEF MalformedMinors
<1>3. /\ bad = [i \in 1 .. 3 |-> bad[i]]
      /\ bad[1] = Complete(Bare("ario.agent/v1.x", "negative"), record_hash)
      /\ \A i \in 1 .. 3 : bad[i] = Complete(Bare(MalformedMinors[i], "negative"), record_hash)
  <2> HIDE DEF record_hash
  <2> QED BY <1>2
<1>10. /\ surrogate.spec_version = "ario.agent/v1" /\ surrogate.payload = Absent
       /\ surrogate.body = LoneSurrogate
  BY DEF Bare
<1> HIDE DEF bad, surrogate, unhashed
<1>4. tail = [i \in 1 .. 2 |-> tail[i]] /\ tail[1] = surrogate /\ tail[2] = unhashed
  OBVIOUS
<1> HIDE DEF tail
<1>5. /\ IsFiniteSeq(bad) /\ Len(bad) = 3
      /\ IsFiniteSeq(tail) /\ Len(tail) = 2
  BY <1>3, <1>4, ListedSeq
<1>6. /\ IsFiniteSeq(negative_vectors) /\ Len(negative_vectors) = 5
      /\ \A i \in 1 .. 3 : negative_vectors[i] = bad[i]
      /\ negative_vectors[4] = tail[1] /\ negative_vectors[5] = tail[2]
  <2>1. /\ IsFiniteSeq(bad \o tail) /\ Len(bad \o tail) = Len(bad) + Len(tail)
        /\ \A i \in 1 .. Len(bad) : (bad \o tail)[i] = bad[i]
        /\ \A i \in 1 .. Len(tail) : (bad \o tail)[Len(bad) + i] = tail[i]
    <3>1. IsFiniteSeq(bad) /\ IsFiniteSeq(tail)
      BY <1>5
    <3> HIDE DEF record_hash
    <3> QED BY ONLY <3>1, Concatenated
  <2>2. 1 \in 1 .. 2 /\ 2 \in 1 .. 2 /\ 3 + 1 = 4 /\ 3 + 2 = 5
    OBVIOUS
  <2>3. /\ \A i \in 1 .. 3 : (bad \o tail)[i] = bad[i]
        /\ (bad \o tail)[4] = tail[1] /\ (bad \o tail)[5] = tail[2]
    BY <1>5, <2>1, <2>2
  <2> QED BY <1>1, <1>5, <2>1, <2>2, <2>3
<1>7. DOMAIN negative_vectors = 1 .. 5
  BY <1>6 DEF IsFiniteSeq
<1>8. /\ negative_cases = [i \in 1 .. 5 |-> negative_cases[i]]
      /\ \A i \in 1 .. 5 : /\ negative_cases[i].envelope = negative_vectors[i]
                           /\ negative_cases[i].bytes = Absent
                           /\ negative_cases[i].negative
                           /\ negative_cases[i].expect = "rejected"
  BY <1>7 DEF negative_cases
<1>9. IsFiniteSeq(negative_cases) /\ Len(negative_cases) = 5
  BY <1>8, ListedSeq
<1>11. negative_vectors[1] = bad[1]
  <2>1. 1 \in 1 .. 3
    OBVIOUS
  <2> QED BY <1>6, <2>1
<1>12. negative_vectors[4] = surrogate /\ negative_vectors[5] = unhashed
  BY <1>4, <1>6
<1>13. \A i \in 1 .. 3 :
         negative_vectors[i] = Complete(Bare(MalformedMinors[i], "negative"), record_hash)
  BY ONLY <1>3, <1>6
<1>14. /\ negative_vectors[4].spec_version = "ario.agent/v1"
       /\ negative_vectors[4].payload = Absent
       /\ negative_vectors[4].body = LoneSurrogate
  BY ONLY <1>10, <1>12
<1>15. negative_vectors[1] = Complete(Bare("ario.agent/v1.x", "negative"), record_hash)
  BY ONLY <1>3, <1>11
<1> QED BY <1>8, <1>9, <1>12, <1>13, <1>14, <1>15, Zenon DEF unhashed

\* The first ten of the adversarial cases, in the order they are written in.
LEMMA Adversarial ==
  LET inline == Inline("ario.agent/v1")
  IN /\ IsFiniteSeq(adversarial_cases) /\ Len(adversarial_cases) = 16
     /\ adversarial_cases[4] = Case(External, Named("not the record"), "rejected")
     /\ adversarial_cases[5] = Case([inline EXCEPT !.payload = Absent], Absent, "rejected")
     /\ adversarial_cases[10] =
          Case([inline EXCEPT !.payload = Named("tampered")], Absent, "rejected")
<1> DEFINE inline == Inline("ario.agent/v1")
           unhashed == sign(base("ario.agent/v1"))
           badMinors == MalformedMinors \o <<"ario.agent/v10">>
           altered(env, payload) == Case([env EXCEPT !.payload = payload], Absent, "rejected")
           first == <<Case(inline, Absent, "bound"),
                      Case(External, Absent, "undetermined"),
                      Case(External, Record, "bound"),
                      Case(External, Named("not the record"), "rejected"),
                      altered(inline, Absent),
                      altered(External, Named("forged")),
                      Case(unhashed, Absent, "rejected"),
                      Case(unhashed, Named("some bytes"), "rejected"),
                      Case(External, Absent, "undetermined"),
                      altered(inline, Named("tampered"))>>
           second == [i \in DOMAIN badMinors |-> Case(Inline(badMinors[i]), Absent, "rejected")]
           third == [i \in 1 .. 2 |-> Case(Inline("ario.agent/v1"), Absent, "bound")]
<1>1. adversarial_cases = (first \o second) \o third
  BY DEF adversarial_cases
<1>2. DOMAIN badMinors = 1 .. 4
  BY DEF MalformedMinors
<1>3. /\ second = [i \in 1 .. 4 |-> second[i]]
      /\ third = [i \in 1 .. 2 |-> third[i]]
  <2> HIDE DEF badMinors
  <2> QED BY <1>2
<1>4. /\ first = [i \in 1 .. 10 |-> first[i]]
      /\ first[4] = Case(External, Named("not the record"), "rejected")
      /\ first[5] = altered(inline, Absent)
      /\ first[10] = altered(inline, Named("tampered"))
  <2> HIDE DEF inline, unhashed, altered
  <2> QED OBVIOUS
<1> HIDE DEF first, second, third
<1>5. /\ IsFiniteSeq(first) /\ Len(first) = 10
      /\ IsFiniteSeq(second) /\ Len(second) = 4
      /\ IsFiniteSeq(third) /\ Len(third) = 2
  BY <1>3, <1>4, ListedSeq
<1>6. /\ IsFiniteSeq(first \o second) /\ Len(first \o second) = Len(first) + Len(second)
      /\ \A i \in 1 .. Len(first) : (first \o second)[i] = first[i]
  <2>1. IsFiniteSeq(first) /\ IsFiniteSeq(second)
    BY <1>5
  <2> QED BY ONLY <2>1, Concatenated
<1>7. /\ IsFiniteSeq((first \o second) \o third)
      /\ Len((first \o second) \o third) = Len(first \o second) + Len(third)
      /\ \A i \in 1 .. Len(first \o second) : ((first \o second) \o third)[i] = (first \o second)[i]
  <2>1. IsFiniteSeq(first \o second) /\ IsFiniteSeq(third)
    BY <1>5, <1>6
  <2> QED BY ONLY <2>1, Concatenated
<1>8. /\ IsFiniteSeq(adversarial_cases) /\ Len(adversarial_cases) = 16
      /\ \A i \in 1 .. 10 : adversarial_cases[i] = first[i]
  BY <1>1, <1>5, <1>6, <1>7
<1>9. /\ adversarial_cases[4] = first[4] /\ adversarial_cases[5] = first[5]
      /\ adversarial_cases[10] = first[10]
  BY <1>8
<1> QED BY <1>4, <1>8, <1>9

\* The corpus vectors make a finite list of cases, too.
LEMMA CorpusCasesListed == IsFiniteSeq(corpus_cases)
<1> DEFINE inline == InlineCases(ENVELOPE_VECTORS)
           vectors == events_vectors \o events_checkpoint_chain_vector
           external == ExternalCases(vectors)
<1>1. corpus_cases = inline \o external
  BY DEF corpus_cases
<1>2. DOMAIN ENVELOPE_VECTORS = 1 .. 6
  BY DEF ENVELOPE_VECTORS, EventTypes
<1>3. inline = [i \in 1 .. 6 |-> inline[i]]
  BY <1>2 DEF InlineCases
<1>4. IsFiniteSeq(events_vectors) /\ IsFiniteSeq(events_checkpoint_chain_vector)
  <2>1. ASSUME NEW a, NEW b, NEW c
        PROVE  IsFiniteSeq(<<a, b, c>>) /\ IsFiniteSeq(<<a, b>>)
    <3>1. /\ <<a, b, c>> = [i \in 1 .. 3 |-> <<a, b, c>>[i]]
          /\ <<a, b>> = [i \in 1 .. 2 |-> <<a, b>>[i]]
      OBVIOUS
    <3> QED BY <3>1, ListedSeq
  <2>2. /\ \E a, b, c : events_vectors = <<a, b, c>>
        /\ \E a, b : events_checkpoint_chain_vector = <<a, b>>
    BY DEF events_vectors, events_checkpoint_chain_vector
  <2> QED BY <2>1, <2>2
<1>5. DOMAIN vectors = 1 .. Len(vectors) /\ Len(vectors) \in Nat
  <2>1. IsFiniteSeq(vectors)
    BY <1>4, Concatenated
  <2> HIDE DEF vectors
  <2> QED BY <2>1 DEF IsFiniteSeq
<1>6. external = [i \in 1 .. Len(vectors) |-> external[i]]
  <2> HIDE DEF vectors
  <2> QED BY <1>5 DEF ExternalCases
<1> HIDE DEF inline, vectors, external
<1>7. IsFiniteSeq(inline) /\ IsFiniteSeq(external)
  BY <1>3, <1>5, <1>6, ListedSeq
<1> QED BY <1>1, <1>7, Concatenated

\* They are among the cases of generate_cases.py.
LEMMA Sampled ==
  ASSUME Cases = AllCases, NEW x \in SampledCases
  PROVE  \E i \in Indexes : Cases[i] = x
<1> DEFINE both == corpus_cases \o adversarial_cases
<1>1. AllCases = both \o negative_cases
  BY DEF AllCases
<1>2. IsFiniteSeq(both) /\ Joins(both, corpus_cases, adversarial_cases)
  <2>1. IsFiniteSeq(corpus_cases) /\ IsFiniteSeq(adversarial_cases)
    BY CorpusCasesListed, Adversarial
  <2> QED BY ONLY <2>1, Concatenated DEF both
<1> HIDE DEF both
<1>3. Joins(both \o negative_cases, both, negative_cases)
  <2>1. IsFiniteSeq(both) /\ IsFiniteSeq(negative_cases)
    BY <1>2, Negatives
  <2> QED BY ONLY <2>1, Concatenated
<1>4. ASSUME NEW i \in 1 .. 16 PROVE \E n \in Indexes : Cases[n] = adversarial_cases[i]
  <2>1. i \in 1 .. Len(adversarial_cases)
    BY Adversarial
  <2>2. PICK n \in 1 .. Len(both) : both[n] = adversarial_cases[i]
    BY <1>2, <2>1 DEF Joins
  <2>3. n \in 1 .. Len(both \o negative_cases) /\ (both \o negative_cases)[n] = both[n]
    BY <1>3 DEF Joins
  <2> QED BY <1>1, <2>2, <2>3 DEF Indexes
<1>5. ASSUME NEW i \in 1 .. 5 PROVE \E n \in Indexes : Cases[n] = negative_cases[i]
  <2>1. i \in 1 .. Len(negative_cases)
    BY Negatives
  <2> QED BY <1>1, <1>3, <2>1 DEF Indexes, Joins
<1>6. 1 \in 1 .. 5 /\ 5 \in 1 .. 5 /\ 4 \in 1 .. 16 /\ 5 \in 1 .. 16 /\ 10 \in 1 .. 16
  OBVIOUS
<1> QED BY <1>4, <1>5, <1>6 DEF SampledCases


\* Outside the annotated profiles the kernels sign the same scope.
LEMMA SameScope ==
  ASSUME NEW e, e.spec_version \notin {Absent, "ario.mlflow/v1"}, NEW k \in Kernels
  PROVE  ScopeOf(k, e) = SignedScope(e)
BY DEF ScopeOf, envelope_for_signature, SignedScope, Annotated

\* A signed envelope of the corpus, field by field, and one that is not signed yet.
Signed(v, p, h, b) ==
  [spec_version |-> v, payload |-> p, payload_hash |-> h, public_key |-> FIXED_SEED,
   body |-> b, notes |-> Absent, co_signatures |-> Absent,
   signature |-> SignatureBy(FIXED_SEED,
     [spec_version |-> v, payload |-> p, payload_hash |-> h, public_key |-> FIXED_SEED,
      body |-> b, notes |-> Absent])]

Unsigned(v, p, h, k, b) ==
  [spec_version |-> v, payload |-> p, payload_hash |-> h, public_key |-> k,
   body |-> b, notes |-> Absent, co_signatures |-> Absent, signature |-> Absent]

\* What the generators' sign makes of them.
LEMMA Signs ==
  ASSUME NEW v, NEW p, NEW h, NEW b
  PROVE  sign(Unsigned(v, p, h, FIXED_SEED, b)) = Signed(v, p, h, b)
<1>1. SignedScope(Unsigned(v, p, h, FIXED_SEED, b)) =
        [spec_version |-> v, payload |-> p, payload_hash |-> h, public_key |-> FIXED_SEED,
         body |-> b, notes |-> Absent]
  BY DEF SignedScope, Unsigned
<1>2. PICK g : g = SignatureBy(FIXED_SEED, SignedScope(Unsigned(v, p, h, FIXED_SEED, b)))
  OBVIOUS
<1>3. sign(Unsigned(v, p, h, FIXED_SEED, b)) = [Unsigned(v, p, h, FIXED_SEED, b) EXCEPT !.signature = g]
  BY <1>2 DEF sign
<1>4. [Unsigned(v, p, h, FIXED_SEED, b) EXCEPT !.signature = g] =
        [spec_version |-> v, payload |-> p, payload_hash |-> h, public_key |-> FIXED_SEED,
         body |-> b, notes |-> Absent, co_signatures |-> Absent, signature |-> g]
  BY DEF Unsigned
<1> QED BY <1>1, <1>2, <1>3, <1>4 DEF Signed

\* What signing the completed vectors makes of them.
LEMMA CompletedBare ==
  ASSUME NEW v, NEW h, NEW b
  PROVE  Complete(Bare(v, b), h) = Signed(v, Absent, h, b)
<1>1. PICK u : u = Bare(v, b)
  OBVIOUS
<1>2. u = Unsigned(v, Absent, Absent, Absent, b)
  BY <1>1 DEF Bare, Unsigned
<1>3. [u EXCEPT !.payload_hash = h] = Unsigned(v, Absent, h, Absent, b)
  BY <1>2 DEF Unsigned
<1>4. [u EXCEPT !.payload_hash = h, !.public_key = FIXED_SEED]
      = [[u EXCEPT !.payload_hash = h] EXCEPT !.public_key = FIXED_SEED]
  BY <1>2 DEF Unsigned
<1>5. [Unsigned(v, Absent, h, Absent, b) EXCEPT !.public_key = FIXED_SEED]
      = Unsigned(v, Absent, h, FIXED_SEED, b)
  BY DEF Unsigned
<1>6. [u EXCEPT !.payload_hash = h, !.public_key = FIXED_SEED] = Unsigned(v, Absent, h, FIXED_SEED, b)
  BY <1>3, <1>4, <1>5
<1> QED BY <1>1, <1>6, Signs DEF Complete

\* The envelopes generate_cases.py builds, for any profile.
LEMMA BuiltEnvelopes ==
  ASSUME NEW v
  PROVE  /\ Inline(v) = Signed(v, Record, Sha256(Record), "adversarial")
         /\ sign(base(v)) = Signed(v, Absent, Absent, "adversarial")
<1>1. PICK b : b = base(v)
  OBVIOUS
<1>2. b = Unsigned(v, Absent, Absent, FIXED_SEED, "adversarial")
  BY <1>1 DEF base, Bare, Unsigned
<1>3. PICK p, h : p = Record /\ h = Sha256(Record)
  OBVIOUS
<1>4. [b EXCEPT !.payload = p] = Unsigned(v, p, Absent, FIXED_SEED, "adversarial")
  BY <1>2 DEF Unsigned
<1>5. [b EXCEPT !.payload = p, !.payload_hash = h] = [[b EXCEPT !.payload = p] EXCEPT !.payload_hash = h]
  BY <1>2 DEF Unsigned
<1>6. [Unsigned(v, p, Absent, FIXED_SEED, "adversarial") EXCEPT !.payload_hash = h]
      = Unsigned(v, p, h, FIXED_SEED, "adversarial")
  BY DEF Unsigned
<1>7. Inline(v) = sign([b EXCEPT !.payload = p, !.payload_hash = h])
  BY <1>1, <1>3 DEF Inline
<1>8. [b EXCEPT !.payload = p, !.payload_hash = h] = Unsigned(v, p, h, FIXED_SEED, "adversarial")
  BY ONLY <1>4, <1>5, <1>6
<1>9. Inline(v) = Signed(v, p, h, "adversarial")
  BY ONLY <1>7, <1>8, Signs
<1> QED BY <1>1, <1>2, <1>3, <1>9, Signs

\* The envelopes of the sampled cases.
LEMMA SampledEnvelopes ==
  /\ negative_vectors[1] = Signed("ario.agent/v1.x", Absent, Sha256(Named("negative record")), "negative")
  /\ negative_vectors[5] = Signed("ario.agent/v1", Absent, Absent, "negative")
  /\ External = Signed("ario.agent/v1", Absent, Sha256(Record), "adversarial")
  /\ Inline("ario.agent/v1") = Signed("ario.agent/v1", Record, Sha256(Record), "adversarial")
<1>1. External = Signed("ario.agent/v1", Absent, Sha256(Record), "adversarial")
  <2>1. PICK b, h : b = base("ario.agent/v1") /\ h = Sha256(Record)
    OBVIOUS
  <2>2. b = Unsigned("ario.agent/v1", Absent, Absent, FIXED_SEED, "adversarial")
    BY <2>1 DEF base, Bare, Unsigned
  <2>3. [b EXCEPT !.payload_hash = h]
        = Unsigned("ario.agent/v1", Absent, h, FIXED_SEED, "adversarial")
    BY <2>2 DEF Unsigned
  <2>4. External = sign([b EXCEPT !.payload_hash = h])
    BY <2>1 DEF External
  <2> QED BY <2>1, <2>3, <2>4, Signs
<1>2. negative_vectors[5] = Signed("ario.agent/v1", Absent, Absent, "negative")
  <2>1. PICK u : u = Bare("ario.agent/v1", "negative")
    OBVIOUS
  <2>2. [u EXCEPT !.public_key = FIXED_SEED]
        = Unsigned("ario.agent/v1", Absent, Absent, FIXED_SEED, "negative")
    BY <2>1 DEF Bare, Unsigned
  <2>3. negative_vectors[5] = sign([u EXCEPT !.public_key = FIXED_SEED])
    BY <2>1, Negatives
  <2> QED BY <2>2, <2>3, Signs
<1>3. negative_vectors[1] =
        Signed("ario.agent/v1.x", Absent, Sha256(Named("negative record")), "negative")
  <2>1. PICK h : h = Sha256(Named("negative record"))
    OBVIOUS
  <2>2. negative_vectors[1] = Complete(Bare("ario.agent/v1.x", "negative"), h)
    BY <2>1, Negatives, Zenon
  <2>3. negative_vectors[1] = Signed("ario.agent/v1.x", Absent, h, "negative")
    BY ONLY <2>2, CompletedBare
  <2> QED BY <2>1, <2>3, Zenon
<1> QED BY <1>1, <1>2, <1>3, BuiltEnvelopes

\* What holds of an envelope signed like these.
LEMMA SignedHolds ==
  ASSUME TermsDiffer, NEW v \in {"ario.agent/v1", "ario.agent/v1.x"},
         NEW p, NEW h, NEW b \in {"adversarial", "negative"},
         NEW env, env = Signed(v, p, h, b),
         NEW k \in Kernels, NEW bytes
  PROVE  /\ Holds(k, "text", env, bytes)
         /\ Holds(k, "depth", env, bytes) <=> (k = "go" \/ p # Uncanonical)
         /\ Holds(k, "spec", env, bytes) <=> v = "ario.agent/v1"
         /\ Holds(k, "payload_hash", env, bytes) <=> h \notin {Absent, NotAString}
         /\ Holds(k, "inline", env, bytes) <=> (p # Absent => h = Sha256(p))
         /\ Holds(k, "bytes", env, bytes) <=> (bytes # Absent => h = Sha256(bytes))
         /\ Holds(k, "signature", env, bytes)
<1>1. /\ env.spec_version = v /\ env.payload = p /\ env.payload_hash = h
      /\ env.body = b /\ env.public_key = FIXED_SEED
      /\ env.signature = SignatureBy(FIXED_SEED, SignedScope(env))
  BY DEF Signed, SignedScope
<1>2. v \notin {Absent, "ario.mlflow/v1"} /\ b # LoneSurrogate
  BY DEF TermsDiffer, TermsPresent, ACCEPTED_SPEC_VERSIONS, MalformedMinors
<1>3. ScopeOf(k, env) = SignedScope(env)
  BY <1>1, <1>2, SameScope
<1>4. SpecOk(k, env) <=> v = "ario.agent/v1"
  BY <1>1, <1>2 DEF SpecOk, spec_version_ok, spec_version_supported, ACCEPTED_SPEC_VERSIONS
<1>5. TextOk(env) /\ (DepthOk(k, env) <=> (k = "go" \/ p # Uncanonical))
  BY <1>1, <1>2 DEF TextOk, DepthOk, CanonicalEnvelope
<1>6. env.signature # Absent
  BY <1>1 DEF TermsDiffer, TermsPresent
<1>7. /\ Holds(k, "text", env, bytes) /\ Holds(k, "signature", env, bytes)
      /\ Holds(k, "depth", env, bytes) <=> (k = "go" \/ p # Uncanonical)
      /\ Holds(k, "spec", env, bytes) <=> v = "ario.agent/v1"
  BY <1>1, <1>3, <1>4, <1>5, <1>6 DEF Holds
<1>8. /\ Holds(k, "payload_hash", env, bytes) <=> h \notin {Absent, NotAString}
      /\ Holds(k, "inline", env, bytes) <=> (p # Absent => h = Sha256(p))
      /\ Holds(k, "bytes", env, bytes) <=> (bytes # Absent => h = Sha256(bytes))
  BY <1>1 DEF Holds
<1> QED BY <1>7, <1>8

\* A signed envelope with another payload, or with none.
Altered(env, signed) ==
  /\ env.spec_version = signed.spec_version /\ env.payload_hash = signed.payload_hash
  /\ env.public_key = signed.public_key /\ env.body = signed.body
  /\ env.signature = signed.signature

\* What holds of it.
LEMMA AlteredHolds ==
  ASSUME TermsDiffer, NEW p, NEW h, NEW env,
         Altered(env, Signed("ario.agent/v1", p, h, "adversarial")),
         env.payload \notin {p, Uncanonical}, NEW k \in Kernels
  PROVE  /\ Holds(k, "text", env, Absent) /\ Holds(k, "depth", env, Absent)
         /\ Holds(k, "spec", env, Absent) /\ Holds(k, "bytes", env, Absent)
         /\ Holds(k, "payload_hash", env, Absent) <=> h \notin {Absent, NotAString}
         /\ Holds(k, "inline", env, Absent) <=> (env.payload # Absent => h = Sha256(env.payload))
         /\ ~Holds(k, "signature", env, Absent)
<1> DEFINE old == [spec_version |-> "ario.agent/v1", payload |-> p, payload_hash |-> h,
                   public_key |-> FIXED_SEED, body |-> "adversarial", notes |-> Absent]
           q == env.payload
<1>1. /\ env.spec_version = "ario.agent/v1" /\ env.payload = q /\ env.payload_hash = h
      /\ env.body = "adversarial" /\ env.public_key = FIXED_SEED
      /\ env.signature = SignatureBy(FIXED_SEED, old)
  BY DEF Signed, Altered
<1>2. "ario.agent/v1" \notin {Absent, "ario.mlflow/v1"} /\ "adversarial" # LoneSurrogate
  BY DEF TermsDiffer, TermsPresent, ACCEPTED_SPEC_VERSIONS
<1>3. SignedScope(env).payload = q /\ old.payload = p
  BY <1>1 DEF SignedScope
<1>4. SignedScope(env) # old
  BY <1>3
<1> HIDE DEF old
<1>5. SignatureBy(FIXED_SEED, old) # SignatureBy(FIXED_SEED, SignedScope(env))
  <2>1. /\ SignatureBy(FIXED_SEED, old).message = old
        /\ SignatureBy(FIXED_SEED, SignedScope(env)).message = SignedScope(env)
    BY DEF SignatureBy
  <2> QED BY <1>4, <2>1
<1>6. ScopeOf(k, env) = SignedScope(env)
  BY <1>1, <1>2, SameScope
<1>7. ~Holds(k, "signature", env, Absent)
  BY <1>1, <1>5, <1>6 DEF Holds
<1>8. SpecOk(k, env) /\ TextOk(env) /\ DepthOk(k, env)
  BY <1>1, <1>2 DEF SpecOk, spec_version_ok, spec_version_supported, ACCEPTED_SPEC_VERSIONS,
                    TextOk, DepthOk, CanonicalEnvelope
<1>9. /\ Holds(k, "text", env, Absent) /\ Holds(k, "depth", env, Absent)
      /\ Holds(k, "spec", env, Absent) /\ Holds(k, "bytes", env, Absent)
      /\ Holds(k, "payload_hash", env, Absent) <=> h \notin {Absent, NotAString}
      /\ Holds(k, "inline", env, Absent) <=> (env.payload # Absent => h = Sha256(env.payload))
  BY <1>1, <1>8 DEF Holds
<1> QED BY <1>7, <1>9

\* The arguments of the sampled cases.
LEMMA SampledArguments ==
  /\ /\ negative_cases[1].envelope =
          Signed("ario.agent/v1.x", Absent, Sha256(Named("negative record")), "negative")
     /\ negative_cases[1].bytes = Absent /\ negative_cases[1].negative
  /\ /\ negative_cases[5].envelope = Signed("ario.agent/v1", Absent, Absent, "negative")
     /\ negative_cases[5].bytes = Absent /\ negative_cases[5].negative
  /\ /\ adversarial_cases[4].envelope =
          Signed("ario.agent/v1", Absent, Sha256(Record), "adversarial")
     /\ adversarial_cases[4].bytes = Named("not the record")
  /\ /\ adversarial_cases[5].envelope = [Inline("ario.agent/v1") EXCEPT !.payload = Absent]
     /\ adversarial_cases[5].bytes = Absent
  /\ /\ adversarial_cases[10].envelope =
          [Inline("ario.agent/v1") EXCEPT !.payload = Named("tampered")]
     /\ adversarial_cases[10].bytes = Absent
<1>1. 1 \in 1 .. 5 /\ 5 \in 1 .. 5
  OBVIOUS
<1>2. /\ negative_cases[1].envelope = negative_vectors[1]
      /\ negative_cases[1].bytes = Absent /\ negative_cases[1].negative
      /\ negative_cases[5].envelope = negative_vectors[5]
      /\ negative_cases[5].bytes = Absent /\ negative_cases[5].negative
  BY <1>1, Negatives
<1>3. \A env, bytes, expect : /\ Case(env, bytes, expect).envelope = env
                              /\ Case(env, bytes, expect).bytes = bytes
  BY DEF Case
<1>4. /\ adversarial_cases[4].envelope = External
      /\ adversarial_cases[4].bytes = Named("not the record")
  <2>1. PICK b : b = Named("not the record")
    OBVIOUS
  <2>2. adversarial_cases[4] = Case(External, b, "rejected")
    BY <2>1, Adversarial, Zenon
  <2>3. adversarial_cases[4].envelope = External /\ adversarial_cases[4].bytes = b
    BY <1>3, <2>2
  <2> QED BY <2>1, <2>3, Zenon
<1>5. /\ adversarial_cases[5].envelope = [Inline("ario.agent/v1") EXCEPT !.payload = Absent]
      /\ adversarial_cases[5].bytes = Absent
  <2>1. PICK e : e = [Inline("ario.agent/v1") EXCEPT !.payload = Absent]
    OBVIOUS
  <2>2. adversarial_cases[5] = Case(e, Absent, "rejected")
    BY <2>1, Adversarial
  <2> QED BY <1>3, <2>1, <2>2
<1>6. /\ adversarial_cases[10].envelope = [Inline("ario.agent/v1") EXCEPT !.payload = Named("tampered")]
      /\ adversarial_cases[10].bytes = Absent
  <2>1. PICK e : e = [Inline("ario.agent/v1") EXCEPT !.payload = Named("tampered")]
    OBVIOUS
  <2>2. adversarial_cases[10] = Case(e, Absent, "rejected")
    BY <2>1, Adversarial
  <2> QED BY <1>3, <2>1, <2>2
<1> QED BY <1>2, <1>4, <1>5, <1>6, SampledEnvelopes

\* Four of them turn on one check each.
LEMMA FourIsolated ==
  ASSUME Cases = AllCases, TermsDiffer
  PROVE  /\ \E i \in Indexes : Isolates("spec", i) /\ Cases[i].negative
         /\ \E i \in Indexes : Isolates("payload_hash", i) /\ Cases[i].negative
         /\ \E i \in Indexes : Isolates("bytes", i)
         /\ \E i \in Indexes : Isolates("signature", i)
<1>0. Absent # Uncanonical /\ \A x : Sha256(x) \notin {Absent, NotAString}
  BY DEF TermsDiffer, TermsPresent
<1>1. \E i \in Indexes : Isolates("spec", i) /\ Cases[i].negative
  <2>1. PICK i \in Indexes : Cases[i] = negative_cases[1]
    BY Sampled DEF SampledCases
  <2>2. PICK env, h : /\ env = Cases[i].envelope /\ h = Sha256(Named("negative record"))
                      /\ env = Signed("ario.agent/v1.x", Absent, h, "negative")
                      /\ Cases[i].bytes = Absent /\ Cases[i].negative
    BY <2>1, SampledArguments
  <2>3. ASSUME NEW k \in Kernels, NEW d \in Checks PROVE Holds(k, d, env, Absent) <=> d # "spec"
    <3>1. h \notin {Absent, NotAString} /\ env = Signed("ario.agent/v1.x", Absent, h, "negative")
      BY <1>0, <2>2, Zenon
    <3>2. /\ Holds(k, "text", env, Absent) /\ Holds(k, "depth", env, Absent)
          /\ ~Holds(k, "spec", env, Absent) /\ Holds(k, "payload_hash", env, Absent)
          /\ Holds(k, "inline", env, Absent) /\ Holds(k, "bytes", env, Absent)
          /\ Holds(k, "signature", env, Absent)
      BY <1>0, <3>1, SignedHolds
    <3> QED BY <3>2 DEF Checks
  <2>4. Isolates("spec", i)
    BY <2>2, <2>3 DEF Isolates
  <2> QED BY <2>2, <2>4
<1>2. \E i \in Indexes : Isolates("payload_hash", i) /\ Cases[i].negative
  <2>1. PICK i \in Indexes : Cases[i] = negative_cases[5]
    BY Sampled DEF SampledCases
  <2>2. PICK env : /\ env = Cases[i].envelope
                   /\ env = Signed("ario.agent/v1", Absent, Absent, "negative")
                   /\ Cases[i].bytes = Absent /\ Cases[i].negative
    BY <2>1, SampledArguments
  <2>3. ASSUME NEW k \in Kernels, NEW d \in Checks
        PROVE  Holds(k, d, env, Absent) <=> d # "payload_hash"
    <3>1. /\ Holds(k, "text", env, Absent) /\ Holds(k, "depth", env, Absent)
          /\ Holds(k, "spec", env, Absent) /\ ~Holds(k, "payload_hash", env, Absent)
          /\ Holds(k, "inline", env, Absent) /\ Holds(k, "bytes", env, Absent)
          /\ Holds(k, "signature", env, Absent)
      BY <1>0, <2>2, SignedHolds
    <3> QED BY <3>1 DEF Checks
  <2>4. Isolates("payload_hash", i)
    BY <2>2, <2>3 DEF Isolates
  <2> QED BY <2>2, <2>4
<1>3. \E i \in Indexes : Isolates("bytes", i)
  <2>1. PICK i \in Indexes : Cases[i] = adversarial_cases[4]
    BY Sampled DEF SampledCases
  <2>2. PICK env, h, bytes : /\ env = Cases[i].envelope /\ h = Sha256(Record)
                             /\ env = Signed("ario.agent/v1", Absent, h, "adversarial")
                             /\ bytes = Cases[i].bytes /\ bytes = Named("not the record")
    BY <2>1, SampledArguments
  <2>3. bytes # Absent /\ h # Sha256(bytes)
    <3>0. \A id : Named(id).id = id
      BY DEF Named
    <3>1. bytes.id # Record.id
      <4>1. bytes.id = "not the record" /\ Record.id = "external record"
        BY <2>2, <3>0, Zenon DEF Record
      <4> QED BY <4>1, Zenon
    <3>4. h = Sha256(Record)
      BY <2>2, Zenon
    <3>2. h.sha256 # Sha256(bytes).sha256
      BY <3>4, <3>1 DEF Sha256
    <3> QED BY <2>2, <3>2 DEF TermsDiffer, TermsPresent
  <2>4. ASSUME NEW k \in Kernels, NEW d \in Checks PROVE Holds(k, d, env, bytes) <=> d # "bytes"
    <3>1. /\ h \notin {Absent, NotAString}
          /\ env = Signed("ario.agent/v1", Absent, h, "adversarial")
      BY <1>0, <2>2, Zenon
    <3>2. /\ Holds(k, "text", env, bytes) /\ Holds(k, "depth", env, bytes)
          /\ Holds(k, "spec", env, bytes) /\ Holds(k, "payload_hash", env, bytes)
          /\ Holds(k, "inline", env, bytes) /\ ~Holds(k, "bytes", env, bytes)
          /\ Holds(k, "signature", env, bytes)
      BY <1>0, <2>3, <3>1, SignedHolds
    <3> QED BY <3>2 DEF Checks
  <2>5. Isolates("bytes", i)
    BY <2>2, <2>4 DEF Isolates
  <2> QED BY <2>5
<1>4. \E i \in Indexes : Isolates("signature", i)
  <2>1. PICK i \in Indexes : Cases[i] = adversarial_cases[5]
    BY Sampled DEF SampledCases
  <2>2. PICK signed, p, h : /\ signed = Inline("ario.agent/v1")
                            /\ signed = Signed("ario.agent/v1", p, h, "adversarial")
                            /\ p = Record /\ h = Sha256(Record)
    BY SampledEnvelopes
  <2>3. PICK env : /\ env = Cases[i].envelope /\ Cases[i].bytes = Absent
                   /\ env = [signed EXCEPT !.payload = Absent]
    BY <2>1, <2>2, SampledArguments
  <2>4. env.payload = Absent /\ Altered(env, Signed("ario.agent/v1", p, h, "adversarial"))
    BY <2>2, <2>3 DEF Signed, Altered
  <2>5. p # Absent /\ h \notin {Absent, NotAString}
    BY <1>0, <2>2 DEF TermsDiffer, TermsPresent, Record
  <2>6. ASSUME NEW k \in Kernels, NEW d \in Checks
        PROVE  Holds(k, d, env, Absent) <=> d # "signature"
    <3>1. env.payload \notin {p, Uncanonical}
      BY <1>0, <2>4, <2>5
    <3>2. /\ Holds(k, "text", env, Absent) /\ Holds(k, "depth", env, Absent)
          /\ Holds(k, "spec", env, Absent) /\ Holds(k, "bytes", env, Absent)
          /\ Holds(k, "payload_hash", env, Absent) <=> h \notin {Absent, NotAString}
          /\ Holds(k, "inline", env, Absent)
               <=> (env.payload # Absent => h = Sha256(env.payload))
          /\ ~Holds(k, "signature", env, Absent)
      BY <2>4, <3>1, AlteredHolds
    <3> QED BY <2>4, <2>5, <3>2 DEF Checks
  <2>7. Isolates("signature", i)
    BY <2>3, <2>6 DEF Isolates
  <2> QED BY <2>7
<1> QED BY <1>1, <1>2, <1>3, <1>4

\* In a fifth the signature fails with the inline payload, but payload_hash_ok
\* tells whether the kernel compares that.
LEMMA InlineTold ==
  ASSUME Cases = AllCases, TermsDiffer
  PROVE  \E i \in Indexes : \A k \in Kernels :
           VerdictOn(k, i).phk = "true" <=> "inline" \in lacks[k]
<1>1. PICK i \in Indexes : Cases[i] = adversarial_cases[10]
  BY Sampled DEF SampledCases
<1>2. PICK signed, p, h : /\ signed = Inline("ario.agent/v1")
                          /\ signed = Signed("ario.agent/v1", p, h, "adversarial")
                          /\ p = Record /\ h = Sha256(Record)
  BY SampledEnvelopes
<1>3. PICK env, q : /\ env = Cases[i].envelope /\ Cases[i].bytes = Absent
                    /\ env = [signed EXCEPT !.payload = q] /\ q = Named("tampered")
  BY <1>1, <1>2, SampledArguments
<1>4. env.payload = q /\ Altered(env, Signed("ario.agent/v1", p, h, "adversarial"))
  BY <1>2, <1>3 DEF Signed, Altered
<1>5. h \notin {Absent, NotAString}
  BY <1>2 DEF TermsDiffer, TermsPresent
<1>6. q # p /\ h # Sha256(q) /\ q \notin {Absent, Uncanonical}
  <2>1. \A id : Named(id).id = id
    BY DEF Named
  <2>2. q.id = "tampered" /\ p.id = "external record"
    BY <1>2, <1>3, <2>1, Zenon DEF Record
  <2>3. q.id # p.id
    BY <2>2, Zenon
  <2>4. h = Sha256(p)
    BY <1>2, Zenon
  <2>5. q # p
    BY <2>3
  <2>6. h.sha256 # Sha256(q).sha256
    BY <2>4, <2>5 DEF Sha256
  <2>7. q \notin {Absent, Uncanonical}
    BY <1>3 DEF TermsDiffer, TermsPresent
  <2> QED BY <2>5, <2>6, <2>7
<1>7. ASSUME NEW k \in Kernels PROVE VerdictOn(k, i).phk = "true" <=> "inline" \in lacks[k]
  <2> DEFINE passed == Passed(k, lacks[k], env, Absent)
  <2>1. env.payload \notin {p, Uncanonical}
    BY <1>4, <1>6
  <2>2. /\ Holds(k, "depth", env, Absent) /\ Holds(k, "bytes", env, Absent)
        /\ Holds(k, "payload_hash", env, Absent) /\ ~Holds(k, "inline", env, Absent)
    BY <1>4, <1>5, <1>6, <2>1, AlteredHolds
  <2>3. {"depth", "bytes", "payload_hash"} \subseteq passed
        /\ ("inline" \in passed <=> "inline" \in lacks[k])
    BY <2>2 DEF Passed, Checks
  <2>4. VerdictOn(k, i).phk = Binding(passed, env, Absent)
    BY <1>3 DEF VerdictOn, Verdict
  <2> HIDE DEF passed
  <2>5. env.payload # Absent
    BY <1>4, <1>6
  <2> QED BY <2>3, <2>4, <2>5 DEF Binding
<1> QED BY <1>1, <1>7

(***************************************************************************)
(* A run of run.sh that ends well, whatever the three kernels lack: py and *)
(* ts make the same checks and go makes them too, but for those no case    *)
(* turns on, and nobody lacks the spec_version and the payload_hash check. *)
(***************************************************************************)
THEOREM GateTellsChecksApart ==
  ASSUME Cases = AllCases, TermsDiffer
  PROVE  Spec => []GateSeparates
<1>1. TypeOK /\ AgreedOnCases => GateSeparates
  <2> SUFFICES ASSUME TypeOK, AgreedOnCases, Passes
               PROVE  /\ \A k \in Kernels : lacks[k] \ NotSampled(k) = lacks["py"] \ NotSampled(k)
                      /\ \A k \in Kernels : lacks[k] \cap {"spec", "payload_hash"} = {}
    BY DEF GateSeparates
  <2>1. \A k \in Kernels : lacks[k] \subseteq Checks
    BY DEF TypeOK
  <2>2. \A c \in Checks, i \in Indexes : Isolates(c, i) =>
          /\ \A k \in Kernels : c \in lacks[k] <=> c \in lacks["py"]
          /\ Cases[i].negative => c \notin lacks["py"]
    <3> SUFFICES ASSUME NEW c \in Checks, NEW i \in Indexes, Isolates(c, i)
                 PROVE  /\ \A k \in Kernels : c \in lacks[k] <=> c \in lacks["py"]
                        /\ Cases[i].negative => c \notin lacks["py"]
      OBVIOUS
    <3> QED BY IsolatedAgree
  <2>3. \A k \in Kernels : /\ "spec" \notin lacks[k] /\ "payload_hash" \notin lacks[k]
                           /\ "bytes" \in lacks[k] <=> "bytes" \in lacks["py"]
                           /\ "signature" \in lacks[k] <=> "signature" \in lacks["py"]
    BY <2>2, FourIsolated DEF Checks
  <2>4. "inline" \in lacks["ts"] <=> "inline" \in lacks["py"]
    <3>1. PICK i \in Indexes : \A k \in Kernels :
            VerdictOn(k, i).phk = "true" <=> "inline" \in lacks[k]
      BY InlineTold
    <3>2. VerdictOn("ts", i) = VerdictOn("py", i)
      BY DEF AgreedOnCases
    <3> QED BY <3>1, <3>2 DEF Kernels
  <2>5. ASSUME NEW k \in Kernels
        PROVE  lacks[k] \ NotSampled(k) = lacks["py"] \ NotSampled(k)
    <3>1. ASSUME NEW c \in Checks \ NotSampled(k) PROVE c \in lacks[k] <=> c \in lacks["py"]
      BY <2>3, <2>4 DEF NotSampled, Checks, Kernels
    <3>2. "py" \in Kernels
      BY DEF Kernels
    <3> QED BY <2>1, <3>1, <3>2
  <2> QED BY <2>3, <2>5
<1> QED BY <1>1, TypeCorrect, PassMeansAgreement, PTL


-----------------------------------------------------------------------------
(* Every case of generate_cases.py has the verdict its author wrote it for. *)

\* The marks for what is not there or cannot be read are no names, and the
\* records of the corpus are records.
CorpusTermsDiffer ==
  /\ TermsDiffer
  /\ Absent # "ario.agent/v10" /\ \A i \in 1 .. 3 : Absent # MalformedMinors[i]
  /\ \A i \in 1 .. 6 : LoneSurrogate # EventTypes[i]
  /\ LoneSurrogate \notin {"event 1", "event 2", "checkpoint", "window 1", "window 2"}
  /\ \A id, contents, previous : EventRecord(id, contents, previous) # Absent
  /\ \A id, tree, previous : CheckpointRecord(id, tree, previous) # Absent

\* Python gives the case the verdict it was written for, and nothing in it is
\* read differently by the other kernels.
AsWritten(c) ==
  /\ c.envelope.spec_version \notin {Absent, "ario.mlflow/v1"}
  /\ CanonicalEnvelope(c.envelope)
  /\ Expected(Verdict("py", {}, c.envelope, c.bytes)) = c.expect
  /\ c.negative => c.expect = "rejected"

AllAsWritten(s) == IsFiniteSeq(s) /\ \A i \in 1 .. Len(s) : AsWritten(s[i])

\* Lists of such cases, one after the other, are such a list.
LEMMA JoinedAsWritten ==
  ASSUME NEW s, NEW t, AllAsWritten(s), AllAsWritten(t)
  PROVE  AllAsWritten(s \o t)
<1>1. IsFiniteSeq(s) /\ IsFiniteSeq(t) /\ Len(s) \in Nat /\ Len(t) \in Nat
  BY DEF AllAsWritten, IsFiniteSeq
<1>2. PICK u : u = s \o t
  OBVIOUS
<1>3. IsFiniteSeq(u) /\ Joins(u, s, t)
  BY ONLY <1>1, <1>2, Concatenated
<1>4. ASSUME NEW i \in 1 .. Len(u) PROVE AsWritten(u[i])
  <2>1. Len(u) = Len(s) + Len(t)
    BY <1>3 DEF Joins
  <2>2. CASE i \in 1 .. Len(s)
    BY <1>3, <2>2 DEF Joins, AllAsWritten
  <2>3. CASE i \notin 1 .. Len(s)
    <3>1. PICK j \in 1 .. Len(t) : i = Len(s) + j
      <4>1. i - Len(s) \in 1 .. Len(t) /\ i = Len(s) + (i - Len(s))
        BY <1>1, <2>1, <2>3
      <4> QED BY <4>1
    <3> QED BY <1>3, <3>1 DEF Joins, AllAsWritten
  <2> QED BY <2>2, <2>3
<1> QED BY <1>2, <1>3, <1>4 DEF AllAsWritten

\* What a kernel is to accept: a shared profile, a hash that commits to the
\* inline payload if there is one, a signature over the envelope as it stands.
WellSigned(env) ==
  /\ env.spec_version \in {"ario.agent/v1", "ario.events/v1"}
  /\ env.body # LoneSurrogate
  /\ CanonicalEnvelope(env)
  /\ env.payload_hash \notin {Absent, NotAString}
  /\ env.payload # Absent => env.payload_hash = Sha256(env.payload)
  /\ env.signature = SignatureBy(env.public_key, SignedScope(env))

Binds(env, bytes) == bytes # Absent => env.payload_hash = Sha256(bytes)

\* Python accepts those and nothing else.
LEMMA AcceptedIsWellSigned ==
  ASSUME TermsPresent, NEW env, NEW bytes,
         env.spec_version \notin {Absent, "ario.mlflow/v1"}, CanonicalEnvelope(env)
  PROVE  /\ Verdict("py", {}, env, bytes).ok <=> WellSigned(env) /\ Binds(env, bytes)
         /\ WellSigned(env) => (Verdict("py", {}, env, bytes).phk = "none"
                                  <=> env.payload = Absent /\ bytes = Absent)
<1> DEFINE passed == Passed("py", {}, env, bytes)
<1>1. /\ "depth" \in passed
      /\ "text" \in passed <=> env.body # LoneSurrogate
      /\ "spec" \in passed <=> env.spec_version \in {"ario.agent/v1", "ario.events/v1"}
      /\ "payload_hash" \in passed <=> env.payload_hash \notin {Absent, NotAString}
      /\ "inline" \in passed <=> (env.payload # Absent => env.payload_hash = Sha256(env.payload))
      /\ "bytes" \in passed <=> Binds(env, bytes)
      /\ "signature" \in passed <=>
           env.signature = SignatureBy(env.public_key, SignedScope(env))
  <2>1. "py" \in Kernels
    BY DEF Kernels
  <2>2. ScopeOf("py", env) = SignedScope(env)
    BY <2>1, SameScope
  <2>3. env.signature = SignatureBy(env.public_key, SignedScope(env)) => env.signature # Absent
    BY DEF TermsPresent
  <2>4. SpecOk("py", env) <=> env.spec_version \in {"ario.agent/v1", "ario.events/v1"}
    BY DEF SpecOk, spec_version_ok, spec_version_supported, ACCEPTED_SPEC_VERSIONS
  <2> QED BY <2>2, <2>3, <2>4 DEF Passed, Checks, Holds, TextOk, DepthOk, Binds
<1>2. /\ Verdict("py", {}, env, bytes).ok <=>
           /\ {"spec", "text", "depth", "signature"} \subseteq passed
           /\ Binding(passed, env, bytes) # "false"
      /\ Verdict("py", {}, env, bytes).phk = Binding(passed, env, bytes)
  BY DEF Verdict
<1> HIDE DEF passed
<1>3. Binding(passed, env, bytes) # "false" <=>
        {"payload_hash", "inline", "bytes"} \subseteq passed
  BY <1>1 DEF Binding, Binds
<1>4. "payload_hash" \in passed => (Binding(passed, env, bytes) = "none"
                                     <=> env.payload = Absent /\ bytes = Absent)
  BY DEF Binding
<1> QED BY <1>1, <1>2, <1>3, <1>4 DEF WellSigned

\* So a case is written right if it says "rejected" of the others and tells
\* what has been bound of these.
LEMMA WrittenRight ==
  ASSUME TermsPresent, NEW c,
         c.envelope.spec_version \notin {Absent, "ario.mlflow/v1"},
         CanonicalEnvelope(c.envelope),
         c.negative => c.expect = "rejected",
         c.expect \in {"bound", "undetermined", "rejected"},
         c.expect # "rejected" <=> WellSigned(c.envelope) /\ Binds(c.envelope, c.bytes),
         c.expect # "rejected" =>
           (c.expect = "undetermined" <=> c.envelope.payload = Absent /\ c.bytes = Absent)
  PROVE  AsWritten(c)
<1>1. PICK v : v = Verdict("py", {}, c.envelope, c.bytes)
  OBVIOUS
<1>2. /\ v.ok <=> WellSigned(c.envelope) /\ Binds(c.envelope, c.bytes)
      /\ WellSigned(c.envelope) =>
           (v.phk = "none" <=> c.envelope.payload = Absent /\ c.bytes = Absent)
  BY <1>1, AcceptedIsWellSigned
<1>3. v.ok \in BOOLEAN
  BY <1>1 DEF Verdict
<1>4. Expected(v) = c.expect
  BY <1>2, <1>3 DEF Expected
<1> QED BY <1>1, <1>4 DEF AsWritten

\* The signed envelopes of the corpus, field by field.
LEMMA SignedFields ==
  ASSUME NEW v, NEW p, NEW h, NEW b, NEW env, env = Signed(v, p, h, b)
  PROVE  /\ env.spec_version = v /\ env.payload = p /\ env.payload_hash = h /\ env.body = b
         /\ env.public_key = FIXED_SEED
         /\ env.signature = SignatureBy(env.public_key, SignedScope(env))
BY DEF Signed, SignedScope

\* A case with one of them, the bytes it commits to, and the verdict for that.
LEMMA GoodCase ==
  ASSUME TermsPresent, NEW v \in {"ario.agent/v1", "ario.events/v1"},
         NEW p, p # Uncanonical, NEW h, h \notin {Absent, NotAString},
         p # Absent => h = Sha256(p),
         NEW b, b # LoneSurrogate, NEW bytes, bytes # Absent => h = Sha256(bytes),
         NEW expect, expect = IF p = Absent /\ bytes = Absent THEN "undetermined" ELSE "bound",
         NEW c, c = Case(Signed(v, p, h, b), bytes, expect)
  PROVE  AsWritten(c)
<1>1. PICK env : env = Signed(v, p, h, b)
  OBVIOUS
<1>2. c.envelope = env /\ c.bytes = bytes /\ c.expect = expect /\ ~c.negative
  BY <1>1 DEF Case
<1>3. /\ env.spec_version = v /\ env.payload = p /\ env.payload_hash = h /\ env.body = b
      /\ env.signature = SignatureBy(env.public_key, SignedScope(env))
  BY <1>1, SignedFields
<1>4. v \notin {Absent, "ario.mlflow/v1"}
  BY DEF TermsPresent, ACCEPTED_SPEC_VERSIONS
<1>5. WellSigned(env) /\ Binds(env, bytes) /\ CanonicalEnvelope(env)
  BY <1>3 DEF WellSigned, Binds, CanonicalEnvelope
<1> QED BY <1>2, <1>3, <1>4, <1>5, WrittenRight

\* A case that is to be rejected, and why it is.
LEMMA RejectedCase ==
  ASSUME TermsPresent, NEW c, c.expect = "rejected",
         c.envelope.spec_version \notin {Absent, "ario.mlflow/v1"},
         CanonicalEnvelope(c.envelope),
         ~WellSigned(c.envelope) \/ ~Binds(c.envelope, c.bytes)
  PROVE  AsWritten(c)
BY WrittenRight

-----------------------------------------------------------------------------
\* The envelopes around an agent's payload: reassembled from the published
\* parts they are what was signed.
LEMMA InlineAsWritten ==
  ASSUME CorpusTermsDiffer
  PROVE  AllAsWritten(InlineCases(ENVELOPE_VECTORS))
<1> DEFINE inline == InlineCases(ENVELOPE_VECTORS)
<1>1. DOMAIN ENVELOPE_VECTORS = 1 .. 6
  BY DEF ENVELOPE_VECTORS, EventTypes
<1>2. ASSUME NEW i \in 1 .. 6 PROVE AsWritten(inline[i])
  <2>1. PICK b, p, h : b = EventTypes[i] /\ p = Named(EventTypes[i]) /\ h = Sha256(p)
    OBVIOUS
  <2>2. PICK bare : bare = Bare("ario.agent/v1", b)
    OBVIOUS
  <2>3. bare = Unsigned("ario.agent/v1", Absent, Absent, Absent, b)
    BY <2>2 DEF Bare, Unsigned
  <2>4. PICK pre : pre = [bare EXCEPT !.payload = p]
    OBVIOUS
  <2>5. ENVELOPE_VECTORS[i] = pre
    <3>1. i \in DOMAIN EventTypes
      BY DEF EventTypes
    <3> QED BY <2>1, <2>2, <2>4, <3>1 DEF ENVELOPE_VECTORS
  <2>6. pre = Unsigned("ario.agent/v1", p, Absent, Absent, b)
    BY <2>3, <2>4 DEF Unsigned
  <2>7. PICK hashed : hashed = [pre EXCEPT !.payload_hash = h]
    OBVIOUS
  <2>8. hashed = Unsigned("ario.agent/v1", p, h, Absent, b)
    BY <2>6, <2>7 DEF Unsigned
  <2>9. PICK keyed : keyed = [pre EXCEPT !.payload_hash = h, !.public_key = FIXED_SEED]
    OBVIOUS
  <2>10. keyed = Unsigned("ario.agent/v1", p, h, FIXED_SEED, b)
    <3>1. keyed = [hashed EXCEPT !.public_key = FIXED_SEED]
      BY <2>6, <2>7, <2>9 DEF Unsigned
    <3> QED BY <2>8, <3>1 DEF Unsigned
  <2>11. PICK env : env = Signed("ario.agent/v1", p, h, b)
    OBVIOUS
  <2>12. Complete(pre, h) = env
    BY <2>9, <2>10, <2>11, Signs DEF Complete
  <2>13. /\ env.payload_hash = h /\ env.public_key = FIXED_SEED
         /\ env = [keyed EXCEPT !.signature = env.signature]
    BY <2>10, <2>11 DEF Signed, Unsigned
  <2>14. pre.payload = p
    BY <2>6 DEF Unsigned
  <2>15. PICK parts : parts = sign_envelope_vector(pre)
    OBVIOUS
  <2>16. /\ parts.inputs = pre /\ parts.public_key = FIXED_SEED
         /\ parts.expected_outputs.payload_hash = h
         /\ parts.expected_outputs.signature = env.signature
    BY <2>1, <2>12, <2>13, <2>14, <2>15 DEF sign_envelope_vector
  <2>17. PICK g : g = env.signature
    OBVIOUS
  <2>18. [pre EXCEPT !.payload_hash = h, !.public_key = FIXED_SEED, !.signature = g]
         = [keyed EXCEPT !.signature = g]
    BY <2>6, <2>9 DEF Unsigned
  <2>19. Reassembled(parts) = env
    BY <2>13, <2>16, <2>17, <2>18 DEF Reassembled
  <2>20. inline[i] = Case(env, Absent, "bound")
    BY <1>1, <2>5, <2>15, <2>19 DEF InlineCases
  <2>21. /\ TermsPresent /\ p \notin {Absent, Uncanonical} /\ h \notin {Absent, NotAString}
         /\ b # LoneSurrogate
    BY <2>1 DEF CorpusTermsDiffer, TermsDiffer, TermsPresent
  <2>22. PICK expect : expect = "bound"
    OBVIOUS
  <2>23. expect = IF p = Absent /\ Absent = Absent THEN "undetermined" ELSE "bound"
    BY <2>21, <2>22
  <2> QED BY <2>1, <2>11, <2>20, <2>21, <2>22, <2>23, GoodCase
<1>3. inline = [i \in 1 .. 6 |-> inline[i]]
  BY <1>1 DEF InlineCases
<1> HIDE DEF inline
<1>4. IsFiniteSeq(inline) /\ Len(inline) = 6
  BY <1>3, ListedSeq
<1> QED BY <1>2, <1>4 DEF AllAsWritten, inline

\* The envelopes of the events profile, each with the record it commits to.
LEMMA EventVectorAsWritten ==
  ASSUME TermsDiffer, NEW id, id # LoneSurrogate, NEW record, record # Absent,
         NEW vector, vector = EventsVector(id, record)
  PROVE  AsWritten(Case(vector.envelope, vector.event_record, "bound"))
<1>1. PICK h : h = Sha256(record)
  OBVIOUS
<1>2. /\ vector.envelope = Signed("ario.events/v1", Absent, h, id)
      /\ vector.event_record = record
  BY <1>1, CompletedBare DEF EventsVector, sign_events_envelope_vector
<1>3. TermsPresent /\ Absent # Uncanonical /\ h \notin {Absent, NotAString}
  BY <1>1 DEF TermsDiffer, TermsPresent
<1>4. PICK expect : expect = "bound"
  OBVIOUS
<1>5. expect = IF Absent = Absent /\ record = Absent THEN "undetermined" ELSE "bound"
  BY <1>4
<1> QED BY <1>1, <1>2, <1>3, <1>4, <1>5, GoodCase

\* The cases of the events vectors, single and in windows of checkpoints.
LEMMA ExternalAsWritten ==
  ASSUME CorpusTermsDiffer
  PROVE  AllAsWritten(ExternalCases(events_vectors \o events_checkpoint_chain_vector))
<1> DEFINE vectors == events_vectors \o events_checkpoint_chain_vector
           external == ExternalCases(vectors)
           IsVector(v) == \E id, record : /\ id # LoneSurrogate /\ record # Absent
                                          /\ v = EventsVector(id, record)
<1>1. TermsDiffer
  BY DEF CorpusTermsDiffer
<1>2. IsFiniteSeq(events_vectors) /\ Len(events_vectors) = 3
      /\ \A i \in 1 .. 3 : IsVector(events_vectors[i])
  <2>1. PICK a, b, c : /\ events_vectors = <<a, b, c>>
                       /\ IsVector(a) /\ IsVector(b) /\ IsVector(c)
    <3>1. PICK a, b, c :
            /\ events_vectors = <<a, b, c>>
            /\ a = EventsVector("event 1", EventRecord("event 1", "hello world", Genesis))
            /\ b = EventsVector("event 2", EventRecord("event 2", "hello again", a.payload_hash))
            /\ c = _checkpoint_over("checkpoint", <<"leaf-0", "leaf-1", "leaf-2">>, Genesis)
      BY Zenon DEF events_vectors
    <3>2. LoneSurrogate # "event 1" /\ LoneSurrogate # "event 2" /\ LoneSurrogate # "checkpoint"
      BY Zenon DEF CorpusTermsDiffer
    <3>3. IsVector(a) /\ IsVector(b)
      BY <3>1, <3>2, Zenon DEF CorpusTermsDiffer
    <3>4. IsVector(c)
      BY <3>1, <3>2, Zenon DEF CorpusTermsDiffer, _checkpoint_over
    <3>5. events_vectors = <<a, b, c>>
      BY <3>1, Zenon
    <3> HIDE DEF IsVector
    <3> QED BY ONLY <3>3, <3>4, <3>5
  <2>2. /\ <<a, b, c>> = [i \in 1 .. 3 |-> <<a, b, c>>[i]]
        /\ \A i \in 1 .. 3 : <<a, b, c>>[i] \in {a, b, c}
    OBVIOUS
  <2> HIDE DEF IsVector
  <2> QED BY <2>1, <2>2, ListedSeq
<1>3. IsFiniteSeq(events_checkpoint_chain_vector) /\ Len(events_checkpoint_chain_vector) = 2
      /\ \A i \in 1 .. 2 : IsVector(events_checkpoint_chain_vector[i])
  <2>1. PICK a, b : /\ events_checkpoint_chain_vector = <<a, b>> /\ IsVector(a) /\ IsVector(b)
    <3>1. PICK a, b : /\ events_checkpoint_chain_vector = <<a, b>>
            /\ a = _checkpoint_over("window 1", <<"w1-leaf-0", "w1-leaf-1">>, Genesis)
            /\ b = _checkpoint_over("window 2", <<"w2-leaf-0", "w2-leaf-1", "w2-leaf-2">>,
                                    a.payload_hash)
      BY Zenon DEF events_checkpoint_chain_vector
    <3>2. LoneSurrogate # "window 1" /\ LoneSurrogate # "window 2"
      BY Zenon DEF CorpusTermsDiffer
    <3>3. IsVector(a) /\ IsVector(b)
      BY <3>1, <3>2, Zenon DEF CorpusTermsDiffer, _checkpoint_over
    <3>4. events_checkpoint_chain_vector = <<a, b>>
      BY <3>1, Zenon
    <3> HIDE DEF IsVector
    <3> QED BY ONLY <3>3, <3>4
  <2>2. /\ <<a, b>> = [i \in 1 .. 2 |-> <<a, b>>[i]]
        /\ \A i \in 1 .. 2 : <<a, b>>[i] \in {a, b}
    OBVIOUS
  <2> HIDE DEF IsVector
  <2> QED BY <2>1, <2>2, ListedSeq
<1> HIDE DEF IsVector
<1>4. IsFiniteSeq(vectors) /\ Joins(vectors, events_vectors, events_checkpoint_chain_vector)
  <2>1. IsFiniteSeq(events_vectors) /\ IsFiniteSeq(events_checkpoint_chain_vector)
    BY <1>2, <1>3
  <2> QED BY ONLY <2>1, Concatenated DEF vectors
<1> HIDE DEF vectors
<1>5. Len(vectors) = 5 /\ DOMAIN vectors = 1 .. 5
  BY <1>2, <1>3, <1>4 DEF Joins, IsFiniteSeq
<1>6. ASSUME NEW i \in 1 .. 5 PROVE IsVector(vectors[i])
  <2>1. CASE i \in 1 .. 3
    BY <1>2, <1>4, <2>1 DEF Joins
  <2>2. CASE i \in 4 .. 5
    <3>1. PICK j \in 1 .. 2 : i = 3 + j
      <4>1. i - 3 \in 1 .. 2 /\ i = 3 + (i - 3)
        BY <2>2
      <4> QED BY <4>1
    <3>2. vectors[3 + j] = events_checkpoint_chain_vector[j]
      BY <1>2, <1>3, <1>4 DEF Joins
    <3> QED BY <1>3, <3>1, <3>2
  <2> QED BY <2>1, <2>2
<1>7. ASSUME NEW i \in 1 .. 5 PROVE AsWritten(external[i])
  <2>1. PICK id, record : /\ id # LoneSurrogate /\ record # Absent
                          /\ vectors[i] = EventsVector(id, record)
    BY <1>6 DEF IsVector
  <2>2. external[i] = Case(vectors[i].envelope, vectors[i].event_record, "bound")
    BY <1>5 DEF ExternalCases
  <2> QED BY <1>1, <2>1, <2>2, EventVectorAsWritten
<1>8. external = [i \in 1 .. 5 |-> external[i]]
  BY <1>5 DEF ExternalCases
<1> HIDE DEF external
<1>9. IsFiniteSeq(external) /\ Len(external) = 5
  BY <1>8, ListedSeq
<1> QED BY <1>7, <1>9 DEF AllAsWritten, external, vectors

\* The case with an altered payload: the signature no longer matches.
LEMMA AlteredCase ==
  ASSUME CorpusTermsDiffer, NEW p, NEW h, NEW signed,
         signed = Signed("ario.agent/v1", p, h, "adversarial"),
         NEW q, q \notin {p, Uncanonical},
         NEW c, c = Case([signed EXCEPT !.payload = q], Absent, "rejected")
  PROVE  AsWritten(c)
<1>1. PICK env : env = [signed EXCEPT !.payload = q]
  OBVIOUS
<1>2. c.envelope = env /\ c.bytes = Absent /\ c.expect = "rejected"
  BY <1>1 DEF Case
<1>3. /\ env.payload = q /\ Altered(env, Signed("ario.agent/v1", p, h, "adversarial"))
      /\ env.spec_version = "ario.agent/v1" /\ env.public_key = FIXED_SEED
      /\ env.signature.message.payload = p
  BY <1>1 DEF Signed, Altered, SignatureBy
<1>4. ~WellSigned(env)
  <2>1. SignatureBy(env.public_key, SignedScope(env)).message.payload = q
    BY <1>3 DEF SignatureBy, SignedScope
  <2> QED BY <1>3, <2>1 DEF WellSigned
<1>5. TermsPresent /\ "ario.agent/v1" \notin {Absent, "ario.mlflow/v1"}
  BY DEF CorpusTermsDiffer, TermsDiffer, TermsPresent, ACCEPTED_SPEC_VERSIONS
<1>6. CanonicalEnvelope(env)
  BY <1>3 DEF CanonicalEnvelope
<1> QED BY <1>2, <1>3, <1>4, <1>5, <1>6, RejectedCase

\* A signed envelope that says something no kernel accepts.
LEMMA MisstatedCase ==
  ASSUME CorpusTermsDiffer, NEW v, v \notin {Absent, "ario.mlflow/v1"},
         NEW p, p # Uncanonical, NEW h, NEW b, NEW bytes,
         \/ v \notin {"ario.agent/v1", "ario.events/v1"}
         \/ h = Absent
         \/ bytes # Absent /\ h # Sha256(bytes),
         NEW c, c.envelope = Signed(v, p, h, b), c.bytes = bytes, c.expect = "rejected"
  PROVE  AsWritten(c)
<1>1. PICK env : env = c.envelope
  OBVIOUS
<1>2. env.spec_version = v /\ env.payload = p /\ env.payload_hash = h
  BY <1>1 DEF Signed
<1>3. TermsPresent /\ CanonicalEnvelope(env)
  BY <1>2 DEF CorpusTermsDiffer, TermsDiffer, CanonicalEnvelope
<1>4. ~WellSigned(env) \/ ~Binds(env, bytes)
  BY <1>2 DEF WellSigned, Binds
<1> QED BY <1>1, <1>2, <1>3, <1>4, RejectedCase

\* The ten adversarial cases that are written one by one.
LEMMA TenAsWritten ==
  ASSUME CorpusTermsDiffer, NEW inline, inline = Inline("ario.agent/v1"),
         NEW unhashed, unhashed = sign(base("ario.agent/v1")),
         NEW forged, forged = Named("forged"), NEW tampered, tampered = Named("tampered"),
         NEW other, other = Named("not the record"), NEW some, some = Named("some bytes")
  PROVE  /\ AsWritten(Case(inline, Absent, "bound"))
         /\ AsWritten(Case(External, Absent, "undetermined"))
         /\ AsWritten(Case(External, Record, "bound"))
         /\ AsWritten(Case(External, other, "rejected"))
         /\ AsWritten(Case([inline EXCEPT !.payload = Absent], Absent, "rejected"))
         /\ AsWritten(Case([External EXCEPT !.payload = forged], Absent, "rejected"))
         /\ AsWritten(Case(unhashed, Absent, "rejected"))
         /\ AsWritten(Case(unhashed, some, "rejected"))
         /\ AsWritten(Case([inline EXCEPT !.payload = tampered], Absent, "rejected"))
<1>1. PICK p, h : p = Record /\ h = Sha256(p)
  OBVIOUS
<1>2. /\ inline = Signed("ario.agent/v1", p, h, "adversarial")
      /\ External = Signed("ario.agent/v1", Absent, h, "adversarial")
      /\ unhashed = Signed("ario.agent/v1", Absent, Absent, "adversarial")
  BY <1>1, BuiltEnvelopes, SampledEnvelopes, Zenon
<1>3. /\ TermsPresent /\ Absent # Uncanonical /\ "adversarial" # LoneSurrogate
      /\ "ario.agent/v1" \notin {Absent, "ario.mlflow/v1"}
      /\ h \notin {Absent, NotAString} /\ \A id : Named(id) \notin {Absent, Uncanonical}
  BY <1>1 DEF CorpusTermsDiffer, TermsDiffer, TermsPresent, ACCEPTED_SPEC_VERSIONS
<1>4. /\ {p, forged, tampered, other, some} \cap {Absent, Uncanonical} = {}
  <2>1. p \notin {Absent, Uncanonical}
    BY <1>1, <1>3 DEF Record
  <2>2. \A q \in {forged, tampered, other, some} : \E id : q = Named(id)
    OBVIOUS
  <2> QED BY <1>3, <2>1, <2>2
<1>5. tampered # p /\ other # p
  <2>1. \A id : Named(id).id = id
    BY DEF Named
  <2>2. p.id = "external record" /\ tampered.id = "tampered" /\ other.id = "not the record"
    BY <1>1, <2>1, Zenon DEF Record
  <2>3. tampered.id # p.id /\ other.id # p.id
    BY <2>2, Zenon
  <2> QED BY <2>3
<1>6. h # Sha256(other)
  <2>1. h.sha256 = p /\ Sha256(other).sha256 = other
    BY <1>1 DEF Sha256
  <2> QED BY <1>5, <2>1
<1>7. AsWritten(Case(inline, Absent, "bound"))
  <2>1. PICK expect : expect = "bound"
    OBVIOUS
  <2>2. expect = IF p = Absent /\ Absent = Absent THEN "undetermined" ELSE "bound"
    BY <1>4, <2>1
  <2> QED BY ONLY <1>1, <1>2, <1>3, <1>4, <2>1, <2>2, GoodCase
<1>8. AsWritten(Case(External, Absent, "undetermined"))
  <2>1. PICK expect : expect = "undetermined"
    OBVIOUS
  <2>2. expect = IF Absent = Absent /\ Absent = Absent THEN "undetermined" ELSE "bound"
    BY <2>1
  <2> QED BY ONLY <1>2, <1>3, <2>1, <2>2, GoodCase
<1>9. AsWritten(Case(External, Record, "bound"))
  <2>1. PICK expect : expect = "bound"
    OBVIOUS
  <2>2. expect = IF Absent = Absent /\ p = Absent THEN "undetermined" ELSE "bound"
    BY <1>4, <2>1
  <2> QED BY ONLY <1>1, <1>2, <1>3, <2>1, <2>2, GoodCase
<1>10. \A env, bytes : /\ Case(env, bytes, "rejected").envelope = env
                       /\ Case(env, bytes, "rejected").bytes = bytes
                       /\ Case(env, bytes, "rejected").expect = "rejected"
  BY DEF Case
<1>11. AsWritten(Case(External, other, "rejected"))
  <2>1. other # Absent
    BY <1>4
  <2>2. PICK c : c = Case(External, other, "rejected")
    OBVIOUS
  <2>3. /\ c.envelope = Signed("ario.agent/v1", Absent, h, "adversarial")
        /\ c.bytes = other /\ c.expect = "rejected"
    BY ONLY <1>2, <1>10, <2>2
  <2>4. AsWritten(c)
    BY ONLY CorpusTermsDiffer, <1>3, <1>6, <2>1, <2>3, MisstatedCase
  <2> QED BY ONLY <2>2, <2>4
<1>12. ASSUME NEW bytes PROVE AsWritten(Case(unhashed, bytes, "rejected"))
  <2>1. PICK c : c = Case(unhashed, bytes, "rejected")
    OBVIOUS
  <2>2. /\ c.envelope = Signed("ario.agent/v1", Absent, Absent, "adversarial")
        /\ c.bytes = bytes /\ c.expect = "rejected"
    BY ONLY <1>2, <1>10, <2>1
  <2>3. AsWritten(c)
    BY ONLY CorpusTermsDiffer, <1>3, <2>2, MisstatedCase
  <2> QED BY ONLY <2>1, <2>3
<1>13. AsWritten(Case([inline EXCEPT !.payload = Absent], Absent, "rejected"))
  <2>1. Absent \notin {p, Uncanonical}
    BY <1>3, <1>4
  <2> QED BY <1>2, <2>1, AlteredCase
<1>14. AsWritten(Case([External EXCEPT !.payload = forged], Absent, "rejected"))
  <2>1. forged \notin {Absent, Uncanonical}
    BY <1>4
  <2> QED BY <1>2, <2>1, AlteredCase
<1>15. AsWritten(Case([inline EXCEPT !.payload = tampered], Absent, "rejected"))
  <2>1. tampered \notin {p, Uncanonical}
    BY <1>4, <1>5
  <2> QED BY <1>2, <2>1, AlteredCase
<1> QED BY <1>7, <1>8, <1>9, <1>11, <1>12, <1>13, <1>14, <1>15

\* The adversarial cases, the malformed minors and the longer numerals after them.
LEMMA AdversarialAsWritten ==
  ASSUME CorpusTermsDiffer
  PROVE  AllAsWritten(adversarial_cases)
<1> DEFINE inline == Inline("ario.agent/v1")
           unhashed == sign(base("ario.agent/v1"))
           badMinors == MalformedMinors \o <<"ario.agent/v10">>
           altered(env, payload) == Case([env EXCEPT !.payload = payload], Absent, "rejected")
           first == <<Case(inline, Absent, "bound"),
                      Case(External, Absent, "undetermined"),
                      Case(External, Record, "bound"),
                      Case(External, Named("not the record"), "rejected"),
                      altered(inline, Absent),
                      altered(External, Named("forged")),
                      Case(unhashed, Absent, "rejected"),
                      Case(unhashed, Named("some bytes"), "rejected"),
                      Case(External, Absent, "undetermined"),
                      altered(inline, Named("tampered"))>>
           second == [i \in DOMAIN badMinors |-> Case(Inline(badMinors[i]), Absent, "rejected")]
           third == [i \in 1 .. 2 |-> Case(Inline("ario.agent/v1"), Absent, "bound")]
<1>1. adversarial_cases = (first \o second) \o third
  BY DEF adversarial_cases
<1>2. PICK forged, tampered, other, some :
        /\ forged = Named("forged") /\ tampered = Named("tampered")
        /\ other = Named("not the record") /\ some = Named("some bytes")
  OBVIOUS
<1>3. /\ AsWritten(Case(inline, Absent, "bound"))
      /\ AsWritten(Case(External, Absent, "undetermined"))
      /\ AsWritten(Case(External, Record, "bound"))
      /\ AsWritten(Case(External, other, "rejected"))
      /\ AsWritten(altered(inline, Absent))
      /\ AsWritten(altered(External, forged))
      /\ AsWritten(Case(unhashed, Absent, "rejected"))
      /\ AsWritten(Case(unhashed, some, "rejected"))
      /\ AsWritten(altered(inline, tampered))
  BY <1>2, TenAsWritten
<1>4. AllAsWritten(first)
  <2> DEFINE Ten(a, b, c, d, e, f, g, h, j) == <<a, b, c, d, e, f, g, h, b, j>>
  <2>1. ASSUME NEW a, NEW b, NEW c, NEW d, NEW e, NEW f, NEW g, NEW h, NEW j,
               AsWritten(a), AsWritten(b), AsWritten(c), AsWritten(d), AsWritten(e),
               AsWritten(f), AsWritten(g), AsWritten(h), AsWritten(j)
        PROVE  AllAsWritten(Ten(a, b, c, d, e, f, g, h, j))
    <3> DEFINE s == Ten(a, b, c, d, e, f, g, h, j)
    <3>1. s = [i \in 1 .. 10 |-> s[i]]
      OBVIOUS
    <3>2. \A i \in 1 .. 10 : s[i] \in {a, b, c, d, e, f, g, h, j}
      OBVIOUS
    <3> HIDE DEF s
    <3>3. IsFiniteSeq(s) /\ Len(s) = 10
      BY ONLY <3>1, ListedSeq
    <3>4. \A i \in 1 .. 10 : AsWritten(s[i])
      BY <2>1, <3>2
    <3> QED BY ONLY <3>3, <3>4 DEF AllAsWritten, s
  <2>2. PICK a, b, c, d, e, f, g, h, j :
          /\ a = Case(inline, Absent, "bound") /\ b = Case(External, Absent, "undetermined")
          /\ c = Case(External, Record, "bound") /\ d = Case(External, other, "rejected")
          /\ e = altered(inline, Absent) /\ f = altered(External, forged)
          /\ g = Case(unhashed, Absent, "rejected") /\ h = Case(unhashed, some, "rejected")
          /\ j = altered(inline, tampered)
    OBVIOUS
  <2>3. first = Ten(a, b, c, d, e, f, g, h, j)
    BY <1>2, <2>2, Zenon
  <2> HIDE DEF inline, unhashed, altered, first, Ten
  <2>4. AllAsWritten(Ten(a, b, c, d, e, f, g, h, j))
    BY ONLY <1>3, <2>1, <2>2
  <2> QED BY <2>3, <2>4, Zenon
<1>5. AllAsWritten(second)
  <2>1. DOMAIN badMinors = 1 .. 4 /\ \A i \in 1 .. 3 : badMinors[i] = MalformedMinors[i]
        /\ badMinors[4] = "ario.agent/v10"
    BY DEF MalformedMinors
  <2> HIDE DEF badMinors
  <2>2. ASSUME NEW i \in 1 .. 4
        PROVE  badMinors[i] \notin {Absent, "ario.mlflow/v1", "ario.agent/v1", "ario.events/v1"}
    <3>1. Absent # "ario.agent/v10" /\ \A j \in 1 .. 3 : Absent # MalformedMinors[j]
      BY Zenon DEF CorpusTermsDiffer
    <3>2. CASE i = 4
      BY <2>1, <3>1, <3>2
    <3>3. CASE i \in 1 .. 3
      BY <2>1, <3>1, <3>3 DEF MalformedMinors
    <3>4. i = 4 \/ i \in 1 .. 3
      BY <2>2
    <3> QED BY <3>2, <3>3, <3>4
  <2>3. second = [i \in 1 .. 4 |-> second[i]]
    BY <2>1
  <2>4. IsFiniteSeq(second) /\ Len(second) = 4
    BY <2>3, ListedSeq
  <2>5. ASSUME NEW i \in 1 .. 4 PROVE AsWritten(second[i])
    <3>1. PICK v, p, h : v = badMinors[i] /\ p = Record /\ h = Sha256(Record)
      OBVIOUS
    <3>2. PICK c : c = Case(Inline(v), Absent, "rejected")
      OBVIOUS
    <3>3. second[i] = c
      BY <2>1, <3>1, <3>2
    <3>4. Inline(v) = Signed(v, p, h, "adversarial")
      BY ONLY <3>1, BuiltEnvelopes
    <3>5. c.envelope = Signed(v, p, h, "adversarial") /\ c.bytes = Absent /\ c.expect = "rejected"
      BY ONLY <3>2, <3>4 DEF Case
    <3>6. p # Uncanonical
      BY <3>1 DEF CorpusTermsDiffer, TermsDiffer, Record
    <3>7. AsWritten(c)
      BY ONLY CorpusTermsDiffer, <2>2, <3>1, <3>5, <3>6, MisstatedCase
    <3> QED BY <3>3, <3>7
  <2> HIDE DEF second
  <2> QED BY <2>4, <2>5 DEF AllAsWritten
<1>6. AllAsWritten(third)
  <2>1. /\ third = [i \in 1 .. 2 |-> third[i]]
        /\ \A i \in 1 .. 2 : third[i] = Case(inline, Absent, "bound")
    OBVIOUS
  <2> HIDE DEF inline, third
  <2>2. IsFiniteSeq(third) /\ Len(third) = 2
    BY <2>1, ListedSeq
  <2> QED BY <1>3, <2>1, <2>2 DEF AllAsWritten
<1> HIDE DEF first, second, third
<1>7. AllAsWritten(first \o second)
  BY ONLY <1>4, <1>5, JoinedAsWritten
<1>8. AllAsWritten((first \o second) \o third)
  BY ONLY <1>6, <1>7, JoinedAsWritten
<1> QED BY <1>1, <1>8

\* The negatives of the corpus: three minors, a surrogate, and no payload_hash.
LEMMA NegativesAsWritten ==
  ASSUME CorpusTermsDiffer
  PROVE  AllAsWritten(negative_cases)
<1>1. TermsDiffer /\ TermsPresent /\ Absent # Uncanonical
      /\ "ario.agent/v1" \notin {Absent, "ario.mlflow/v1"}
  <2>1. TermsDiffer
    BY DEF CorpusTermsDiffer
  <2> QED BY <2>1 DEF TermsDiffer, TermsPresent, ACCEPTED_SPEC_VERSIONS
<1>2. PICK h : h = Sha256(Named("negative record"))
  OBVIOUS
<1>3. ASSUME NEW i \in 1 .. 5
      PROVE  /\ negative_cases[i].envelope = negative_vectors[i]
             /\ negative_cases[i].bytes = Absent
             /\ negative_cases[i].expect = "rejected"
  BY Negatives
<1>4. ASSUME NEW i \in 1 .. 3 PROVE AsWritten(negative_cases[i])
  <2>1. PICK v : v = MalformedMinors[i]
    OBVIOUS
  <2>2. \A j \in 1 .. 3 : Absent # MalformedMinors[j]
    BY Zenon DEF CorpusTermsDiffer
  <2>3. v \notin {Absent, "ario.mlflow/v1", "ario.agent/v1", "ario.events/v1"}
    <3>1. v \in {"ario.agent/v1.x", "ario.agent/v1.3abc", "ario.agent/v1."}
      BY <2>1 DEF MalformedMinors
    <3>2. v # Absent
      BY <2>1, <2>2
    <3> QED BY ONLY <3>1, <3>2
  <2>4. negative_vectors[i] = Complete(Bare(v, "negative"), h)
    BY <1>2, <2>1, Negatives, Zenon
  <2>5. negative_vectors[i] = Signed(v, Absent, h, "negative")
    BY ONLY <2>4, CompletedBare
  <2>6. PICK c : c = negative_cases[i]
    OBVIOUS
  <2>7. c.envelope = Signed(v, Absent, h, "negative") /\ c.bytes = Absent /\ c.expect = "rejected"
    BY <1>3, <2>5, <2>6
  <2>8. AsWritten(c)
    BY ONLY CorpusTermsDiffer, <1>1, <2>3, <2>7, MisstatedCase
  <2> QED BY <2>6, <2>8
<1>5. AsWritten(negative_cases[4])
  <2>1. PICK c : c = negative_cases[4]
    OBVIOUS
  <2>2. /\ c.envelope.spec_version = "ario.agent/v1" /\ c.envelope.payload = Absent
        /\ c.envelope.body = LoneSurrogate /\ c.expect = "rejected"
    <3>1. 4 \in 1 .. 5
      OBVIOUS
    <3>2. /\ negative_vectors[4].spec_version = "ario.agent/v1"
          /\ negative_vectors[4].payload = Absent
          /\ negative_vectors[4].body = LoneSurrogate
      BY Negatives, Zenon
    <3> QED BY <1>3, <2>1, <3>1, <3>2
  <2>3. ~WellSigned(c.envelope) /\ CanonicalEnvelope(c.envelope)
    BY <1>1, <2>2 DEF WellSigned, CanonicalEnvelope
  <2> QED BY <1>1, <2>1, <2>2, <2>3, RejectedCase
<1>6. AsWritten(negative_cases[5])
  <2>1. PICK c : c = negative_cases[5]
    OBVIOUS
  <2>2. /\ c.envelope = Signed("ario.agent/v1", Absent, Absent, "negative")
        /\ c.bytes = Absent /\ c.expect = "rejected"
    <3>1. 5 \in 1 .. 5
      OBVIOUS
    <3>2. negative_vectors[5] = Signed("ario.agent/v1", Absent, Absent, "negative")
      BY SampledEnvelopes, Zenon
    <3> QED BY <1>3, <2>1, <3>1, <3>2
  <2>3. AsWritten(c)
    BY ONLY CorpusTermsDiffer, <1>1, <2>2, MisstatedCase
  <2> QED BY <2>1, <2>3
<1>7. IsFiniteSeq(negative_cases) /\ Len(negative_cases) = 5
  BY Negatives, Zenon
<1>8. ASSUME NEW i \in 1 .. 5 PROVE AsWritten(negative_cases[i])
  <2>1. i \in 1 .. 3 \/ i = 4 \/ i = 5
    OBVIOUS
  <2> QED BY <1>4, <1>5, <1>6, <2>1
<1> QED BY <1>7, <1>8 DEF AllAsWritten

\* All of them.
LEMMA CasesAsWritten ==
  ASSUME Cases = AllCases, CorpusTermsDiffer, NEW i \in Indexes
  PROVE  AsWritten(Cases[i])
<1>1. AllAsWritten(corpus_cases)
  <2>1. /\ AllAsWritten(InlineCases(ENVELOPE_VECTORS))
        /\ AllAsWritten(ExternalCases(events_vectors \o events_checkpoint_chain_vector))
    BY InlineAsWritten, ExternalAsWritten
  <2> QED BY ONLY <2>1, JoinedAsWritten DEF corpus_cases
<1>2. AllAsWritten(adversarial_cases) /\ AllAsWritten(negative_cases)
  BY AdversarialAsWritten, NegativesAsWritten
<1>3. AllAsWritten(corpus_cases \o adversarial_cases)
  BY ONLY <1>1, <1>2, JoinedAsWritten
<1>4. AllAsWritten((corpus_cases \o adversarial_cases) \o negative_cases)
  BY ONLY <1>2, <1>3, JoinedAsWritten
<1>5. AllAsWritten(Cases)
  BY <1>4 DEF AllCases
<1> QED BY <1>5 DEF AllAsWritten, Indexes

(***************************************************************************)
(* With the cases of generate_cases.py the kernels as written fail none of *)
(* the three legs, and cases.json records the verdict every case was       *)
(* written for: bound, undetermined or rejected.                           *)
(***************************************************************************)
THEOREM CorpusVerdictsAreIntended ==
  ASSUME Cases = AllCases, CorpusTermsDiffer
  PROVE  Spec => []RealKernelsAgree
<1>1. ASSUME NEW i \in Indexes
      PROVE  /\ Cases[i].envelope.spec_version \notin {Absent, "ario.mlflow/v1"}
             /\ CanonicalEnvelope(Cases[i].envelope)
             /\ Expected(Verdict("py", {}, Cases[i].envelope, Cases[i].bytes)) = Cases[i].expect
             /\ Cases[i].negative =>
                  ~Verdict("py", {}, Cases[i].envelope, Cases[i].bytes).ok
  <2>1. AsWritten(Cases[i])
    BY CasesAsWritten
  <2> QED BY <2>1 DEF AsWritten, Expected
<1>2. Spec => []((\A k \in Kernels : lacks[k] = {}) =>
                   pc \notin {"python_failed", "ts_failed", "go_failed"})
  BY <1>1, RealKernelsPass
<1>3. /\ IInv
      /\ (\A k \in Kernels : lacks[k] = {}) => pc \notin {"python_failed", "ts_failed", "go_failed"}
      => RealKernelsAgree
  <2> SUFFICES ASSUME IInv, \A k \in Kernels : lacks[k] = {}, NEW i \in DOMAIN recorded
               PROVE  Expected(recorded[i]) = Cases[i].expect
    BY DEF RealKernelsAgree
  <2>1. i \in 1 .. Len(recorded) /\ Len(recorded) <= Len(Cases) /\ Len(recorded) \in Nat
    <3>1. DOMAIN recorded = 1 .. Len(recorded) /\ Len(recorded) \in Nat
      BY DEF IInv
    <3>2. Len(recorded) \in {at, Len(Cases)} /\ at <= Len(Cases) /\ Len(Cases) \in Nat
      BY Counters DEF IInv, TypeOK
    <3> QED BY <3>1, <3>2
  <2>2. i \in Indexes
    BY <2>1, CasesAssumption DEF Indexes
  <2>3. recorded[i] = VerdictOn("py", i)
    BY <2>1 DEF IInv, RecordedOk
  <2>4. recorded[i] = Verdict("py", {}, Cases[i].envelope, Cases[i].bytes)
    BY <2>3 DEF VerdictOn, Kernels
  <2> QED BY <1>1, <2>2, <2>4
<1>4. Spec => []IInv
  BY Initially, StepKeeps, PTL DEF Spec
<1> QED BY <1>2, <1>3, <1>4, PTL
=============================================================================
