---------------------------- MODULE AgreementGate ----------------------------
(***************************************************************************)
(* cross-kernel/run.sh: generate_cases.py records the Python verdict of    *)
(* every case, the TypeScript and the Go leg verify the same cases again,  *)
(* and the script stops at the first leg that disagrees (set -e).  The     *)
(* kernels it runs are the ones of the working tree, so any of them may    *)
(* lack checks: finding that out is what the gate is for.                  *)
(*                                                                         *)
(* A case is a record [envelope, bytes, negative, expect]: the arguments   *)
(* of the call, whether it comes from the negatives of the corpus, and     *)
(* what its author wrote it for ("bound", "undetermined" or "rejected"),   *)
(* which the scripts do not read.                                          *)
(***************************************************************************)
EXTENDS EnvelopeKernels, Integers, Sequences

CONSTANTS
  Cases,         \* the sequence of cases
  Regressions,   \* what the kernels may lack: functions from Kernels
  FieldDrafts    \* envelopes that are signed and verified outside the gate

ASSUME CasesAssumption == Len(Cases) \in Nat /\ DOMAIN Cases = 1 .. Len(Cases)
ASSUME RegressionsAssumption == Regressions \subseteq [Kernels -> SUBSET Checks]

VARIABLES
  lacks,         \* lacks[k]: the checks kernel k does not make; never assigned
  go_installed,  \* whether there is a go toolchain; never assigned
  recorded,      \* cases.json: the Python verdicts, in the order of Cases
  at,            \* number of cases the running leg is through with
  mismatches,    \* ... and of those it counted as mismatches
  pc             \* the leg that runs, "ok", or the leg and "failed"

vars == <<lacks, go_installed, recorded, at, mismatches, pc>>

Init ==
  /\ lacks \in Regressions
  /\ go_installed \in BOOLEAN
  /\ recorded = <<>> /\ at = 0 /\ mismatches = 0
  /\ pc = "python"

VerdictOn(kernel, i) ==
  Verdict(kernel, lacks[kernel], Cases[i].envelope, Cases[i].bytes)

More == at < Len(Cases)

\* Mutant: the verdict on a negative is recorded like any other.
RefusedNegative_NoAssertion == FALSE

\* The assertion of generate_cases.main, which leaves no cases.json.
RefusedNegative == Cases[at + 1].negative /\ VerdictOn("py", at + 1).ok

\* Mutant: a negative is not recorded.
RecordCase_SkipsNegatives ==
  /\ pc = "python" /\ More
  /\ ~RefusedNegative
  /\ recorded' = IF Cases[at + 1].negative THEN recorded
                 ELSE Append(recorded, VerdictOn("py", at + 1))
  /\ at' = at + 1
  /\ UNCHANGED <<lacks, go_installed, mismatches, pc>>

RecordCase ==
  /\ pc = "python" /\ More
  /\ ~RefusedNegative
  /\ recorded' = Append(recorded, VerdictOn("py", at + 1))
  /\ at' = at + 1
  /\ UNCHANGED <<lacks, go_installed, mismatches, pc>>

AssertionFails ==
  /\ pc = "python" /\ More
  /\ RefusedNegative
  /\ pc' = "python_failed"
  /\ UNCHANGED <<lacks, go_installed, recorded, at, mismatches>>

CasesWritten ==
  /\ pc = "python" /\ ~More
  /\ pc' = "ts" /\ at' = 0
  /\ UNCHANGED <<lacks, go_installed, recorded, mismatches>>

\* Mutant: the ts leg compares the verdict only.
TsMatches_VerdictOnly(i) == VerdictOn("ts", i).ok = recorded[i].ok

\* ts_leg.mjs compares the whole record, ...
TsMatches(i) == VerdictOn("ts", i) = recorded[i]

\* ... go-verifier/main.go the verdict: pkg/proof returns nothing else.
GoMatches(i) == VerdictOn("go", i).ok = recorded[i].ok

\* A leg goes through every case before it decides.
Compare(matches) ==
  /\ More
  /\ at' = at + 1
  /\ mismatches' = mismatches + IF matches THEN 0 ELSE 1
  /\ UNCHANGED <<lacks, go_installed, recorded, pc>>

CompareTs == pc = "ts" /\ Compare(TsMatches(at + 1))
CompareGo == pc = "go" /\ Compare(GoMatches(at + 1))

FinishLeg(leg, next, failed) ==
  /\ pc = leg /\ ~More
  /\ pc' = IF mismatches > 0 THEN failed ELSE next
  /\ at' = 0 /\ mismatches' = 0
  /\ UNCHANGED <<lacks, go_installed, recorded>>

\* run_export.sh compares verdicts on exports: here it passes or it does not.
ExportLeg ==
  /\ pc = "export"
  /\ pc' \in {"toolchain", "export_failed"}
  /\ UNCHANGED <<lacks, go_installed, recorded, at, mismatches>>

Toolchain ==
  /\ pc = "toolchain"
  /\ pc' = IF go_installed THEN "go" ELSE "toolchain_failed"
  /\ UNCHANGED <<lacks, go_installed, recorded, at, mismatches>>

Next ==
  \/ RecordCase \/ AssertionFails \/ CasesWritten
  \/ CompareTs \/ FinishLeg("ts", "export", "ts_failed")
  \/ ExportLeg \/ Toolchain
  \/ CompareGo \/ FinishLeg("go", "ok", "go_failed")

Spec == Init /\ [][Next]_vars /\ WF_vars(Next)

-----------------------------------------------------------------------------
Passes == pc = "ok"
Indexes == 1 .. Len(Cases)
Legs == {"python", "ts", "export", "toolchain", "go"}
Failures == {"python_failed", "ts_failed", "export_failed", "toolchain_failed", "go_failed"}

\* recorded grows one verdict per case and is complete before another leg.
TypeOK ==
  /\ lacks \in [Kernels -> SUBSET Checks] /\ go_installed \in BOOLEAN
  /\ at \in 0 .. Len(Cases)
  /\ mismatches \in 0 .. at
  /\ pc \in Legs \cup {"ok"} \cup Failures
  /\ Len(recorded) = IF pc \in {"python", "python_failed"} THEN at ELSE Len(Cases)

(***************************************************************************)
(* A pass means what run.sh says it means: on every case the ts verdict    *)
(* equals the Python one field by field, the go verdict agrees on ok, and  *)
(* Python itself rejects every negative of the corpus.                     *)
(***************************************************************************)
AgreedOnCases ==
  Passes =>
    \A i \in Indexes :
      /\ VerdictOn("ts", i) = VerdictOn("py", i)
      /\ VerdictOn("go", i).ok = VerdictOn("py", i).ok
      /\ Cases[i].negative => ~VerdictOn("py", i).ok

(***************************************************************************)
(* What the cases can tell apart.  After a pass py and ts make the same    *)
(* checks, and go does too, except for the checks no case turns on: of an  *)
(* unpaired surrogate (the negative that has one is badly signed as well), *)
(* of the nesting, and in go of the inline payload (it mismatches only     *)
(* where the signature fails, too).  A check all three lack is noticed     *)
(* only if a negative depends on it.                                       *)
(***************************************************************************)
NotSampled(kernel) ==
  {"text", "depth"} \cup IF kernel = "go" THEN {"inline"} ELSE {}

GateSeparates ==
  Passes =>
    /\ \A k \in Kernels : lacks[k] \ NotSampled(k) = lacks["py"] \ NotSampled(k)
    /\ \A k \in Kernels : lacks[k] \cap {"spec", "payload_hash"} = {}

(***************************************************************************)
(* The kernels as they are never fail the gate, and the Python verdict on  *)
(* every case is the one the case was written for.                         *)
(***************************************************************************)
Expected(v) ==
  CASE ~v.ok -> "rejected" [] v.ok /\ v.phk = "none" -> "undetermined" [] OTHER -> "bound"

RealKernelsAgree ==
  (\A k \in Kernels : lacks[k] = {}) =>
    /\ pc \notin {"python_failed", "ts_failed", "go_failed"}
    /\ \A i \in DOMAIN recorded : Expected(recorded[i]) = Cases[i].expect

(***************************************************************************)
(* cross-kernel/README.md: identical verdicts on identical bytes.  Stated  *)
(* of the envelopes signers produce, and not only of the cases.            *)
(***************************************************************************)
IdenticalVerdicts ==
  Passes =>
    \A draft \in FieldDrafts :
      ~GoSignRaises(draft) =>
        LET env == GoSignEnvelope(draft, "producer")
        IN \A k \in Kernels :
             Verdict(k, lacks[k], env, Absent).ok = Verdict("py", lacks["py"], env, Absent).ok
=============================================================================
