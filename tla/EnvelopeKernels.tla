--------------------------- MODULE EnvelopeKernels ---------------------------
(***************************************************************************)
(* verify_envelope as its three implementations write it: src/ario_proof   *)
(* (py), ts/src/verifier.ts (ts) and the vendored pkg/proof (go).  They    *)
(* make the same checks, listed here one by one, and differ in the scope   *)
(* of the signature, in the profiles they know and in the nesting they     *)
(* canonicalize.  A kernel under maintenance may lack a check it should    *)
(* make: `lacks' is the set of those.                                      *)
(***************************************************************************)
EXTENDS Envelope

CONSTANT LoneSurrogate   \* a body holding a string with an unpaired surrogate

Kernels == {"py", "ts", "go"}
Checks == {"text", "depth", "spec", "payload_hash", "inline", "bytes", "signature"}

\* What ts and go take the signature over: nothing but the two signature
\* fields is left out.
SignedScope(env) ==
  [spec_version |-> env.spec_version, payload |-> env.payload,
   payload_hash |-> env.payload_hash, public_key |-> env.public_key,
   body |-> env.body, notes |-> env.notes]

\* Every kernel refuses to canonicalize an unpaired surrogate.
TextOk(env) == env.body # LoneSurrogate

\* Uncanonical stands for a payload nested too deep: go has no bound.
DepthOk(kernel, env) == kernel = "go" \/ CanonicalEnvelope(env)

\* ACCEPTED_SPEC_MAJORS (ts), SupportedSpecMajor (go): no mlflow, no legacy.
SpecOk(kernel, env) ==
  IF kernel = "py" THEN spec_version_ok(env, FALSE)
  ELSE env.spec_version \in {"ario.agent/v1", "ario.events/v1"}

ScopeOf(kernel, env) ==
  IF kernel = "py" THEN envelope_for_signature(env) ELSE SignedScope(env)

Holds(kernel, check, env, bytes) ==
  CASE check = "text"         -> TextOk(env)
    [] check = "depth"        -> DepthOk(kernel, env)
    [] check = "spec"         -> SpecOk(kernel, env)
    [] check = "payload_hash" -> env.payload_hash \notin {Absent, NotAString}
    [] check = "inline"       -> env.payload # Absent => env.payload_hash = Sha256(env.payload)
    [] check = "bytes"        -> bytes # Absent => env.payload_hash = Sha256(bytes)
    [] check = "signature"    ->
         /\ env.signature # Absent
         /\ env.signature = SignatureBy(env.public_key, ScopeOf(kernel, env))

\* A check is passed when it holds, or when the kernel does not make it.
Passed(kernel, lacks, env, bytes) ==
  {c \in Checks : c \in lacks \/ Holds(kernel, c, env, bytes)}

\* payload_hash_ok: "none" when there is nothing to compare the hash with.
Binding(passed, env, bytes) ==
  CASE "payload_hash" \notin passed -> "false"
    [] "payload_hash" \in passed /\ env.payload = Absent /\ bytes = Absent -> "none"
    [] OTHER -> IF /\ {"inline", "bytes"} \subseteq passed
                   /\ env.payload # Absent => "depth" \in passed
                THEN "true" ELSE "false"

\* The verdict record of the cross-kernel cases.
Verdict(kernel, lacks, env, bytes) ==
  LET passed == Passed(kernel, lacks, env, bytes)
      phk == Binding(passed, env, bytes)
      sig == {"text", "depth", "signature"} \subseteq passed
  IN [ok   |-> "spec" \in passed /\ sig /\ phk # "false",
      phk  |-> phk,
      sig  |-> sig,
      spec |-> "spec" \in passed]

(***************************************************************************)
(* SignEnvelope of pkg/proof: unlike sign_envelope it overwrites           *)
(* payload_hash and public_key, and it signs a payload of any depth.       *)
(***************************************************************************)
GoSignRaises(env) == env.payload = Absent

GoSignEnvelope(env, key) ==
  LET work == [env EXCEPT !.payload_hash = Sha256(env.payload), !.public_key = key]
  IN [work EXCEPT !.signature = SignatureBy(key, SignedScope(work))]
=============================================================================
