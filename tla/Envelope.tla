------------------------------ MODULE Envelope ------------------------------
(***************************************************************************)
(* The signed envelope (src/ario_proof/envelope.py): the signed scope of   *)
(* each profile, verify_envelope and sign_envelope, as operators on        *)
(* envelope records.                                                       *)
(*                                                                         *)
(* An envelope is a record                                                 *)
(*   spec_version   a profile, or Absent                                   *)
(*   payload        the inline payload, or Absent (external commitment)    *)
(*   payload_hash   a SHA-256 hex, Absent, or NotAString                   *)
(*   public_key     a key, or Absent                                       *)
(*   body           all remaining signed fields, its event_id among them,  *)
(*                  as one value                                           *)
(*   notes          the "_*" annotation keys, as one value                 *)
(*   co_signatures  as one value                                           *)
(*   signature      what an Ed25519 key signed, or Absent                  *)
(*                                                                         *)
(* A payload, inline or external, is a document                            *)
(*   [merkle_root, content_hash, hashes, id]                               *)
(* with the event.merkle_root and event.content_hash it carries (or        *)
(* Absent) and the set of asset hashes content_hashes finds in it.         *)
(*                                                                         *)
(* SHA-256 and Ed25519 are free constructors: a hash is determined by what *)
(* was hashed, a signature by the key and the bytes signed.  JCS is a      *)
(* function of the value, so canonical bytes are named by the value; the   *)
(* one value JCS refuses is the payload Uncanonical (nested beyond         *)
(* MAX_CANONICAL_DEPTH, or not JSON).                                      *)
(***************************************************************************)

CONSTANTS
  Absent,       \* the key is not in the object (or the argument is None)
  NotAString,   \* the key holds a number, a list, ... where a string belongs
  Uncanonical   \* a payload canonical_json raises on

\* ACCEPTED_SPEC_VERSIONS on the v<major> token boundary; every other string
\* (another major, a non-numeric minor) is one more, unsupported, version.
ACCEPTED_SPEC_VERSIONS == {"ario.agent/v1", "ario.mlflow/v1", "ario.events/v1"}

spec_version_supported(v) == v \in ACCEPTED_SPEC_VERSIONS

Sha256(bytes) == [sha256 |-> bytes]

SignatureBy(key, message) == [key |-> key, message |-> message]

Annotated(env) == env.spec_version \in {Absent, "ario.mlflow/v1"}

\* Mutant: the profile is left out of the signed scope.
envelope_for_signature_NoProfile(env) ==
  [payload      |-> env.payload,
   payload_hash |-> env.payload_hash,
   public_key   |-> env.public_key,
   body         |-> env.body,
   notes        |-> IF Annotated(env) THEN Absent ELSE env.notes]

\* Mutant: countersignatures are left in the signed scope.
envelope_for_signature_CoSignatures(env) ==
  [spec_version  |-> env.spec_version,
   payload       |-> env.payload,
   payload_hash  |-> env.payload_hash,
   public_key    |-> env.public_key,
   body          |-> env.body,
   co_signatures |-> env.co_signatures,
   notes         |-> IF Annotated(env) THEN Absent ELSE env.notes]

\* The signed scope: the envelope minus signature and co_signatures, minus
\* the annotation keys where the profile treats them as unsigned.
envelope_for_signature(env) ==
  [spec_version |-> env.spec_version,
   payload      |-> env.payload,
   payload_hash |-> env.payload_hash,
   public_key   |-> env.public_key,
   body         |-> env.body,
   notes        |-> IF Annotated(env) THEN Absent ELSE env.notes]

\* The hashes an inline payload commits to, by event_type (roles left out).
content_hashes(env) ==
  IF env.payload \in {Absent, Uncanonical} THEN {} ELSE env.payload.hashes

CanonicalEnvelope(env) == env.payload # Uncanonical

(***************************************************************************)
(* verify_envelope, for external payload bytes `bytes' (Absent when the    *)
(* caller has none).  payload_hash_ok is "true", "false" or "none".        *)
(***************************************************************************)
spec_version_ok(env, allow_legacy) ==
  IF env.spec_version = Absent THEN allow_legacy
  ELSE spec_version_supported(env.spec_version)

InlineBinds(env) ==
  env.payload # Uncanonical /\ env.payload_hash = Sha256(env.payload)

\* Mutant: one check of the two is enough.
payload_hash_ok_AnyCheck(env, bytes) ==
  CASE env.payload_hash \in {Absent, NotAString} -> "false"
    [] env.payload_hash \notin {Absent, NotAString}
       /\ env.payload = Absent /\ bytes = Absent -> "none"
    [] OTHER -> IF \/ env.payload # Absent /\ InlineBinds(env)
                   \/ bytes # Absent /\ env.payload_hash = Sha256(bytes)
                THEN "true" ELSE "false"

payload_hash_ok(env, bytes) ==
  LET inlineChecked == env.payload # Absent
      bytesChecked  == bytes # Absent
  IN CASE env.payload_hash \in {Absent, NotAString} -> "false"
       [] env.payload_hash \notin {Absent, NotAString}
          /\ ~inlineChecked /\ ~bytesChecked -> "none"
       [] OTHER -> IF /\ inlineChecked => InlineBinds(env)
                      /\ bytesChecked  => env.payload_hash = Sha256(bytes)
                   THEN "true" ELSE "false"

signature_ok(env) ==
  /\ CanonicalEnvelope(env)
  /\ env.signature # Absent
  /\ env.signature = SignatureBy(env.public_key, envelope_for_signature(env))

VerifyOk(env, bytes, allow_legacy) ==
  /\ spec_version_ok(env, allow_legacy)
  /\ signature_ok(env)
  /\ payload_hash_ok(env, bytes) # "false"

(***************************************************************************)
(* sign_envelope: the three ValueErrors it documents, the depth error of   *)
(* canonical_json, and the completed, signed envelope otherwise.           *)
(***************************************************************************)
CompletedHash(env) ==
  IF env.payload # Absent /\ env.payload_hash = Absent
  THEN [env EXCEPT !.payload_hash = Sha256(env.payload)]
  ELSE env

\* Mutant: a missing public_key is not filled in.
CompletedKey_Missing(env, key) == env

CompletedKey(env, key) ==
  IF env.public_key = Absent THEN [env EXCEPT !.public_key = key] ELSE env

SignRaises(env, key) ==
  \/ env.signature # Absent
  \/ ~CanonicalEnvelope(env)
  \/ env.payload # Absent /\ env.payload_hash \notin {Absent, Sha256(env.payload)}
  \/ env.payload = Absent /\ env.payload_hash = Absent
  \/ env.public_key \notin {Absent, key}

sign_envelope(env, key) ==
  LET completed == CompletedKey(CompletedHash(env), key)
  IN [completed EXCEPT
        !.signature = SignatureBy(key, envelope_for_signature(completed))]
=============================================================================
