--------------------------- MODULE EnvelopeTransit ---------------------------
(***************************************************************************)
(* The life of one envelope: a producer completes and signs a draft        *)
(* (sign_envelope), anybody who holds the envelope edits it, countersigns  *)
(* it, annotates it, strips its signature or has it signed again under     *)
(* another key, and a verifier that knows nothing of this is handed the    *)
(* result (verify_envelope), with or without external payload bytes.       *)
(*                                                                         *)
(* The producer and the verifier are src/ario_proof/envelope.py; the edits *)
(* are what untrusted storage and delivery can do to a JSON object.  Only  *)
(* sign_envelope makes signatures.                                         *)
(***************************************************************************)
EXTENDS Envelope, Naturals

CONSTANTS
  Drafts,         \* the unsigned envelopes producers start from
  Keys,           \* signing keys; every key has an owner who may sign
  SpecVersions, Payloads, PayloadHashes, Bodies, Notes,  \* values edits put in
  CoSignatures,
  Documents,      \* external payload bytes verifiers may hold
  MaxEdits        \* bound on the signings and edits before the verification

IsEnvelope(e) ==
  e = [spec_version |-> e.spec_version, payload |-> e.payload,
       payload_hash |-> e.payload_hash, public_key |-> e.public_key, body |-> e.body,
       notes |-> e.notes, co_signatures |-> e.co_signatures, signature |-> e.signature]

ASSUME ProfilesAssumption == Absent \notin ACCEPTED_SPEC_VERSIONS
ASSUME MaxEditsAssumption == MaxEdits \in Nat
ASSUME DraftsAssumption == \A d \in Drafts : IsEnvelope(d) /\ d.signature = Absent

VARIABLES
  env,            \* the envelope
  signed,         \* history: every envelope sign_envelope has returned
  edits,          \* number of edits so far
  benign,         \* history: all edits since the last signing were benign
  pc,             \* "draft", "transit" or "verified"
  bytes, allow_legacy,  \* what the verifier was called with
  ok              \* what verify_envelope returned

vars == <<env, signed, edits, benign, pc, bytes, allow_legacy, ok>>
verifier == <<pc, bytes, allow_legacy, ok>>

Init ==
  /\ env \in Drafts
  /\ signed = {}
  /\ edits = 0
  /\ benign = FALSE
  /\ pc = "draft"
  /\ bytes = Absent
  /\ allow_legacy = FALSE
  /\ ok = FALSE

-----------------------------------------------------------------------------
\* sign_envelope by the owner of key; a call that raises changes nothing.
Sign(key) ==
  /\ pc \in {"draft", "transit"}
  /\ edits < MaxEdits
  /\ ~SignRaises(env, key)
  /\ env' = sign_envelope(env, key)
  /\ signed' = signed \cup {env'}
  /\ edits' = edits + 1
  /\ benign' = TRUE
  /\ pc' = "transit"
  /\ UNCHANGED <<bytes, allow_legacy, ok>>

Edit(new, harmless) ==
  /\ pc = "transit"
  /\ edits < MaxEdits
  /\ new # env
  /\ env' = new
  /\ edits' = edits + 1
  /\ benign' = (benign /\ harmless)
  /\ UNCHANGED <<signed, verifier>>

\* A countersignature is attached after the producer signed.
CoSign == \E c \in CoSignatures : Edit([env EXCEPT !.co_signatures = c], TRUE)

\* Routing metadata, which only the profiles without it in the signed scope allow.
Annotate == \E n \in Notes : Edit([env EXCEPT !.notes = n], Annotated(env))

StripSignature == Edit([env EXCEPT !.signature = Absent], FALSE)

Tamper ==
  \/ \E v \in SpecVersions : Edit([env EXCEPT !.spec_version = v], FALSE)
  \/ \E p \in Payloads : Edit([env EXCEPT !.payload = p], FALSE)
  \/ \E h \in PayloadHashes : Edit([env EXCEPT !.payload_hash = h], FALSE)
  \/ \E k \in Keys \cup {Absent} : Edit([env EXCEPT !.public_key = k], FALSE)
  \/ \E b \in Bodies : Edit([env EXCEPT !.body = b], FALSE)

Verify ==
  /\ pc = "transit"
  /\ pc' = "verified"
  /\ bytes' \in Documents \cup {Absent}
  /\ allow_legacy' \in BOOLEAN
  /\ ok' = VerifyOk(env, bytes', allow_legacy')
  /\ UNCHANGED <<env, signed, edits, benign>>

Next ==
  \/ \E key \in Keys : Sign(key)
  \/ CoSign \/ Annotate \/ StripSignature \/ Tamper
  \/ Verify

Spec == Init /\ [][Next]_vars

-----------------------------------------------------------------------------
Accepted == pc = "verified" /\ ok

TypeOK ==
  /\ edits \in 0 .. MaxEdits
  /\ benign \in BOOLEAN /\ allow_legacy \in BOOLEAN /\ ok \in BOOLEAN
  /\ pc \in {"draft", "transit", "verified"}
  /\ IsEnvelope(env)
  /\ \A s \in signed :
       IsEnvelope(s) /\ s.public_key \in Keys /\ s.payload_hash # Absent

(***************************************************************************)
(* An accepted envelope was signed, as it stands, by the holder of the key *)
(* it names.  Only co_signatures may differ from what was signed, and the  *)
(* annotations of the profiles that keep them out of the signed scope.     *)
(***************************************************************************)
SameContent(s) ==
  /\ s.signature.key = env.public_key
  /\ s.spec_version = env.spec_version
  /\ s.payload = env.payload /\ s.payload_hash = env.payload_hash
  /\ s.body = env.body
  /\ s.spec_version \in {"ario.agent/v1", "ario.events/v1"} => s.notes = env.notes

AcceptedAsSigned == Accepted => \E s \in signed : SameContent(s)

(***************************************************************************)
(* External bytes and an inline payload an accepted envelope came with are *)
(* what its signer committed to in payload_hash: neither vouches for the   *)
(* other.                                                                  *)
(***************************************************************************)
AcceptedPayloadCommitted ==
  Accepted =>
    \E s \in signed :
      /\ s.signature.key = env.public_key
      /\ bytes # Absent => s.payload_hash = Sha256(bytes)
      /\ env.payload # Absent => s.payload_hash = Sha256(env.payload)

(***************************************************************************)
(* sign_envelope and verify_envelope agree on the signed scope: what was   *)
(* signed verifies, and still does after countersignatures and unsigned    *)
(* annotations, for a verifier that accepts the profile and holds the      *)
(* right bytes or none.                                                    *)
(***************************************************************************)
BenignEditsAccepted ==
  (/\ pc = "verified" /\ benign
   /\ env.spec_version # Absent => spec_version_supported(env.spec_version)
   /\ env.spec_version = Absent => allow_legacy
   /\ env.payload_hash # NotAString
   /\ bytes # Absent => env.payload_hash = Sha256(bytes))
  => ok
=============================================================================
