------------------------ MODULE EnvelopeTransitProofs ------------------------
(***************************************************************************)
(* Proofs about EnvelopeTransit for every set of drafts, keys and edits,   *)
(* and any number of them.                                                 *)
(***************************************************************************)
EXTENDS EnvelopeTransit, TLAPS

\* An envelope as sign_envelope returns it: signed by the key it names, over
\* its own signed scope.
IsSigned(s) ==
  /\ IsEnvelope(s)
  /\ s.signature = SignatureBy(s.public_key, envelope_for_signature(s))

\* Wherever a signature turns up, some signing put it there.
Traceable(e) ==
  e.signature # Absent => \E s \in signed : e.signature = s.signature

\* What the verifier accepted it recomputed from the envelope it was handed.
Recomputed == Accepted => VerifyOk(env, bytes, allow_legacy)

IInv ==
  /\ IsEnvelope(env)
  /\ \A s \in signed : IsSigned(s)
  /\ Traceable(env)
  /\ Recomputed

-----------------------------------------------------------------------------
\* sign_envelope completes the envelope and signs the scope it then has.
LEMMA SignEnvelope ==
  ASSUME NEW e, IsEnvelope(e), NEW key, ~SignRaises(e, key)
  PROVE  IsSigned(sign_envelope(e, key))
<1> DEFINE h == CompletedHash(e)
           c == CompletedKey(h, key)
           s == sign_envelope(e, key)
<1>1. IsEnvelope(h) /\ h.public_key = e.public_key
  BY DEF CompletedHash, IsEnvelope
<1>2. IsEnvelope(c) /\ c.public_key = key
  BY <1>1 DEF CompletedKey, IsEnvelope, SignRaises
<1> HIDE DEF h, c
<1>3. s = [c EXCEPT !.signature = SignatureBy(key, envelope_for_signature(c))]
  BY DEF sign_envelope, h, c
<1>4. /\ IsEnvelope(s)
      /\ s.signature = SignatureBy(key, envelope_for_signature(c))
      /\ s.public_key = key
  BY <1>2, <1>3 DEF IsEnvelope
<1>5. envelope_for_signature(s) = envelope_for_signature(c)
  BY <1>2, <1>3 DEF IsEnvelope, envelope_for_signature, Annotated
<1> QED BY <1>4, <1>5 DEF IsSigned

\* Equal signatures are signatures of the same key over the same scope.
LEMMA SameScope ==
  ASSUME NEW s, IsSigned(s), signature_ok(env), env.signature = s.signature
  PROVE  /\ s.public_key = env.public_key
         /\ envelope_for_signature(s) = envelope_for_signature(env)
<1>1. SignatureBy(s.public_key, envelope_for_signature(s))
        = SignatureBy(env.public_key, envelope_for_signature(env))
  BY DEF IsSigned, signature_ok
<1> QED BY <1>1 DEF SignatureBy

\* Equal scopes agree on every signed field, the annotations included where
\* the profile signs them.
LEMMA ScopeFields ==
  ASSUME NEW a, NEW b, envelope_for_signature(a) = envelope_for_signature(b)
  PROVE  /\ a.spec_version = b.spec_version
         /\ a.payload = b.payload
         /\ a.payload_hash = b.payload_hash
         /\ a.public_key = b.public_key
         /\ a.body = b.body
         /\ ~Annotated(a) => a.notes = b.notes
BY DEF envelope_for_signature, Annotated

\* A verdict other than "false" means that all material there is was compared.
LEMMA BindingFacts ==
  ASSUME NEW e, NEW b, payload_hash_ok(e, b) # "false"
  PROVE  /\ b # Absent => e.payload_hash = Sha256(b)
         /\ e.payload # Absent => e.payload_hash = Sha256(e.payload)
BY DEF payload_hash_ok, InlineBinds

-----------------------------------------------------------------------------
\* A draft is unsigned, and nothing is verified yet.
LEMMA InitInv == Init => IInv
BY DraftsAssumption DEF Init, IInv, Traceable, Recomputed, Accepted

\* An edit that leaves the signature alone, or removes it.
LEMMA EditInv ==
  ASSUME IInv, NEW new, NEW harmless, Edit(new, harmless), IsEnvelope(new),
         new.signature \in {env.signature, Absent}
  PROVE  IInv'
<1>1. env' = new /\ signed' = signed /\ pc' = "transit"
  BY DEF Edit, verifier
<1> QED BY <1>1 DEF IInv, Traceable, Recomputed, Accepted, IsEnvelope, IsSigned

\* Every signing, edit and verification keeps IInv.
LEMMA NextInv == IInv /\ [Next]_vars => IInv'
<1> SUFFICES ASSUME IInv, [Next]_vars PROVE IInv'
  OBVIOUS
<1>e. IsEnvelope(env)
  BY DEF IInv
<1>1. ASSUME NEW key \in Keys, Sign(key) PROVE IInv'
  <2>1. IsSigned(sign_envelope(env, key))
    BY <1>e, <1>1, SignEnvelope DEF Sign
  <2>2. env' = sign_envelope(env, key) /\ signed' = signed \cup {env'} /\ pc' = "transit"
    BY <1>1 DEF Sign
  <2>3. IsEnvelope(env') /\ Traceable(env)' /\ \A s \in signed' : IsSigned(s)
    BY <2>1, <2>2 DEF IInv, IsSigned, Traceable
  <2>4. Recomputed'
    BY <2>2 DEF Recomputed, Accepted
  <2> QED BY <2>3, <2>4 DEF IInv
<1>2. CASE CoSign
  <2> PICK c \in CoSignatures : Edit([env EXCEPT !.co_signatures = c], TRUE)
    BY <1>2 DEF CoSign
  <2>1. /\ IsEnvelope([env EXCEPT !.co_signatures = c])
        /\ [env EXCEPT !.co_signatures = c].signature = env.signature
    BY <1>e DEF IsEnvelope
  <2> QED BY <2>1, EditInv
<1>3. CASE Annotate
  <2> PICK n \in Notes : Edit([env EXCEPT !.notes = n], Annotated(env))
    BY <1>3 DEF Annotate
  <2>1. /\ IsEnvelope([env EXCEPT !.notes = n])
        /\ [env EXCEPT !.notes = n].signature = env.signature
    BY <1>e DEF IsEnvelope
  <2> QED BY <2>1, EditInv
<1>4. CASE StripSignature
  <2>1. /\ IsEnvelope([env EXCEPT !.signature = Absent])
        /\ [env EXCEPT !.signature = Absent].signature = Absent
    BY <1>e DEF IsEnvelope
  <2> QED BY <1>4, <2>1, EditInv DEF StripSignature
<1>5. CASE Tamper
  <2>1. PICK new : /\ Edit(new, FALSE)
                   /\ \E x : new \in {[env EXCEPT !.spec_version = x],
                                     [env EXCEPT !.payload = x],
                                     [env EXCEPT !.payload_hash = x],
                                     [env EXCEPT !.public_key = x],
                                     [env EXCEPT !.body = x]}
    BY <1>5 DEF Tamper
  <2>2. IsEnvelope(new) /\ new.signature = env.signature
    BY <1>e, <2>1 DEF IsEnvelope
  <2> QED BY <2>1, <2>2, EditInv
<1>6. CASE Verify
  <2>1. env' = env /\ signed' = signed /\ ok' = VerifyOk(env, bytes', allow_legacy')
    BY <1>6 DEF Verify
  <2>2. IsEnvelope(env') /\ Traceable(env)' /\ \A s \in signed' : IsSigned(s)
    BY <2>1 DEF IInv, Traceable
  <2>3. Recomputed'
    BY <2>1 DEF Recomputed, Accepted
  <2> QED BY <2>2, <2>3 DEF IInv
<1>7. CASE UNCHANGED vars
  BY <1>7 DEF vars, IInv, Traceable, Recomputed, Accepted
<1> QED BY <1>1, <1>2, <1>3, <1>4, <1>5, <1>6, <1>7 DEF Next

\* IInv holds throughout.
LEMMA Invariance == Spec => []IInv
BY InitInv, NextInv, PTL DEF Spec

\* Behind an accepted envelope there is a signing by its key over its scope.
LEMMA AcceptedScope ==
  ASSUME IInv, Accepted
  PROVE  \E s \in signed :
           /\ IsSigned(s)
           /\ s.public_key = env.public_key
           /\ envelope_for_signature(s) = envelope_for_signature(env)
<1>1. signature_ok(env)
  BY DEF IInv, Recomputed, VerifyOk
<1>2. PICK s \in signed : env.signature = s.signature
  BY <1>1 DEF IInv, Traceable, signature_ok
<1>3. IsSigned(s)
  BY DEF IInv
<1> QED BY <1>1, <1>2, <1>3, SameScope

(***************************************************************************)
(* Whatever was done to it on the way, an envelope verify_envelope accepts *)
(* carries the content the holder of its public_key signed.                *)
(***************************************************************************)
THEOREM Authenticity == Spec => []AcceptedAsSigned
<1>1. IInv => AcceptedAsSigned
  <2> SUFFICES ASSUME IInv, Accepted PROVE \E s \in signed : SameContent(s)
    BY DEF AcceptedAsSigned
  <2>1. PICK s \in signed :
          /\ IsSigned(s)
          /\ s.public_key = env.public_key
          /\ envelope_for_signature(s) = envelope_for_signature(env)
    BY AcceptedScope
  <2>2. s.signature.key = env.public_key
    BY <2>1 DEF IsSigned, SignatureBy
  <2>3. /\ s.spec_version = env.spec_version
        /\ s.payload = env.payload /\ s.payload_hash = env.payload_hash
        /\ s.body = env.body
        /\ ~Annotated(s) => s.notes = env.notes
    BY <2>1, ScopeFields
  <2>4. s.spec_version \in {"ario.agent/v1", "ario.events/v1"} => ~Annotated(s)
    BY ProfilesAssumption DEF Annotated, ACCEPTED_SPEC_VERSIONS
  <2> QED BY <2>2, <2>3, <2>4 DEF SameContent
<1> QED BY <1>1, Invariance, PTL

(***************************************************************************)
(* The external bytes and the inline payload an accepted envelope came     *)
(* with are those its signer committed to.                                 *)
(***************************************************************************)
THEOREM PayloadCommitment == Spec => []AcceptedPayloadCommitted
<1>1. IInv => AcceptedPayloadCommitted
  <2> SUFFICES ASSUME IInv, Accepted
               PROVE  \E s \in signed :
                        /\ s.signature.key = env.public_key
                        /\ bytes # Absent => s.payload_hash = Sha256(bytes)
                        /\ env.payload # Absent => s.payload_hash = Sha256(env.payload)
    BY DEF AcceptedPayloadCommitted
  <2>1. PICK s \in signed :
          /\ IsSigned(s)
          /\ s.public_key = env.public_key
          /\ envelope_for_signature(s) = envelope_for_signature(env)
    BY AcceptedScope
  <2>2. s.signature.key = env.public_key
    BY <2>1 DEF IsSigned, SignatureBy
  <2>3. s.payload_hash = env.payload_hash
    BY <2>1, ScopeFields
  <2>4. payload_hash_ok(env, bytes) # "false"
    BY DEF IInv, Recomputed, VerifyOk
  <2> QED BY <2>2, <2>3, <2>4, BindingFacts
<1> QED BY <1>1, Invariance, PTL

-----------------------------------------------------------------------------
\* A missing key is no hash and no signature: the terms are not Absent.
TermsPresent == \A k, x : SignatureBy(k, x) # Absent /\ Sha256(x) # Absent

\* payload_hash is there, and right for an inline payload.
Committed(e) ==
  /\ e.payload_hash # Absent
  /\ e.payload # Absent => e.payload_hash = Sha256(e.payload)

Valid(e) == IsEnvelope(e) /\ signature_ok(e) /\ Committed(e)

TypeInv ==
  /\ edits \in 0 .. MaxEdits
  /\ benign \in BOOLEAN /\ allow_legacy \in BOOLEAN /\ ok \in BOOLEAN
  /\ pc \in {"draft", "transit", "verified"}
  /\ \A s \in signed :
       IsEnvelope(s) /\ s.public_key \in Keys /\ s.payload_hash # Absent

\* As long as nothing but benign edits was made, the signature is good; and
\* the verdict is that of the envelope, which is not touched after it.
BInv ==
  /\ TypeInv
  /\ IsEnvelope(env)
  /\ benign => Valid(env)
  /\ pc = "verified" => ok = VerifyOk(env, bytes, allow_legacy)

\* What sign_envelope completes and signs, verify_envelope finds in order.
LEMMA SignedIsValid ==
  ASSUME TermsPresent, NEW e, IsEnvelope(e), NEW key, ~SignRaises(e, key)
  PROVE  Valid(sign_envelope(e, key)) /\ sign_envelope(e, key).public_key = key
<1> DEFINE h == CompletedHash(e)
           c == CompletedKey(h, key)
           s == sign_envelope(e, key)
<1>1. /\ IsEnvelope(h) /\ Committed(h) /\ CanonicalEnvelope(h)
      /\ h.public_key \in {Absent, key}
  BY DEF CompletedHash, IsEnvelope, SignRaises, Committed, CanonicalEnvelope, TermsPresent
<1>2. IsEnvelope(c) /\ Committed(c) /\ CanonicalEnvelope(c) /\ c.public_key = key
  BY <1>1 DEF CompletedKey, IsEnvelope, Committed, CanonicalEnvelope
<1> HIDE DEF h, c
<1>3. s = [c EXCEPT !.signature = SignatureBy(key, envelope_for_signature(c))]
  BY DEF sign_envelope, h, c
<1>4. Committed(s) /\ CanonicalEnvelope(s) /\ s.public_key = key
  BY <1>2, <1>3 DEF IsEnvelope, Committed, CanonicalEnvelope
<1>5. IsEnvelope(s) /\ s.signature = SignatureBy(s.public_key, envelope_for_signature(s))
  BY SignEnvelope DEF IsSigned
<1>6. s.signature # Absent
  BY <1>5 DEF TermsPresent
<1> QED BY <1>4, <1>5, <1>6 DEF Valid, signature_ok

\* Of an edit it matters here whether it is benign and leaves the rest valid.
LEMMA EditKeepsBInv ==
  ASSUME BInv, NEW new, NEW harmless, Edit(new, harmless), IsEnvelope(new),
         harmless /\ Valid(env) => Valid(new)
  PROVE  BInv'
<1>1. /\ env' = new /\ signed' = signed /\ pc' = pc /\ pc = "transit"
      /\ allow_legacy' = allow_legacy /\ ok' = ok
      /\ benign' = (benign /\ harmless)
      /\ edits' = edits + 1 /\ edits < MaxEdits
  BY DEF Edit, verifier
<1>2. TypeInv'
  BY <1>1, MaxEditsAssumption DEF BInv, TypeInv
<1>3. benign' => Valid(env')
  BY <1>1 DEF BInv
<1>4. pc' # "verified" /\ IsEnvelope(env')
  BY <1>1
<1>5. Valid(env)' = Valid(env')
  BY DEF Valid, Committed
<1> QED BY <1>2, <1>3, <1>4, <1>5 DEF BInv

\* An edit outside the signed scope leaves the signature good.
LEMMA OutsideScope ==
  ASSUME Valid(env), NEW new, IsEnvelope(new),
         envelope_for_signature(new) = envelope_for_signature(env),
         new.signature = env.signature
  PROVE  Valid(new)
<1>1. /\ new.payload = env.payload
      /\ new.payload_hash = env.payload_hash
      /\ new.public_key = env.public_key
  BY ScopeFields
<1> QED BY <1>1 DEF Valid, Committed, signature_ok, CanonicalEnvelope

\* BInv holds throughout.
LEMMA BenignInvariance ==
  ASSUME TermsPresent
  PROVE  Spec => []BInv
<1>1. Init => BInv
  <2> SUFFICES ASSUME Init PROVE BInv
    OBVIOUS
  <2>1. TypeInv
    <3>1. benign \in BOOLEAN /\ allow_legacy \in BOOLEAN /\ ok \in BOOLEAN
      BY Zenon DEF Init
    <3>2. edits \in 0 .. MaxEdits
      BY MaxEditsAssumption DEF Init
    <3>3. pc \in {"draft", "transit", "verified"} /\ signed = {}
      BY Zenon DEF Init
    <3> QED BY <3>1, <3>2, <3>3, Zenon DEF TypeInv
  <2>2. IsEnvelope(env) /\ pc # "verified"
    BY DraftsAssumption DEF Init
  <2>3. ~benign
    BY Zenon DEF Init
  <2> QED BY <2>1, <2>2, <2>3 DEF BInv
<1>2. BInv /\ [Next]_vars => BInv'
  <2> SUFFICES ASSUME BInv, [Next]_vars PROVE BInv'
    OBVIOUS
  <2>e. IsEnvelope(env)
    BY DEF BInv
  <2>1. ASSUME NEW key \in Keys, Sign(key) PROVE BInv'
    <3>1. Valid(sign_envelope(env, key)) /\ sign_envelope(env, key).public_key = key
      BY <2>e, <2>1, SignedIsValid DEF Sign
    <3>2. /\ env' = sign_envelope(env, key) /\ signed' = signed \cup {env'}
          /\ pc' = "transit" /\ benign' = TRUE
          /\ edits' = edits + 1 /\ edits < MaxEdits
          /\ allow_legacy' = allow_legacy /\ ok' = ok
      BY <2>1 DEF Sign
    <3>3. TypeInv'
      BY <3>1, <3>2, MaxEditsAssumption DEF BInv, TypeInv, Valid, Committed
    <3>4. Valid(env)' = Valid(env')
      BY DEF Valid, Committed
    <3> QED BY <3>1, <3>2, <3>3, <3>4 DEF BInv, Valid
  <2>2. CASE CoSign
    <3> PICK c \in CoSignatures : Edit([env EXCEPT !.co_signatures = c], TRUE)
      BY <2>2 DEF CoSign
    <3> DEFINE new == [env EXCEPT !.co_signatures = c]
    <3>1. /\ IsEnvelope(new) /\ new.signature = env.signature
          /\ envelope_for_signature(new) = envelope_for_signature(env)
      BY <2>e DEF IsEnvelope, envelope_for_signature, Annotated
    <3> QED BY <3>1, OutsideScope, EditKeepsBInv
  <2>3. CASE Annotate
    <3> PICK n \in Notes : Edit([env EXCEPT !.notes = n], Annotated(env))
      BY <2>3 DEF Annotate
    <3> DEFINE new == [env EXCEPT !.notes = n]
    <3>1. IsEnvelope(new) /\ new.signature = env.signature
      BY <2>e DEF IsEnvelope
    <3>2. ASSUME Annotated(env)
          PROVE  envelope_for_signature(new) = envelope_for_signature(env)
      BY <2>e, <3>2 DEF IsEnvelope, envelope_for_signature, Annotated
    <3> QED BY <3>1, <3>2, OutsideScope, EditKeepsBInv
  <2>4. CASE StripSignature
    <3>1. IsEnvelope([env EXCEPT !.signature = Absent])
      BY <2>e DEF IsEnvelope
    <3> QED BY <2>4, <3>1, EditKeepsBInv DEF StripSignature
  <2>5. CASE Tamper
    <3>1. PICK new : /\ Edit(new, FALSE)
                     /\ \E x : new \in {[env EXCEPT !.spec_version = x],
                                       [env EXCEPT !.payload = x],
                                       [env EXCEPT !.payload_hash = x],
                                       [env EXCEPT !.public_key = x],
                                       [env EXCEPT !.body = x]}
      BY <2>5 DEF Tamper
    <3>2. IsEnvelope(new)
      BY <2>e, <3>1 DEF IsEnvelope
    <3> QED BY <3>1, <3>2, EditKeepsBInv
  <2>6. CASE Verify
    <3>1. /\ env' = env /\ signed' = signed /\ edits' = edits /\ benign' = benign
          /\ pc' = "verified" /\ allow_legacy' \in BOOLEAN
          /\ ok' = VerifyOk(env, bytes', allow_legacy')
      BY <2>6 DEF Verify
    <3>2. ok' \in BOOLEAN
      BY <3>1 DEF VerifyOk
    <3>3. TypeInv'
      BY <3>1, <3>2 DEF BInv, TypeInv
    <3>4. Valid(env)' = Valid(env)
      BY <3>1 DEF Valid, Committed
    <3> QED BY <3>1, <3>3, <3>4 DEF BInv
  <2>7. CASE UNCHANGED vars
    <3>1. Valid(env)' = Valid(env)
      BY <2>7 DEF vars, Valid, Committed
    <3> QED BY <2>7, <3>1 DEF vars, BInv, TypeInv
  <2> QED BY <2>1, <2>2, <2>3, <2>4, <2>5, <2>6, <2>7 DEF Next
<1> QED BY <1>1, <1>2, PTL DEF Spec

(***************************************************************************)
(* What is in transit, and all that was ever signed, are whole envelopes;  *)
(* what was signed names the key of its signer and commits to a payload.   *)
(***************************************************************************)
THEOREM TypeCorrect ==
  ASSUME TermsPresent
  PROVE  Spec => []TypeOK
<1>1. BInv => TypeOK
  BY DEF BInv, TypeInv, TypeOK
<1> QED BY <1>1, BenignInvariance, PTL

(***************************************************************************)
(* A signed envelope that was only countersigned, or annotated where its   *)
(* profile allows it, is accepted by a verifier with the right bytes.      *)
(***************************************************************************)
THEOREM BenignAccepted ==
  ASSUME TermsPresent
  PROVE  Spec => []BenignEditsAccepted
<1>1. BInv => BenignEditsAccepted
  <2> SUFFICES ASSUME BInv, pc = "verified", benign,
                      env.spec_version # Absent => spec_version_supported(env.spec_version),
                      env.spec_version = Absent => allow_legacy,
                      env.payload_hash # NotAString,
                      bytes # Absent => env.payload_hash = Sha256(bytes)
               PROVE  ok
    BY DEF BenignEditsAccepted
  <2>1. Valid(env)
    BY DEF BInv
  <2>2. spec_version_ok(env, allow_legacy)
    BY DEF spec_version_ok
  <2>3. env.payload # Absent => InlineBinds(env)
    BY <2>1 DEF Valid, Committed, signature_ok, CanonicalEnvelope, InlineBinds
  <2>4. payload_hash_ok(env, bytes) # "false"
    BY <2>1, <2>3 DEF Valid, Committed, payload_hash_ok
  <2>5. VerifyOk(env, bytes, allow_legacy)
    BY <2>1, <2>2, <2>4 DEF Valid, VerifyOk
  <2> QED BY <2>5 DEF BInv
<1> QED BY <1>1, BenignInvariance, PTL
=============================================================================
