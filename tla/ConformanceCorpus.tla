-------------------------- MODULE ConformanceCorpus --------------------------
(***************************************************************************)
(* The envelopes of the conformance corpus, as                             *)
(* tools/gen-vectors/gen_vectors.py makes them, and the cases              *)
(* cross-kernel/generate_cases.py makes of them and adds to them.  Both    *)
(* sign with their own code and the published seed, never with             *)
(* sign_envelope: they have to be able to sign what it refuses.            *)
(***************************************************************************)
EXTENDS EnvelopeKernels, Integers, Sequences

CONSTANT Genesis         \* the previous_hash of a record that is chained to none

LOCAL V == INSTANCE MerkleVectors

FIXED_SEED == "fixed seed"

\* The envelopes the scripts start from: everything but the spec_version and
\* the payload is in the body.
Bare(spec, body) ==
  [spec_version |-> spec, payload |-> Absent, payload_hash |-> Absent,
   public_key |-> Absent, body |-> body, notes |-> Absent,
   co_signatures |-> Absent, signature |-> Absent]

\* generate_cases.sign, and the same step in every generator: the seed's
\* signature over the whole envelope, which has none yet.
sign(env) == [env EXCEPT !.signature = SignatureBy(FIXED_SEED, SignedScope(env))]

\* Mutant: the vector is signed before its payload_hash is filled in.
Complete_SignedFirst(env, hash) ==
  [sign([env EXCEPT !.public_key = FIXED_SEED]) EXCEPT !.payload_hash = hash]

\* payload_hash and public_key are part of what is signed.
Complete(env, hash) == sign([env EXCEPT !.payload_hash = hash, !.public_key = FIXED_SEED])

-----------------------------------------------------------------------------
(* gen_vectors.py                                                          *)

sign_envelope_vector(pre) ==
  LET env == Complete(pre, Sha256(pre.payload))
  IN [inputs           |-> pre,
      public_key       |-> env.public_key,
      expected_outputs |-> [payload_hash |-> env.payload_hash, signature |-> env.signature]]

EventTypes ==
  <<"asset_registered", "tamper_detected", "policy_changed",
    "key_retired", "asset_missing", "verification_checkpoint">>

Named(id) == [id |-> id, merkle_root |-> Absent, content_hash |-> Absent, hashes |-> {}]

ENVELOPE_VECTORS ==
  [i \in DOMAIN EventTypes |->
     [Bare("ario.agent/v1", EventTypes[i]) EXCEPT !.payload = Named(EventTypes[i])]]

\* The record stays with the caller: the envelope carries its hash alone.
sign_events_envelope_vector(event_record, pre) ==
  [event_record |-> event_record,
   payload_hash |-> Sha256(event_record),
   envelope     |-> Complete(pre, Sha256(event_record))]

EventRecord(id, contents, previous) ==
  [id |-> id, merkle_root |-> Absent, content_hash |-> Sha256(contents), hashes |-> {},
   previous_hash |-> previous]

CheckpointRecord(id, tree, previous) ==
  [id |-> id, merkle_root |-> tree.expected_root, content_hash |-> Absent, hashes |-> {},
   leaf_count |-> tree.leaf_count, previous_hash |-> previous]

EventsVector(id, record) ==
  sign_events_envelope_vector(record, Bare("ario.events/v1", id))

LeafEnvelope(contents) ==
  EventsVector(contents, EventRecord(contents, contents, Genesis)).envelope

\* Leaves are hashes of complete, signed envelopes.
_checkpoint_over(vector_id, leaf_contents, previous_hash) ==
  EventsVector(vector_id,
    CheckpointRecord(vector_id,
      V!merkle_tree_vector([i \in DOMAIN leaf_contents |-> LeafEnvelope(leaf_contents[i])]),
      previous_hash))

events_vectors ==
  LET vec_1 == EventsVector("event 1", EventRecord("event 1", "hello world", Genesis))
      vec_2 == EventsVector("event 2", EventRecord("event 2", "hello again", vec_1.payload_hash))
  IN <<vec_1, vec_2,
       _checkpoint_over("checkpoint", <<"leaf-0", "leaf-1", "leaf-2">>, Genesis)>>

\* Two windows of one batcher, the second chained to the first.
events_checkpoint_chain_vector ==
  LET w1 == _checkpoint_over("window 1", <<"w1-leaf-0", "w1-leaf-1">>, Genesis)
      w2 == _checkpoint_over("window 2", <<"w2-leaf-0", "w2-leaf-1", "w2-leaf-2">>,
                             w1.payload_hash)
  IN <<w1, w2>>

MalformedMinors == <<"ario.agent/v1.x", "ario.agent/v1.3abc", "ario.agent/v1.">>

\* Three well-signed envelopes with a malformed minor; one with an unpaired
\* surrogate and a signature of zeros; one signed without a payload_hash.
negative_vectors ==
  LET record_hash == Sha256(Named("negative record"))
      badMinor(v) == Complete(Bare(v, "negative"), record_hash)
      surrogate == [Bare("ario.agent/v1", LoneSurrogate) EXCEPT
                      !.payload_hash = record_hash, !.public_key = FIXED_SEED,
                      !.signature = SignatureBy("nobody", Absent)]
      unhashed == sign([Bare("ario.agent/v1", "negative") EXCEPT !.public_key = FIXED_SEED])
  IN [i \in DOMAIN MalformedMinors |-> badMinor(MalformedMinors[i])]
     \o <<surrogate, unhashed>>

-----------------------------------------------------------------------------
(* generate_cases.py                                                       *)

Case(env, bytes, expect) ==
  [envelope |-> env, bytes |-> bytes, negative |-> FALSE, expect |-> expect]

\* The complete envelope, from the parts a vector publishes.
Reassembled(v) ==
  [v.inputs EXCEPT !.payload_hash = v.expected_outputs.payload_hash,
                   !.public_key = v.public_key,
                   !.signature = v.expected_outputs.signature]

InlineCases(vectors) ==
  [i \in DOMAIN vectors |->
     Case(Reassembled(sign_envelope_vector(vectors[i])), Absent, "bound")]

ExternalCases(vectors) ==
  [i \in DOMAIN vectors |-> Case(vectors[i].envelope, vectors[i].event_record, "bound")]

corpus_cases ==
  InlineCases(ENVELOPE_VECTORS)
  \o ExternalCases(events_vectors \o events_checkpoint_chain_vector)

Record == Named("external record")
base(spec) == [Bare(spec, "adversarial") EXCEPT !.public_key = FIXED_SEED]

\* The signed envelope around Record, inline or by its hash alone.
Inline(spec) == sign([base(spec) EXCEPT !.payload = Record, !.payload_hash = Sha256(Record)])
External == sign([base("ario.agent/v1") EXCEPT !.payload_hash = Sha256(Record)])

adversarial_cases ==
  LET inline == Inline("ario.agent/v1")
      unhashed == sign(base("ario.agent/v1"))
      badMinors == MalformedMinors \o <<"ario.agent/v10">>
      altered(env, payload) == Case([env EXCEPT !.payload = payload], Absent, "rejected")
  IN <<Case(inline, Absent, "bound"),
       Case(External, Absent, "undetermined"),
       Case(External, Record, "bound"),
       Case(External, Named("not the record"), "rejected"),
       altered(inline, Absent),                        \* a fake external commitment
       altered(External, Named("forged")),      \* a fake inline payload
       Case(unhashed, Absent, "rejected"),
       Case(unhashed, Named("some bytes"), "rejected"),
       Case(External, Absent, "undetermined"),
       altered(inline, Named("tampered"))>>
     \o [i \in DOMAIN badMinors |-> Case(Inline(badMinors[i]), Absent, "rejected")]
     \o [i \in 1 .. 2 |-> Case(Inline("ario.agent/v1"), Absent, "bound")]  \* minors 3, 10

negative_cases ==
  [i \in DOMAIN negative_vectors |->
     [envelope |-> negative_vectors[i], bytes |-> Absent, negative |-> TRUE,
      expect |-> "rejected"]]

AllCases == corpus_cases \o adversarial_cases \o negative_cases
=============================================================================
