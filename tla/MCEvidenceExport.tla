--------------------------- MODULE MCEvidenceExport ---------------------------
(***************************************************************************)
(* Small exports: traces of one or two checkpoints, and for every check of *)
(* an attestation record one record that fails it.                         *)
(***************************************************************************)
EXTENDS ExportCorpus, MCEvidenceTrace, TLC

CONSTANTS MaxRecords, Rich

Attestation(tx, operator, n, e, env, signer, m) ==
  [shape_ok |-> TRUE, checkpoint_tx_id |-> tx,
   payload |-> [operator |-> operator, data_hash |-> Sha256(env)],
   public_key |-> [n |-> n, e |-> e],
   signature |-> SignatureBy([n |-> signer, e |-> m],
                             [operator |-> operator, data_hash |-> Sha256(env)])]

F4 == RSA_PUBLIC_EXPONENT
Op == OperatorAddress("op")
Good == Attestation("tx1", Op, "op", F4, Checkpoint1, "op", F4)

\* One that binds, the forgeries, and the records that do not parse.
PlainRecords ==
  {Good,
   Attestation("tx2", Op, "op", F4, Checkpoint1, "op", F4),      \* replayed for tx2
   Attestation("tx1", Op, "op", 1, Checkpoint1, "op", 1),        \* exponent 1
   [Good EXCEPT !.signature = Absent]}

RichRecords ==
  {Attestation("tx2", Op, "op", F4, Checkpoint2, "op", F4),
   Attestation("tx1", Op, "evil", F4, Checkpoint1, "evil", F4),  \* another's address
   Attestation("tx1", Op, "op", F4, Checkpoint2, "evil", F4),    \* another's signature
   Attestation(Absent, Op, "op", F4, Checkpoint2, "op", F4),     \* no checkpoint named
   Attestation("tx1", Op, Unimportable, F4, Checkpoint1, "op", F4),
   Attestation("tx1", OperatorAddress(Unimportable), Unimportable, 1, Checkpoint1,
               Unimportable, 1)}

PlainLists == SeqsUpTo(PlainRecords, 1)

AllLists ==
  SeqsUpTo(PlainRecords, MaxRecords) \cup IF Rich THEN [{1} -> RichRecords] ELSE {}

TraceOf(checkpoints, events) ==
  [defects |-> {}, body_type |-> "trace", asserted |-> "verified",
   checkpoints |-> checkpoints, events |-> events]

Sound1 == Trace(Event1, Doc1, In1(Event1), Absent)
Genuine == TraceOf(<<Genuine1>>, <<Sound1>>)

PlainBundles ==
  {Genuine,
   TraceOf(<<Genuine1>>, <<Trace(Event1, Absent, In1(Event1), Absent)>>),
   TraceOf(<<Genuine1>>, <<Trace(Stray, Doc2, In1(Event1), Absent)>>),
   TraceOf(<<>>, <<>>),
   [Genuine EXCEPT !.defects = {"no lists"}],
   [Genuine EXCEPT !.body_type = "marked"]}

RichBundles ==
  {TraceOf(<<Genuine1, Genuine2>>, <<Sound1>>),
   TraceOf(<<Genuine1, Entry("tx1", Checkpoint2, RootDoc2, "R2")>>, <<Sound1>>),
   TraceOf(<<Entry("", Checkpoint2, RootDoc2, "R2")>>, <<>>)}

MCExportDefects == {"body_hash", "spec_version", "no fields"}
\* One that the replayed record binds to: not an entry of any trace.
MCPlantedLists == {<<[tx_id |-> "tx2", envelope |-> Checkpoint1]>>}
MCExportGateways == {<<>>, <<"g">>}
MCExportContents == {NoSideInput, Log1SideInput}

-----------------------------------------------------------------------------
(* The golden export: two of its three events, one with disclosed content, *)
(* under one checkpoint with two attestations.                             *)

GoldenOf(operator, subject_ref) ==
  LET payload == [operator |-> OperatorAddress(operator), data_hash |-> Sha256(Checkpoint1),
                  subject_ref |-> subject_ref]
  IN [Good EXCEPT !.payload = payload, !.public_key.n = operator,
                  !.signature = SignatureBy([n |-> operator, e |-> F4], payload)]

GoldenEvent(id, content_ok) ==
  [event_id |-> id, signature_ok |-> TRUE, payload_bound |-> "true",
   inclusion_ok |-> TRUE, content_ok |-> content_ok]

GoldenAttested(operator) ==
  [operator |-> OperatorAddress(operator), signature_ok |-> TRUE,
   operator_address_bound |-> TRUE, data_hash_bound |-> TRUE]

MCFixture ==
  [source |-> TraceOf(<<Genuine1>>,
                      <<Trace(Event1, Doc1, In1(Event1), Log1),
                        Trace(Event2, Doc2, In1(Event2), Absent)>>),
   attestations |-> <<GoldenOf("op", [ref |-> "subject"]), GoldenOf("op2", Absent)>>,
   kernel_verdict |->
     [status |-> "verified",
      events |-> <<GoldenEvent("e1", "true"), GoldenEvent("e2", "none")>>,
      checkpoints |->
        <<[checkpoint_tx_id |-> "tx1", merkle_root_ok |-> TRUE,
           attestations |-> <<GoldenAttested("op"), GoldenAttested("op2")>>]>>],
   other_content |-> "log 2",
   mis_salt_sig |-> [salt |-> "longest"] @@ GoldenOf("op", [ref |-> "subject"]).signature,
   wrong_operator |-> Attestation("tx1", Op, "op2", F4, Checkpoint1, "op2", F4),
   wrong_data_hash |-> Attestation("tx1", Op, "op", F4, Checkpoint2, "op", F4)]

\* The sources of the corpus: as they are, and with other content disclosed.
GoldenSources ==
  {MCFixture.source,
   [MCFixture.source EXCEPT !.events[1].content = MCFixture.other_content]}

MCExportBundles ==
  PlainBundles \cup GoldenSources \cup IF Rich THEN RichBundles ELSE {}

\* Exports of exports are composed of the plain ones only, and none of the
\* sources of the corpus, which have theirs.
MCDrafts(trace, around) ==
  IF trace \in GoldenSources THEN {}
  ELSE IF around = <<>> THEN AllLists
  ELSE IF trace \in PlainBundles /\ \A k \in DOMAIN around : around[k].attestations \in PlainLists
       THEN PlainLists ELSE {}
=============================================================================
