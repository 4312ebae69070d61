----------------------------- MODULE MCAgentProof -----------------------------
(***************************************************************************)
(* Small instances of AgentProof: a signed daily checkpoint over two       *)
(* leaves, every pair of defects, and a bundle for every check.            *)
(***************************************************************************)
EXTENDS AgentProof

Document(root, count) ==
  [id |-> "daily", merkle_root |-> root, leaf_count |-> count,
   content_hash |-> Absent, hashes |-> {}]

Draft(version, document) ==
  [spec_version |-> version, payload |-> document, payload_hash |-> Absent,
   public_key |-> Absent, body |-> "checkpoint", notes |-> Absent,
   co_signatures |-> Absent, signature |-> Absent]

Daily(root, count) == sign_envelope(Draft("ario.agent/v1", Document(root, count)), "agent")
Checkpoint == Daily("R", 2)
Other == Daily("R2", 2)
Annotatable == sign_envelope(Draft("ario.mlflow/v1", Document("R", 2)), "agent")
Withheld == [Draft("ario.agent/v1", Absent) EXCEPT !.payload_hash = Sha256("a")]

MCCommits(root) ==
  IF root = "R" THEN {leaf_hash("l1"), leaf_hash("l2"), [node |-> "R"]} ELSE {leaf_hash("l3")}

Proof(leaf, count, root) == [leaf |-> leaf, leaf_count |-> count, reaches |-> root]

Genuine ==
  [defects |-> {}, spec_version |-> "exact", checkpoint_envelope |-> Checkpoint,
   leaf |-> "l1", proof |-> Proof(leaf_hash("l1"), 2, "R")]

Envelopes ==
  {Checkpoint, Other, Daily(Absent, 2), Daily("R", Absent), sign_envelope(Withheld, "agent"),
   [Checkpoint EXCEPT !.signature = SignatureBy("nobody", "")],
   [Checkpoint EXCEPT !.payload = Document("R", 3)],
   [Checkpoint EXCEPT !.payload = Uncanonical],
   [Checkpoint EXCEPT !.payload_hash = NotAString],
   Annotatable,
   sign_envelope(Draft(Absent, Document("R", 2)), "agent"),
   sign_envelope(Draft("ario.agent/v2", Document("R", 2)), "agent")}

Proofs ==
  {Absent, Proof(leaf_hash("l1"), 2, "R"), Proof([node |-> "R"], 2, "R"),
   Proof(leaf_hash("l1"), 2, Absent), Proof(leaf_hash("l1"), 3, "R")}

MCBundles ==
  {[Genuine EXCEPT !.checkpoint_envelope = e, !.proof = p, !.leaf = l] :
     e \in Envelopes, p \in Proofs, l \in {"l1", "l3", Uncanonical}}
  \cup {[Genuine EXCEPT !.defects = {d, f}] : d, f \in Defects}
  \cup {[Genuine EXCEPT !.defects = {d}, !.checkpoint_envelope = e, !.spec_version = v] :
          d \in PythonOnly \cup TypeScriptOnly, e \in {Checkpoint, Annotatable},
          v \in {"exact", "minor"}}
  \cup {[Genuine EXCEPT !.spec_version = v] : v \in {"minor", "other"}}

MCGatewayLists == {<<>>, <<"g1">>, <<"g1", "g2">>}
MCReplies == {Checkpoint, Other}
=============================================================================
