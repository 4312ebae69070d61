-------------------------- MODULE MCEnvelopeTransit --------------------------
(***************************************************************************)
(* Two keys, two documents, one profile of each kind (annotations signed,  *)
(* annotations unsigned, no spec_version, unsupported), drafts complete    *)
(* and incomplete, consistent and not.                                     *)
(***************************************************************************)
EXTENDS EnvelopeTransit

Document1 == [merkle_root |-> Absent, content_hash |-> Absent, hashes |-> {}, id |-> "d1"]
Document2 == [Document1 EXCEPT !.id = "d2"]

MCKeys == {"producer", "other"}
MCDocuments == {Document1, Document2}
MCSpecVersions == {Absent, "ario.mlflow/v1", "ario.events/v1", "ario.agent/v10"}
MCPayloads == {Absent, Document1, Document2, Uncanonical}
MCPayloadHashes == {Absent, NotAString, Sha256(Document1), Sha256(Document2)}
MCBodies == {"b1", "b2"}
MCNotes == {Absent, "n1"}
MCCoSignatures == {"c1"}

MCDrafts ==
  [spec_version : MCSpecVersions, payload : MCPayloads \ {Document2},
   payload_hash : MCPayloadHashes, public_key : {Absent, "producer"},
   body : {"b1"}, notes : MCNotes, co_signatures : {Absent}, signature : {Absent}]
=============================================================================
