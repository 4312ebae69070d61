--------------------------- MODULE MCEvidenceTrace ---------------------------
(***************************************************************************)
(* Small bundles for EvidenceTrace: two signed checkpoints with trees of   *)
(* one and two events, and for every way the verifier can be misled one    *)
(* entry that tries it.                                                    *)
(***************************************************************************)
EXTENDS EvidenceTraceRefines

CONSTANTS MaxCheckpoints, MaxEvents, MaxEventsOnline

Document(id, root, contentHash) ==
  [id |-> id, merkle_root |-> root, content_hash |-> contentHash, hashes |-> {}]

Signed(body, document) ==
  sign_envelope(
    [spec_version |-> "ario.events/v1", payload |-> Absent,
     payload_hash |-> Sha256(document), public_key |-> Absent, body |-> body,
     notes |-> Absent, co_signatures |-> Absent, signature |-> Absent], "producer")

Unsigned(env) == [env EXCEPT !.signature = SignatureBy("nobody", env.body)]

Log1 == "log 1"
Doc1 == Document("event 1", Absent, Sha256(Log1))
Doc2 == Document("event 2", Absent, Absent)
Event1 == Signed("e1", Doc1)
Event2 == Signed("e2", Doc2)
Stray  == Signed("e3", Doc2)

RootDoc1 == Document("checkpoint 1", "R1", Absent)
RootDoc2 == Document("checkpoint 2", "R2", Absent)
Checkpoint1 == Signed("c1", RootDoc1)
Checkpoint2 == Signed("c2", RootDoc2)

MCCommits(root) ==
  IF root = "R1" THEN {leaf_hash(Event1), leaf_hash(Event2), [node |-> "R1"]}
  ELSE {leaf_hash(Event2)}

MCChain(tx) ==
  CASE tx = "tx1" -> Checkpoint1
    [] tx = "tx2" -> Checkpoint2
    [] OTHER -> NoAnswer

-----------------------------------------------------------------------------
Entry(tx, env, record, root) ==
  [tx_id |-> tx, envelope |-> env, record |-> record, merkle_root |-> root]

Genuine1 == Entry("tx1", Checkpoint1, RootDoc1, "R1")
Genuine2 == Entry("tx2", Checkpoint2, RootDoc2, "R2")

\* Entries that stand on their own, whatever else the bundle says.
PlausibleCheckpoints ==
  {Genuine1, Genuine2,
   Entry("tx1", Checkpoint2, RootDoc2, "R2"),           \* sound, another tx's
   Entry(Absent, Checkpoint1, RootDoc1, "R1"),          \* no tx_id
   Entry("", Checkpoint2, RootDoc2, "R2")}              \* the tx_id a missing one reads as

UnsoundCheckpoints ==
  {Entry("tx1", Checkpoint1, Absent, "R1"),             \* record withheld
   Entry("tx1", Checkpoint1, RootDoc1, "R2"),           \* claims another root
   Entry("tx1", Checkpoint1, RootDoc2, "R2"),           \* another record
   Entry("tx1", Unsigned(Checkpoint1), RootDoc1, "R1")} \* bad signature

CheckpointEntries == PlausibleCheckpoints \cup UnsoundCheckpoints

\* Online one unsound entry will do: what matters there is the re-fetch.
OnlineEntries ==
  PlausibleCheckpoints \cup {Entry("tx1", Unsigned(Checkpoint1), RootDoc1, "R1")}

Proof(tx, leaf, root) == [tx_id |-> tx, leaf |-> leaf, reaches |-> root]
Trace(env, record, inclusion, disclosed) ==
  [envelope |-> env, record |-> record, inclusion |-> inclusion, content |-> disclosed]

In1(env) == Proof("tx1", leaf_hash(env), "R1")

EventEntries ==
  {Trace(Event1, Doc1, In1(Event1), Absent),
   Trace(Event2, Doc2, Proof("tx2", leaf_hash(Event2), "R2"), Absent),
   Trace(Event1, Absent, In1(Event1), Absent),           \* record withheld
   Trace(Event1, Doc2, In1(Event1), Absent),             \* another record
   Trace(Unsigned(Event1), Doc1, In1(Event1), Absent),   \* bad signature
   Trace(Stray, Doc2, In1(Event1), Absent),              \* another event's proof
   Trace(Stray, Doc2, Proof("tx1", [node |-> "R1"], "R1"), Absent),
   Trace(Event1, Doc1, Proof("tx1", leaf_hash(Event1), Absent), Absent),
   Trace(Event2, Doc2, Proof("tx1", leaf_hash(Event2), "R2"), Absent),
   Trace(Event2, Doc2, Proof("", leaf_hash(Event2), "R2"), Absent),
   Trace(Event1, Doc1, Absent, Absent),                  \* no inclusion proof
   Trace(Event1, Doc1, In1(Event1), Log1),               \* content disclosed
   Trace(Event1, Doc1, In1(Event1), "log 2"),            \* other content
   Trace(Event2, Doc2, Proof("tx2", leaf_hash(Event2), "R2"), Log1)}

SeqsUpTo(S, n) == UNION {[1 .. m -> S] : m \in 0 .. n}

TraceBundles ==
  [defects : {{}}, body_type : {"trace"}, asserted : {"verified"},
   checkpoints : SeqsUpTo(CheckpointEntries, MaxCheckpoints),
   events : SeqsUpTo(EventEntries, MaxEvents)]

\* Wrappers that do not get as far as the body, over a genuine trace.
WrapperBundles ==
  [defects : {{}} \cup {{d} : d \in Defects} \cup {{"signature", "no lists"}},
   body_type : {"trace", "other", "marked"}, asserted : {"verified"},
   checkpoints : {<<Genuine1>>}, events : {<<>>}]

MCBundles == TraceBundles \cup WrapperBundles

\* "h" is honest, "g" returns what it likes.
MCGatewayLists == {<<>>, <<"h">>, <<"g">>, <<"g", "h">>}
MCHonestGateways == {"h"}
MCReplies == {Checkpoint1, Checkpoint2}

EventIds == {"e1", "e2", "e3"}
NoSideInput == [e \in EventIds |-> Absent]
Log1SideInput == [NoSideInput EXCEPT !["e1"] = Log1]
MCContents == {NoSideInput, Log1SideInput}

\* The calls with gateways are made on fewer bundles: at most MaxEventsOnline
\* events, checkpoints from OnlineEntries, and no side input.
OnlineCall ==
  /\ Len(bundle.events) <= MaxEventsOnline
  /\ \A i \in DOMAIN bundle.checkpoints : bundle.checkpoints[i] \in OnlineEntries
  /\ content = NoSideInput

\* The side input is given with one event at most.
MCInit ==
  /\ Init
  /\ on_chain_checked => OnlineCall
  /\ Len(bundle.events) > 1 => content = NoSideInput

MCSpec == MCInit /\ [][Next]_vars /\ WF_vars(Next)
=============================================================================
