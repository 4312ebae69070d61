---------------------------- MODULE EvidenceTrace ----------------------------
(***************************************************************************)
(* verify_evidence_bundle for an ario.anchor.trace/v1 bundle               *)
(* (src/ario_proof/evidence.py): wrapper gates, wrapper signature, the     *)
(* checkpoint loop, the event loop, the optional per-gateway re-fetch, the *)
(* rollup, and the exit code.  One action per gate, loop iteration or      *)
(* fetch; the answers of gateways are whatever the network delivers.       *)
(*                                                                         *)
(* A bundle is a record                                                    *)
(*   defects       the wrapper checks it fails, a subset of Defects        *)
(*   body_type     "trace", or another type: "other", or "marked" when the *)
(*                 unknown type's text contains an exit-3 marker           *)
(*   asserted      the producer's verdict.status, or Absent                *)
(*   checkpoints   sequence of [tx_id, envelope, record, merkle_root]      *)
(*   events        sequence of [envelope, record, inclusion, content]      *)
(* tx_id is Absent when it is not a string.  A record is what record_bytes *)
(* decodes to, Absent when it is missing or not hex (both leave None       *)
(* behind).  inclusion is Absent or [tx_id, leaf, reaches]: the claimed    *)
(* leaf hash and the root its index, count and path reconstruct from it.   *)
(* InclusionWalk proves what `reaches' can be: a root that commits to leaf.*)
(***************************************************************************)
EXTENDS Envelope, Naturals, Sequences

CONSTANTS
  Bundles,        \* the bundles presented
  GatewayLists,   \* the gateway lists a caller passes; <<>> is offline
  Contents,       \* the `content' side inputs: functions on event ids
  Replies,        \* what a dishonest or stale gateway may return
  NoAnswer,       \* the fetch raised or returned None
  (* The world outside, named by the properties only.                      *)
  HonestGateways, \* gateways that return what the chain has, or nothing
  Chain(_),       \* the envelope anchored under a tx, or NoAnswer
  Commits(_)      \* the hashes a Merkle root is built from

\* JSON arrays are finite; a verdict or an on-chain outcome is no missing key.
IsList(s) == Len(s) \in Nat /\ DOMAIN s = 1 .. Len(s)

ASSUME ListsAssumption ==
  /\ \A b \in Bundles : IsList(b.checkpoints) /\ IsList(b.events)
  /\ \A gws \in GatewayLists : IsList(gws)
ASSUME AbsentAssumption == Absent \notin {"verified", "partial", "failed", "malformed"}
ASSUME OutcomeAssumption ==
  Absent \notin [rollup : {"confirm", "mismatch", "unreachable"},
                 per_gateway : Seq({"confirm", "mismatch", "unreachable"})]

\* The contract of verify_inclusion proved in InclusionWalkProofs: what leads
\* to a root is one of the hashes it commits to.
ASSUME InclusionAssumption ==
  \A b \in Bundles : \A i \in DOMAIN b.events :
    LET incl == b.events[i].inclusion
    IN incl # Absent => incl.reaches = Absent \/ incl.leaf \in Commits(incl.reaches)

\* Checks of the wrapper whose failure makes the bundle malformed, and checks
\* whose failure makes it failed.
Malforming == {"not an object", "too deep", "spec_version", "signature_alg",
               "keys", "no body_hash", "no body"}
Tampering == {"body_hash", "signature"}
Defects == Malforming \cup Tampering \cup {"no lists"}

VARIABLES
  bundle, gateways, fetchable, content,   \* the arguments; never assigned
  pc,                   \* where verify_evidence_bundle stands
  by_tx_id,             \* index in bundle.checkpoints of the entry kept per tx
  checkpoint_results,   \* the CheckpointResults, in order
  event_results,        \* the EventResults, in order
  gateway_unavailable,
  at,                   \* the re-fetch loop: position in checkpoint_results
  per_gateway,          \* ... and the outcomes of the gateways probed so far
  notes,                \* kinds of top-level error notes
  status                \* the rollup, Absent until the call returns

args == <<bundle, gateways, fetchable, content>>
loops == <<by_tx_id, checkpoint_results, event_results>>
refetching == <<at, per_gateway, gateway_unavailable>>
vars == <<args, pc, loops, refetching, notes, status>>

on_chain_checked == Len(gateways) > 0

\* A leaf hash is SHA-256(0x00 || JCS(envelope)): the envelope names it.
leaf_hash(envelope) == [leaf |-> envelope]

Init ==
  /\ bundle \in Bundles
  /\ gateways \in GatewayLists
  /\ fetchable \in BOOLEAN
  /\ content \in Contents
  /\ pc = "parse"
  /\ by_tx_id = <<>> /\ checkpoint_results = <<>> /\ event_results = <<>>
  /\ gateway_unavailable = FALSE /\ at = 1 /\ per_gateway = <<>>
  /\ notes = {}
  /\ status = Absent

Return(s, new) ==
  /\ pc' = "done"
  /\ status' = s
  /\ notes' = notes \cup new
  /\ UNCHANGED <<args, loops, refetching>>

-----------------------------------------------------------------------------
(* Steps 1 and 2: parse, wrapper signature, dispatch.                      *)

RejectMalformed ==
  /\ pc = "parse"
  /\ bundle.defects \cap Malforming # {}
  /\ Return("malformed", {"malformed"})

RejectTampered ==
  /\ pc = "parse"
  /\ bundle.defects \cap Malforming = {}
  /\ bundle.defects \cap Tampering # {}
  /\ Return("failed", {"wrapper"})

Authentic == bundle.defects \cap (Malforming \cup Tampering) = {}

\* The body cannot be re-derived: undetermined.  The note quotes body_type.
UnknownBody ==
  /\ pc = "parse"
  /\ Authentic
  /\ bundle.body_type # "trace"
  /\ Return("partial", {"body_type"} \cup
                       IF bundle.body_type = "marked" THEN {"marker"} ELSE {})

RejectLists ==
  /\ pc = "parse"
  /\ Authentic
  /\ bundle.body_type = "trace"
  /\ "no lists" \in bundle.defects
  /\ Return("malformed", {"malformed"})

EnterTrace ==
  /\ pc = "parse"
  /\ Authentic
  /\ bundle.body_type = "trace"
  /\ "no lists" \notin bundle.defects
  /\ pc' = "checkpoints"
  /\ UNCHANGED <<args, loops, refetching, notes, status>>

-----------------------------------------------------------------------------
(* The checkpoint loop.                                                    *)

EnvelopeBound(cp) ==
  /\ VerifyOk(cp.envelope, cp.record, FALSE)
  /\ payload_hash_ok(cp.envelope, cp.record) = "true"

RootBound(cp) ==
  /\ cp.record # Absent
  /\ cp.record.merkle_root # Absent
  /\ cp.record.merkle_root = cp.merkle_root

\* Mutant: a missing tx_id is registered as the empty string.
Registered_MissingTx(cp, i) ==
  LET key == IF cp.tx_id = Absent THEN "" ELSE cp.tx_id
  IN [tx \in DOMAIN by_tx_id \cup {key} |->
        IF tx = key /\ tx \notin DOMAIN by_tx_id THEN i ELSE by_tx_id[tx]]

\* Mutant: the last entry with a tx_id wins.
Registered_LastWins(cp, i) ==
  IF cp.tx_id = Absent THEN by_tx_id
  ELSE [tx \in DOMAIN by_tx_id \cup {cp.tx_id} |->
          IF tx = cp.tx_id THEN i ELSE by_tx_id[tx]]

\* The entry is registered under its tx_id unless that one is taken.
Registered(cp, i) ==
  IF cp.tx_id = Absent \/ cp.tx_id \in DOMAIN by_tx_id THEN by_tx_id
  ELSE [tx \in DOMAIN by_tx_id \cup {cp.tx_id} |->
          IF tx = cp.tx_id THEN i ELSE by_tx_id[tx]]

CheckCheckpoint ==
  LET i == Len(checkpoint_results) + 1
      cp == bundle.checkpoints[i]
  IN /\ pc = "checkpoints"
     /\ i <= Len(bundle.checkpoints)
     /\ by_tx_id' = Registered(cp, i)
     /\ checkpoint_results' = Append(checkpoint_results,
          [tx_id          |-> IF cp.tx_id = Absent THEN "" ELSE cp.tx_id,
           envelope_ok    |-> EnvelopeBound(cp),
           merkle_root_ok |-> RootBound(cp),
           on_chain       |-> Absent,
           ok             |-> EnvelopeBound(cp) /\ RootBound(cp)])
     /\ UNCHANGED <<args, pc, event_results, refetching, notes, status>>

CheckpointsDone ==
  /\ pc = "checkpoints"
  /\ Len(checkpoint_results) = Len(bundle.checkpoints)
  /\ pc' = "events"
  /\ UNCHANGED <<args, loops, refetching, notes, status>>

-----------------------------------------------------------------------------
(* The event loop.                                                         *)

CheckpointBound(ev) == ev.inclusion # Absent /\ ev.inclusion.tx_id \in DOMAIN by_tx_id

\* Mutant: without the defense in depth, any leaf of the tree will do.
InclusionOk_AnyLeaf(ev) ==
  /\ CheckpointBound(ev)
  /\ ev.inclusion.reaches = bundle.checkpoints[by_tx_id[ev.inclusion.tx_id]].merkle_root

\* The audit path must lead to the root the bound checkpoint claims, from the
\* hash of the event's own envelope.
InclusionOk(ev) ==
  /\ CheckpointBound(ev)
  /\ ev.inclusion.reaches = bundle.checkpoints[by_tx_id[ev.inclusion.tx_id]].merkle_root
  /\ ev.inclusion.leaf = leaf_hash(ev.envelope)

\* _evaluate_content: "true", "false" or "none".
Committed(ev) ==
  IF ev.record # Absent /\ ev.record.content_hash # Absent
  THEN {ev.record.content_hash}
  ELSE content_hashes(ev.envelope)

\* The bytes disclosed come from the event, else from the side input.
_evaluate_content(ev, side) ==
  LET disclosed == IF ev.content # Absent THEN ev.content ELSE side
  IN CASE ev.content # Absent /\ side # Absent /\ ev.content # side -> "false"
       [] disclosed = Absent \/ Committed(ev) = {} -> "none"
       [] OTHER -> IF Sha256(disclosed) \in Committed(ev) THEN "true" ELSE "false"

ContentOk(ev) == _evaluate_content(ev, content[ev.envelope.body])

CheckEvent ==
  LET ev == bundle.events[Len(event_results) + 1]
  IN /\ pc = "events"
     /\ Len(event_results) < Len(bundle.events)
     /\ event_results' = Append(event_results,
          [envelope_ok        |-> VerifyOk(ev.envelope, ev.record, FALSE),
           payload_binding_ok |-> payload_hash_ok(ev.envelope, ev.record),
           inclusion_ok       |-> InclusionOk(ev),
           checkpoint_bound   |-> CheckpointBound(ev),
           content_ok         |-> ContentOk(ev),
           ok                 |-> /\ VerifyOk(ev.envelope, ev.record, FALSE)
                                  /\ InclusionOk(ev)
                                  /\ CheckpointBound(ev)
                                  /\ ContentOk(ev) # "false"])
     /\ UNCHANGED <<args, pc, by_tx_id, checkpoint_results, refetching, notes, status>>

EventsDone ==
  /\ pc = "events"
  /\ Len(event_results) = Len(bundle.events)
  /\ pc' = IF on_chain_checked THEN "refetch" ELSE "rollup"
  /\ UNCHANGED <<args, loops, refetching, notes, status>>

-----------------------------------------------------------------------------
(* The optional on-chain re-fetch.                                         *)

NoFetchImplementation ==
  /\ pc = "refetch"
  /\ ~fetchable
  /\ gateway_unavailable' = TRUE
  /\ notes' = notes \cup {"no fetch"}
  /\ pc' = "rollup"
  /\ UNCHANGED <<args, loops, at, per_gateway, status>>

Refetching == pc = "refetch" /\ fetchable /\ at <= Len(checkpoint_results)

\* The entry whose envelope is compared: the one kept for the result's tx_id.
Resolves(i) == checkpoint_results[i].tx_id \in DOMAIN by_tx_id
Subject(i) == bundle.checkpoints[by_tx_id[checkpoint_results[i].tx_id]]

\* Mutant: the loop does not move past a result it skips.
SkipUnresolved_Stays ==
  /\ Refetching
  /\ ~Resolves(at)
  /\ UNCHANGED vars

SkipUnresolved ==
  /\ Refetching
  /\ ~Resolves(at)
  /\ at' = at + 1
  /\ UNCHANGED <<args, pc, loops, per_gateway, gateway_unavailable, notes, status>>

\* _probe_gateway: canonical bytes of an envelope are named by the envelope.
Outcome(cp, answer) ==
  CASE answer = NoAnswer -> "unreachable"
    [] answer # NoAnswer /\ answer = cp.envelope -> "confirm"
    [] OTHER -> "mismatch"

Fetched(gateway, tx) ==
  IF gateway \in HonestGateways THEN {NoAnswer, Chain(tx)} ELSE {NoAnswer} \cup Replies

ProbeGateway ==
  /\ Refetching
  /\ Resolves(at)
  /\ Len(per_gateway) < Len(gateways)
  /\ \E answer \in Fetched(gateways[Len(per_gateway) + 1], Subject(at).tx_id) :
       per_gateway' = Append(per_gateway, Outcome(Subject(at), answer))
  /\ UNCHANGED <<args, pc, loops, at, gateway_unavailable, notes, status>>

\* _rollup_on_chain: worst finding wins, then best evidence.
Some(outcomes, o) == \E g \in 1 .. Len(outcomes) : outcomes[g] = o

\* Mutant: best evidence wins over the worst finding.
Rollup_ConfirmFirst(outcomes) ==
  CASE Some(outcomes, "confirm") -> "confirm"
    [] ~Some(outcomes, "confirm") /\ Some(outcomes, "mismatch") -> "mismatch"
    [] OTHER -> "unreachable"

Rollup(outcomes) ==
  CASE Some(outcomes, "mismatch") -> "mismatch"
    [] ~Some(outcomes, "mismatch") /\ Some(outcomes, "confirm") -> "confirm"
    [] OTHER -> "unreachable"

\* Mutant: ok is taken from the re-fetch alone.
FinishCheckpoint_OkFromChain ==
  /\ Refetching
  /\ Resolves(at)
  /\ Len(per_gateway) = Len(gateways)
  /\ checkpoint_results' = [checkpoint_results EXCEPT
       ![at].on_chain = [rollup |-> Rollup(per_gateway), per_gateway |-> per_gateway],
       ![at].ok = (Rollup(per_gateway) # "mismatch")]
  /\ gateway_unavailable' = (gateway_unavailable \/ Rollup(per_gateway) = "unreachable")
  /\ at' = at + 1
  /\ per_gateway' = <<>>
  /\ UNCHANGED <<args, pc, by_tx_id, event_results, notes, status>>

FinishCheckpoint ==
  /\ Refetching
  /\ Resolves(at)
  /\ Len(per_gateway) = Len(gateways)
  /\ checkpoint_results' = [checkpoint_results EXCEPT
       ![at].on_chain = [rollup |-> Rollup(per_gateway), per_gateway |-> per_gateway],
       ![at].ok = /\ checkpoint_results[at].envelope_ok
                  /\ checkpoint_results[at].merkle_root_ok
                  /\ Rollup(per_gateway) # "mismatch"]
  /\ gateway_unavailable' = (gateway_unavailable \/ Rollup(per_gateway) = "unreachable")
  /\ at' = at + 1
  /\ per_gateway' = <<>>
  /\ UNCHANGED <<args, pc, by_tx_id, event_results, notes, status>>

RefetchDone ==
  /\ pc = "refetch"
  /\ fetchable
  /\ at > Len(checkpoint_results)
  /\ pc' = "rollup"
  /\ UNCHANGED <<args, loops, refetching, notes, status>>

-----------------------------------------------------------------------------
(* The rollup and the exit code.                                           *)

HardFailure ==
  \/ \E i \in DOMAIN checkpoint_results : ~checkpoint_results[i].ok
  \/ \E i \in DOMAIN event_results : ~event_results[i].ok

WithheldRecord ==
  \E i \in DOMAIN event_results : event_results[i].payload_binding_ok = "none"

RollupFailed ==
  /\ pc = "rollup"
  /\ HardFailure
  /\ Return("failed", {})

\* Mutant: the note that makes the exit code 3 is missing.
RollupUnavailable_NoNote ==
  /\ pc = "rollup"
  /\ ~HardFailure
  /\ gateway_unavailable
  /\ Return("partial", {})

RollupUnavailable ==
  /\ pc = "rollup"
  /\ ~HardFailure
  /\ gateway_unavailable
  /\ Return("partial", {"could not be re-fetched"})

RollupVerified ==
  /\ pc = "rollup"
  /\ ~HardFailure /\ ~gateway_unavailable /\ ~WithheldRecord
  /\ Len(checkpoint_results) > 0
  /\ Return("verified", {})

\* A withheld record, or nothing to verify against.
RollupUndetermined ==
  /\ pc = "rollup"
  /\ ~HardFailure /\ ~gateway_unavailable
  /\ WithheldRecord \/ Len(checkpoint_results) = 0
  /\ Return("partial", {})

Next ==
  \/ RejectMalformed \/ RejectTampered \/ UnknownBody \/ RejectLists \/ EnterTrace
  \/ CheckCheckpoint \/ CheckpointsDone
  \/ CheckEvent \/ EventsDone
  \/ NoFetchImplementation \/ SkipUnresolved \/ ProbeGateway \/ FinishCheckpoint
  \/ RefetchDone
  \/ RollupFailed \/ RollupUnavailable \/ RollupVerified \/ RollupUndetermined

Spec == Init /\ [][Next]_vars /\ WF_vars(Next)

\* The notes _UNDETERMINED_MARKERS recognises in the error texts.
UndeterminedMarkers == {"could not be re-fetched", "unavailable offline", "marker"}

ExitCode(s, texts) ==
  CASE s = "failed" -> 1
    [] s = "malformed" -> 2
    [] s = "partial" /\ texts \cap UndeterminedMarkers # {} -> 3
    [] OTHER -> 0

exit_code == ExitCode(status, notes)

-----------------------------------------------------------------------------
Results == {"verified", "partial", "failed", "malformed"}
TriState == {"true", "false", "none"}
Outcomes == {"confirm", "mismatch", "unreachable"}

TypeOK ==
  /\ pc \in {"parse", "checkpoints", "events", "refetch", "rollup", "done"}
  /\ DOMAIN by_tx_id \subseteq {bundle.checkpoints[i].tx_id : i \in DOMAIN checkpoint_results}
  /\ \A tx \in DOMAIN by_tx_id : by_tx_id[tx] \in DOMAIN checkpoint_results
  /\ \A i \in DOMAIN checkpoint_results :
       /\ checkpoint_results[i].ok \in BOOLEAN
       /\ checkpoint_results[i].on_chain = Absent
          \/ checkpoint_results[i].on_chain.rollup \in Outcomes
  /\ \A i \in DOMAIN event_results :
       /\ event_results[i].payload_binding_ok \in TriState
       /\ event_results[i].content_ok \in TriState
  /\ gateway_unavailable \in BOOLEAN
  /\ at \in 1 .. Len(checkpoint_results) + 1
  /\ Len(per_gateway) <= Len(gateways)
  /\ status \in Results \cup {Absent}
  /\ status # Absent <=> pc = "done"

(***************************************************************************)
(* What "verified" promises about every event of the trace, in terms of    *)
(* the bundle alone: somebody signed the event, its record is the one      *)
(* signed for, and some checkpoint of the bundle with the tx the event     *)
(* names was signed over a record whose root commits to this event.        *)
(***************************************************************************)
CommittedIn(cp, ev) ==
  /\ signature_ok(cp.envelope)
  /\ cp.envelope.payload_hash = Sha256(cp.record)
  /\ leaf_hash(ev.envelope) \in Commits(cp.record.merkle_root)

EventAnchored(ev) ==
  /\ signature_ok(ev.envelope)
  /\ ev.record # Absent => ev.envelope.payload_hash = Sha256(ev.record)
  /\ ev.record = Absent => InlineBinds(ev.envelope)
  /\ \E i \in DOMAIN bundle.checkpoints :
       /\ bundle.checkpoints[i].tx_id = ev.inclusion.tx_id
       /\ CommittedIn(bundle.checkpoints[i], ev)

VerifiedMeansAnchored ==
  status = "verified" =>
    \A i \in DOMAIN bundle.events : EventAnchored(bundle.events[i])

(***************************************************************************)
(* The re-fetch against gateways of which some are honest (they deliver    *)
(* what Chain has under the tx, or nothing): when an honest gateway        *)
(* answered for every checkpoint an event relies on, "verified" means the  *)
(* chain has that checkpoint's envelope, whatever the other gateways said. *)
(***************************************************************************)
HonestlyAnswered(i) ==
  \E g \in DOMAIN gateways :
     /\ gateways[g] \in HonestGateways
     /\ checkpoint_results[i].on_chain.per_gateway[g] # "unreachable"

HonestGatewayDecides ==
  (status = "verified" /\ bundle.body_type = "trace" /\ on_chain_checked) =>
    \A e \in DOMAIN bundle.events :
      LET i == by_tx_id[bundle.events[e].inclusion.tx_id]
          cp == bundle.checkpoints[i]
      IN HonestlyAnswered(i) => Chain(cp.tx_id) = cp.envelope

(***************************************************************************)
(* No step takes a finding back: a checkpoint once found not ok stays so,  *)
(* whatever the re-fetch adds to its result, and the results of events and *)
(* the registrations in by_tx_id stay as they are.                         *)
(***************************************************************************)
FindingsStand ==
  [][/\ \A i \in DOMAIN checkpoint_results :
          ~checkpoint_results[i].ok => ~checkpoint_results'[i].ok
     /\ \A i \in DOMAIN event_results : event_results'[i] = event_results[i]
     /\ \A tx \in DOMAIN by_tx_id : by_tx_id'[tx] = by_tx_id[tx]]_vars

(***************************************************************************)
(* exit_code 0 hides nothing: no finding among the results, and, when      *)
(* gateways were supplied, every checkpoint an event relies on was         *)
(* confirmed by one of them.                                               *)
(***************************************************************************)
ExitZeroHidesNothing ==
  (pc = "done" /\ exit_code = 0) =>
    /\ ~HardFailure
    /\ (bundle.body_type = "trace" /\ on_chain_checked) =>
         \A e \in DOMAIN event_results :
           LET found == checkpoint_results[by_tx_id[bundle.events[e].inclusion.tx_id]].on_chain
           IN found # Absent /\ found.rollup = "confirm"

\* Every call returns, whatever the bundle and however the gateways answer.
Returns == <>(pc = "done")
=============================================================================
