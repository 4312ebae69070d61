------------------------- MODULE EvidenceTraceProofs -------------------------
(***************************************************************************)
(* Proofs about EvidenceTrace for bundles, gateway lists and side inputs   *)
(* of any size: the types, what a verified trace promises, and, of the     *)
(* re-fetch, what exit code 0 says of the chain and what one honest        *)
(* gateway settles.                                                        *)
(***************************************************************************)
EXTENDS EvidenceTrace, TLAPS

\* A result's tx_id is that of some entry, or the empty string.
TxIds == {""} \cup {bundle.checkpoints[i].tx_id : i \in DOMAIN bundle.checkpoints}

OnChainResults == [rollup : Outcomes, per_gateway : Seq(Outcomes)]

CheckpointResults ==
  [tx_id : TxIds, envelope_ok : BOOLEAN, merkle_root_ok : BOOLEAN,
   on_chain : OnChainResults \cup {Absent}, ok : BOOLEAN]

EventResults ==
  [envelope_ok : BOOLEAN, payload_binding_ok : TriState, inclusion_ok : BOOLEAN,
   checkpoint_bound : BOOLEAN, content_ok : TriState, ok : BOOLEAN]

TypeInv ==
  /\ bundle \in Bundles /\ IsList(gateways)
  /\ pc \in {"parse", "checkpoints", "events", "refetch", "rollup", "done"}
  /\ checkpoint_results \in Seq(CheckpointResults)
  /\ event_results \in Seq(EventResults)
  /\ gateway_unavailable \in BOOLEAN
  /\ at \in 1 .. Len(checkpoint_results) + 1
  /\ per_gateway \in Seq(Outcomes) /\ Len(per_gateway) <= Len(gateways)
  /\ status \in Results \cup {Absent}
  /\ status # Absent <=> pc = "done"

\* How far the loops are.
ProgressInv ==
  /\ Len(checkpoint_results) <= Len(bundle.checkpoints)
  /\ Len(event_results) <= Len(bundle.events)
  /\ pc \in {"parse", "checkpoints"} => event_results = <<>>
  /\ pc \in {"events", "refetch", "rollup"} =>
       Len(checkpoint_results) = Len(bundle.checkpoints)
  /\ pc \in {"refetch", "rollup"} => Len(event_results) = Len(bundle.events)

\* by_tx_id names checked entries, under their own tx_id.
RegisteredInv ==
  \A tx \in DOMAIN by_tx_id :
    /\ by_tx_id[tx] \in 1 .. Len(checkpoint_results)
    /\ bundle.checkpoints[by_tx_id[tx]].tx_id = tx

\* A result says of its entry what the checks found.
CheckpointInv ==
  \A i \in 1 .. Len(checkpoint_results) :
    /\ checkpoint_results[i].envelope_ok => EnvelopeBound(bundle.checkpoints[i])
    /\ checkpoint_results[i].merkle_root_ok => RootBound(bundle.checkpoints[i])
    /\ checkpoint_results[i].ok =>
         checkpoint_results[i].envelope_ok /\ checkpoint_results[i].merkle_root_ok

EventFound(i) ==
  /\ VerifyOk(bundle.events[i].envelope, bundle.events[i].record, FALSE)
  /\ InclusionOk(bundle.events[i])

EventInv ==
  \A i \in 1 .. Len(event_results) :
    /\ event_results[i].payload_binding_ok =
         payload_hash_ok(bundle.events[i].envelope, bundle.events[i].record)
    /\ event_results[i].ok => EventFound(i)

\* "verified" is returned over a complete trace without findings.
VerdictInv ==
  status = "verified" =>
    /\ Len(checkpoint_results) = Len(bundle.checkpoints)
    /\ Len(event_results) = Len(bundle.events)
    /\ ~HardFailure /\ ~WithheldRecord

IInv ==
  /\ TypeInv /\ ProgressInv /\ RegisteredInv
  /\ CheckpointInv /\ EventInv /\ VerdictInv

-----------------------------------------------------------------------------
\* A payload check says true, false or nothing.
LEMMA PayloadTriState ==
  ASSUME NEW env, NEW bytes
  PROVE  payload_hash_ok(env, bytes) \in TriState
  BY DEF payload_hash_ok, TriState

\* So does a content binding.
LEMMA ContentTriState ==
  ASSUME NEW ev
  PROVE  ContentOk(ev) \in TriState
  BY DEF ContentOk, _evaluate_content, TriState

\* What the gateways say together is one of the three outcomes.
LEMMA RollupOutcome ==
  ASSUME NEW outcomes
  PROVE  Rollup(outcomes) \in Outcomes
  BY DEF Rollup, Outcomes

\* What an event step found stays found while the bundle and by_tx_id do.
LEMMA EventFoundStable ==
  ASSUME bundle' = bundle, by_tx_id' = by_tx_id, NEW i
  PROVE  EventFound(i)' <=> EventFound(i)
  BY DEF EventFound, InclusionOk, CheckpointBound

\* What an entry deserves depends on the bundle only.
LEMMA CheckpointFoundStable ==
  ASSUME bundle' = bundle, NEW i
  PROVE  /\ EnvelopeBound(bundle.checkpoints[i])' <=> EnvelopeBound(bundle.checkpoints[i])
         /\ RootBound(bundle.checkpoints[i])' <=> RootBound(bundle.checkpoints[i])
  BY DEF EnvelopeBound, RootBound

\* The lists of a bundle are finite sequences.
LEMMA ListsOfBundle ==
  ASSUME bundle \in Bundles
  PROVE  /\ Len(bundle.checkpoints) \in Nat
         /\ DOMAIN bundle.checkpoints = 1 .. Len(bundle.checkpoints)
         /\ Len(bundle.events) \in Nat
         /\ DOMAIN bundle.events = 1 .. Len(bundle.events)
  BY ListsAssumption DEF IsList

-----------------------------------------------------------------------------
\* The call starts: its arguments are there, its locals are new.
Fresh ==
  /\ bundle \in Bundles /\ IsList(gateways)
  /\ pc = "parse"
  /\ by_tx_id = <<>> /\ checkpoint_results = <<>> /\ event_results = <<>>
  /\ gateway_unavailable = FALSE /\ at = 1 /\ per_gateway = <<>>
  /\ notes = {}
  /\ status = Absent

LEMMA InitFresh == Init => Fresh
BY ListsAssumption DEF Init, Fresh

\* It starts with nothing found.
LEMMA FreshInv == Fresh => IInv
<1> SUFFICES ASSUME Fresh PROVE IInv
  OBVIOUS
<1>1. /\ checkpoint_results = <<>> /\ event_results = <<>> /\ per_gateway = <<>>
      /\ by_tx_id = <<>> /\ status = Absent /\ pc = "parse" /\ at = 1
      /\ bundle \in Bundles /\ IsList(gateways) /\ gateway_unavailable = FALSE
  BY DEF Fresh
<1>2. Len(gateways) \in Nat
  BY <1>1 DEF IsList
<1>3. TypeInv
  <2>1. /\ checkpoint_results \in Seq(CheckpointResults) /\ event_results \in Seq(EventResults)
        /\ per_gateway \in Seq(Outcomes)
        /\ Len(checkpoint_results) = 0 /\ Len(per_gateway) = 0
    BY <1>1
  <2>2. at \in 1 .. Len(checkpoint_results) + 1 /\ Len(per_gateway) <= Len(gateways)
    BY <1>1, <1>2, <2>1, ListsAssumption DEF IsList
  <2>3. pc \in {"parse", "checkpoints", "events", "refetch", "rollup", "done"}
    BY <1>1
  <2>4. status \in Results \cup {Absent} /\ (status # Absent <=> pc = "done")
    BY <1>1
  <2> QED BY <1>1, <2>1, <2>2, <2>3, <2>4 DEF TypeInv
<1>4. ProgressInv
  BY <1>1, ListsOfBundle DEF ProgressInv
<1>5. RegisteredInv /\ CheckpointInv /\ EventInv
  BY <1>1 DEF RegisteredInv, CheckpointInv, EventInv
<1>6. VerdictInv
  BY <1>1, AbsentAssumption DEF VerdictInv
<1> QED BY <1>3, <1>4, <1>5, <1>6 DEF IInv

\* Steps that leave bundle and loops alone only move pc, at, per_gateway or
\* gateway_unavailable.
LEMMA LoopsUnchanged ==
  ASSUME IInv, UNCHANGED <<args, loops>>
  PROVE  RegisteredInv' /\ CheckpointInv' /\ EventInv'
<1>1. /\ bundle' = bundle /\ by_tx_id' = by_tx_id
      /\ checkpoint_results' = checkpoint_results /\ event_results' = event_results
  BY DEF args, loops
<1>2. RegisteredInv'
  BY <1>1 DEF IInv, RegisteredInv
<1>3. CheckpointInv'
  BY <1>1, CheckpointFoundStable DEF IInv, CheckpointInv
<1>4. EventInv'
  BY <1>1, EventFoundStable DEF IInv, EventInv
<1> QED BY <1>2, <1>3, <1>4

\* A return keeps what was found; "verified" needs a complete, clean trace.
LEMMA ReturnInv ==
  ASSUME IInv, NEW s \in Results, NEW new, Return(s, new),
         s = "verified" =>
           /\ Len(checkpoint_results) = Len(bundle.checkpoints)
           /\ Len(event_results) = Len(bundle.events)
           /\ ~HardFailure /\ ~WithheldRecord
  PROVE  IInv'
<1>1. UNCHANGED <<args, loops, refetching>> /\ pc' = "done" /\ status' = s
  BY DEF Return
<1>2. TypeInv'
  BY <1>1, AbsentAssumption
  DEF IInv, TypeInv, args, loops, refetching, Results, CheckpointResults, TxIds
<1>3. ProgressInv'
  BY <1>1 DEF IInv, ProgressInv, args, loops
<1>4. VerdictInv'
  BY <1>1 DEF VerdictInv, HardFailure, WithheldRecord, args, loops
<1> QED BY <1>1, <1>2, <1>3, <1>4, LoopsUnchanged DEF IInv

\* A loop moves on or is entered, or a gateway answers: nothing is found.
LEMMA ControlInv ==
  ASSUME IInv, UNCHANGED <<args, loops, status>>, pc # "done",
         pc' \in {"checkpoints", "events", "refetch", "rollup"},
         gateway_unavailable' \in BOOLEAN,
         at' \in 1 .. Len(checkpoint_results) + 1,
         per_gateway' \in Seq(Outcomes), Len(per_gateway') <= Len(gateways),
         pc' = "checkpoints" => event_results = <<>>,
         pc' \in {"events", "refetch", "rollup"} =>
           Len(checkpoint_results) = Len(bundle.checkpoints),
         pc' \in {"refetch", "rollup"} => Len(event_results) = Len(bundle.events)
  PROVE  IInv'
<1>1. /\ bundle' = bundle /\ gateways' = gateways /\ status' = status
      /\ checkpoint_results' = checkpoint_results /\ event_results' = event_results
  BY DEF args, loops
<1>2. TypeInv'
  <2>1. checkpoint_results' \in Seq(CheckpointResults)'
    BY <1>1 DEF IInv, TypeInv, CheckpointResults, TxIds
  <2> QED BY <1>1, <2>1 DEF IInv, TypeInv
<1>3. ProgressInv'
  BY <1>1 DEF IInv, ProgressInv
<1>4. VerdictInv'
  <2>1. status = Absent
    BY DEF IInv, TypeInv
  <2> QED BY <1>1, <2>1, AbsentAssumption DEF VerdictInv
<1> QED BY <1>2, <1>3, <1>4, LoopsUnchanged DEF IInv

\* One iteration of the checkpoint loop.
LEMMA CheckCheckpointInv ==
  ASSUME IInv, CheckCheckpoint
  PROVE  IInv'
<1> DEFINE n == Len(checkpoint_results) + 1
           cp == bundle.checkpoints[n]
           found == [tx_id          |-> IF cp.tx_id = Absent THEN "" ELSE cp.tx_id,
                     envelope_ok    |-> EnvelopeBound(cp),
                     merkle_root_ok |-> RootBound(cp),
                     on_chain       |-> Absent,
                     ok             |-> EnvelopeBound(cp) /\ RootBound(cp)]
<1>1. /\ pc = "checkpoints" /\ n <= Len(bundle.checkpoints)
      /\ by_tx_id' = Registered(cp, n)
      /\ checkpoint_results' = Append(checkpoint_results, found)
      /\ UNCHANGED <<args, pc, event_results, refetching, notes, status>>
  BY DEF CheckCheckpoint
<1>2. /\ checkpoint_results \in Seq(CheckpointResults) /\ bundle \in Bundles
      /\ Len(checkpoint_results) \in Nat
  BY DEF IInv, TypeInv
<1>3. n \in DOMAIN bundle.checkpoints
  <2>1. n <= Len(bundle.checkpoints)
    BY DEF CheckCheckpoint
  <2>2. n \in Nat /\ n >= 1
    BY <1>2
  <2> HIDE DEF n
  <2> QED BY <1>2, <2>1, <2>2, ListsOfBundle
<1>4. found \in CheckpointResults
  <2>1. found.tx_id \in TxIds
    BY <1>3 DEF TxIds
  <2>2. EnvelopeBound(cp) \in BOOLEAN /\ RootBound(cp) \in BOOLEAN
    BY DEF EnvelopeBound, RootBound
  <2> HIDE DEF cp
  <2> QED BY <2>1, <2>2 DEF CheckpointResults
<1>4a. /\ found.envelope_ok <=> EnvelopeBound(cp)
       /\ found.merkle_root_ok <=> RootBound(cp)
       /\ found.ok <=> EnvelopeBound(cp) /\ RootBound(cp)
  OBVIOUS
<1> HIDE DEF found
<1>5. /\ bundle' = bundle /\ gateways' = gateways /\ event_results' = event_results
      /\ pc' = pc /\ status' = status /\ at' = at /\ per_gateway' = per_gateway
      /\ gateway_unavailable' = gateway_unavailable
  BY <1>1 DEF args, refetching
<1>6. /\ checkpoint_results' \in Seq(CheckpointResults)
      /\ Len(checkpoint_results') = n
      /\ checkpoint_results'[n] = found
      /\ \A i \in 1 .. Len(checkpoint_results) : checkpoint_results'[i] = checkpoint_results[i]
  BY <1>1, <1>2, <1>4
<1>7. TypeInv'
  <2>1. checkpoint_results' \in Seq(CheckpointResults)'
    BY <1>5, <1>6 DEF CheckpointResults, TxIds
  <2>2. at' \in 1 .. Len(checkpoint_results') + 1
    BY <1>2, <1>5, <1>6 DEF IInv, TypeInv
  <2> QED BY <1>5, <2>1, <2>2 DEF IInv, TypeInv
<1>8. ProgressInv'
  BY <1>1, <1>5, <1>6 DEF IInv, ProgressInv
<1>9. RegisteredInv'
  <2>1. \A tx \in DOMAIN by_tx_id' :
          \/ tx \in DOMAIN by_tx_id /\ by_tx_id'[tx] = by_tx_id[tx]
          \/ tx = cp.tx_id /\ by_tx_id'[tx] = n
    BY <1>1 DEF Registered
  <2> QED BY <1>2, <1>5, <1>6, <2>1 DEF IInv, RegisteredInv
<1>10. CheckpointInv'
  <2> SUFFICES ASSUME NEW i \in 1 .. Len(checkpoint_results')
               PROVE  /\ checkpoint_results'[i].envelope_ok => EnvelopeBound(bundle.checkpoints[i])
                      /\ checkpoint_results'[i].merkle_root_ok => RootBound(bundle.checkpoints[i])
                      /\ checkpoint_results'[i].ok =>
                           /\ checkpoint_results'[i].envelope_ok
                           /\ checkpoint_results'[i].merkle_root_ok
    BY <1>5, CheckpointFoundStable DEF CheckpointInv
  <2>1. CASE i = n
    BY <1>4a, <1>6, <2>1
  <2>2. CASE i # n
    BY <1>2, <1>6, <2>2 DEF IInv, CheckpointInv
  <2> QED BY <2>1, <2>2
<1>11. EventInv'
  BY <1>1, <1>5 DEF IInv, ProgressInv, EventInv
<1>12. VerdictInv'
  BY <1>1, <1>5, AbsentAssumption DEF IInv, TypeInv, VerdictInv
<1> QED BY <1>7, <1>8, <1>9, <1>10, <1>11, <1>12 DEF IInv

\* One iteration of the event loop.
LEMMA CheckEventInv ==
  ASSUME IInv, CheckEvent
  PROVE  IInv'
<1> DEFINE n == Len(event_results) + 1
           ev == bundle.events[n]
           found == [envelope_ok        |-> VerifyOk(ev.envelope, ev.record, FALSE),
                     payload_binding_ok |-> payload_hash_ok(ev.envelope, ev.record),
                     inclusion_ok       |-> InclusionOk(ev),
                     checkpoint_bound   |-> CheckpointBound(ev),
                     content_ok         |-> ContentOk(ev),
                     ok                 |-> /\ VerifyOk(ev.envelope, ev.record, FALSE)
                                            /\ InclusionOk(ev)
                                            /\ CheckpointBound(ev)
                                            /\ ContentOk(ev) # "false"]
<1>1. /\ pc = "events"
      /\ event_results' = Append(event_results, found)
      /\ UNCHANGED <<args, pc, by_tx_id, checkpoint_results, refetching, notes, status>>
  BY DEF CheckEvent
<1>2. n <= Len(bundle.events)
  <2>1. /\ Len(event_results) \in Nat /\ Len(bundle.events) \in Nat
        /\ Len(event_results) < Len(bundle.events)
    BY ListsOfBundle DEF IInv, TypeInv, CheckEvent
  <2> QED BY <2>1
<1>3. found \in EventResults
  <2>1. /\ VerifyOk(ev.envelope, ev.record, FALSE) \in BOOLEAN
        /\ InclusionOk(ev) \in BOOLEAN /\ CheckpointBound(ev) \in BOOLEAN
    BY DEF VerifyOk, InclusionOk, CheckpointBound
  <2> HIDE DEF ev
  <2> QED BY <2>1, PayloadTriState, ContentTriState DEF EventResults
<1>4. /\ found.payload_binding_ok = payload_hash_ok(ev.envelope, ev.record)
      /\ found.ok => VerifyOk(ev.envelope, ev.record, FALSE) /\ InclusionOk(ev)
  OBVIOUS
<1> HIDE DEF found
<1>5. /\ bundle' = bundle /\ gateways' = gateways /\ by_tx_id' = by_tx_id
      /\ checkpoint_results' = checkpoint_results
      /\ pc' = pc /\ status' = status /\ at' = at /\ per_gateway' = per_gateway
      /\ gateway_unavailable' = gateway_unavailable
  BY <1>1 DEF args, refetching
<1>6. /\ event_results \in Seq(EventResults) /\ Len(event_results) \in Nat
      /\ event_results' \in Seq(EventResults)
      /\ Len(event_results') = n
      /\ event_results'[n] = found
      /\ \A i \in 1 .. Len(event_results) : event_results'[i] = event_results[i]
  BY <1>1, <1>3 DEF IInv, TypeInv
<1>7. TypeInv'
  <2>1. checkpoint_results' \in Seq(CheckpointResults)'
    BY <1>5 DEF IInv, TypeInv, CheckpointResults, TxIds
  <2> QED BY <1>5, <1>6, <2>1 DEF IInv, TypeInv
<1>8. ProgressInv'
  BY <1>1, <1>2, <1>5, <1>6 DEF IInv, ProgressInv
<1>9. RegisteredInv'
  BY <1>5 DEF IInv, RegisteredInv
<1>10. CheckpointInv'
  BY <1>5, CheckpointFoundStable DEF IInv, CheckpointInv
<1>11. EventInv'
  <2> SUFFICES ASSUME NEW i \in 1 .. Len(event_results')
               PROVE  /\ event_results'[i].payload_binding_ok =
                           payload_hash_ok(bundle.events[i].envelope, bundle.events[i].record)
                      /\ event_results'[i].ok => EventFound(i)
    BY <1>5, EventFoundStable DEF EventInv
  <2>1. CASE i = n
    BY <1>4, <1>6, <2>1 DEF EventFound
  <2>2. CASE i # n
    <3>1. i \in 1 .. Len(event_results)
      BY <1>6, <2>2
    <3> QED BY <1>6, <3>1 DEF IInv, EventInv
  <2> QED BY <2>1, <2>2
<1>12. VerdictInv'
  BY <1>1, <1>5, AbsentAssumption DEF IInv, TypeInv, VerdictInv
<1> QED BY <1>7, <1>8, <1>9, <1>10, <1>11, <1>12 DEF IInv

\* The outcome of the re-fetch of one checkpoint is filled in.
LEMMA FinishCheckpointInv ==
  ASSUME IInv, FinishCheckpoint
  PROVE  IInv'
<1> DEFINE old == checkpoint_results[at]
           oc == [rollup |-> Rollup(per_gateway), per_gateway |-> per_gateway]
           sound == /\ old.envelope_ok /\ old.merkle_root_ok
                    /\ Rollup(per_gateway) # "mismatch"
           new == [old EXCEPT !.on_chain = oc, !.ok = sound]
<1>1. /\ pc = "refetch" /\ at <= Len(checkpoint_results)
      /\ UNCHANGED <<args, pc, by_tx_id, event_results, notes, status>>
      /\ at' = at + 1 /\ per_gateway' = <<>>
      /\ gateway_unavailable' = (gateway_unavailable \/ Rollup(per_gateway) = "unreachable")
      /\ checkpoint_results' = [checkpoint_results EXCEPT ![at].on_chain = oc, ![at].ok = sound]
  BY DEF FinishCheckpoint, Refetching
<1>2. /\ bundle' = bundle /\ gateways' = gateways /\ by_tx_id' = by_tx_id
      /\ event_results' = event_results /\ pc' = pc /\ status' = status
  BY <1>1 DEF args
<1>3. /\ checkpoint_results \in Seq(CheckpointResults) /\ Len(checkpoint_results) \in Nat
      /\ at \in 1 .. Len(checkpoint_results) /\ per_gateway \in Seq(Outcomes)
      /\ old \in CheckpointResults
  BY <1>1 DEF IInv, TypeInv
<1>4. oc \in OnChainResults
  BY <1>3, RollupOutcome DEF OnChainResults
<1>5. /\ new \in CheckpointResults
      /\ new.envelope_ok = old.envelope_ok /\ new.merkle_root_ok = old.merkle_root_ok
      /\ new.ok => old.envelope_ok /\ old.merkle_root_ok
  <2>1. sound \in BOOLEAN /\ (sound => old.envelope_ok /\ old.merkle_root_ok)
    OBVIOUS
  <2> HIDE DEF old, oc, sound
  <2> QED BY <1>3, <1>4, <2>1 DEF CheckpointResults
<1>6. checkpoint_results' = [checkpoint_results EXCEPT ![at] = new]
  BY <1>1, <1>3
<1> HIDE DEF old, oc, sound, new
<1>7. /\ checkpoint_results' \in Seq(CheckpointResults)
      /\ Len(checkpoint_results') = Len(checkpoint_results)
      /\ checkpoint_results'[at] = new
      /\ \A i \in 1 .. Len(checkpoint_results) :
           i # at => checkpoint_results'[i] = checkpoint_results[i]
  BY <1>3, <1>5, <1>6
<1>8. TypeInv'
  <2>1. checkpoint_results' \in Seq(CheckpointResults)'
    BY <1>2, <1>7 DEF CheckpointResults, TxIds
  <2>2. at' \in 1 .. Len(checkpoint_results') + 1
    BY <1>1, <1>3, <1>7
  <2>3. per_gateway' \in Seq(Outcomes) /\ Len(per_gateway') <= Len(gateways')
    <3>1. Len(gateways) \in Nat
      BY ListsAssumption DEF IInv, TypeInv, IsList
    <3> QED BY <1>1, <1>2, <3>1
  <2>4. gateway_unavailable' \in BOOLEAN
    BY <1>1
  <2> QED BY <1>2, <2>1, <2>2, <2>3, <2>4 DEF IInv, TypeInv
<1>9. ProgressInv'
  BY <1>2, <1>7 DEF IInv, ProgressInv
<1>10. RegisteredInv'
  BY <1>2, <1>7 DEF IInv, RegisteredInv
<1>11. CheckpointInv'
  <2> SUFFICES ASSUME NEW i \in 1 .. Len(checkpoint_results)
               PROVE  /\ checkpoint_results'[i].envelope_ok => EnvelopeBound(bundle.checkpoints[i])
                      /\ checkpoint_results'[i].merkle_root_ok => RootBound(bundle.checkpoints[i])
                      /\ checkpoint_results'[i].ok =>
                           /\ checkpoint_results'[i].envelope_ok
                           /\ checkpoint_results'[i].merkle_root_ok
    BY <1>2, <1>7, CheckpointFoundStable DEF CheckpointInv
  <2>1. /\ checkpoint_results[i].envelope_ok => EnvelopeBound(bundle.checkpoints[i])
        /\ checkpoint_results[i].merkle_root_ok => RootBound(bundle.checkpoints[i])
        /\ checkpoint_results[i].ok =>
             checkpoint_results[i].envelope_ok /\ checkpoint_results[i].merkle_root_ok
    BY DEF IInv, CheckpointInv
  <2>2. CASE i = at
    BY <1>5, <1>7, <2>1, <2>2 DEF old
  <2>3. CASE i # at
    BY <1>7, <2>1, <2>3
  <2> QED BY <2>2, <2>3
<1>12. EventInv'
  BY <1>2, EventFoundStable DEF IInv, EventInv
<1>13. VerdictInv'
  BY <1>1, <1>2, AbsentAssumption DEF IInv, TypeInv, VerdictInv
<1> QED BY <1>8, <1>9, <1>10, <1>11, <1>12, <1>13 DEF IInv

\* Every step of the call preserves the invariant.
LEMMA NextInv == IInv /\ [Next]_vars => IInv'
<1> SUFFICES ASSUME IInv, [Next]_vars PROVE IInv'
  OBVIOUS
<1> USE DEF Results
<1>a. /\ Len(checkpoint_results) \in Nat /\ at \in 1 .. Len(checkpoint_results) + 1
      /\ per_gateway \in Seq(Outcomes) /\ Len(per_gateway) <= Len(gateways)
      /\ Len(gateways) \in Nat /\ gateway_unavailable \in BOOLEAN
  BY ListsAssumption DEF IInv, TypeInv, IsList
<1>b. /\ pc \in {"parse", "checkpoints"} => event_results = <<>>
      /\ pc \in {"events", "refetch", "rollup"} =>
           Len(checkpoint_results) = Len(bundle.checkpoints)
      /\ pc \in {"refetch", "rollup"} => Len(event_results) = Len(bundle.events)
  BY DEF IInv, ProgressInv
<1>1. CASE RejectMalformed
  BY <1>1, ReturnInv DEF RejectMalformed
<1>2. CASE RejectTampered
  BY <1>2, ReturnInv DEF RejectTampered
<1>3. CASE UnknownBody
  BY <1>3, ReturnInv DEF UnknownBody
<1>4. CASE RejectLists
  BY <1>4, ReturnInv DEF RejectLists
<1>5. CASE EnterTrace
  BY <1>5, <1>a, <1>b, ControlInv DEF EnterTrace, refetching
<1>6. CASE CheckCheckpoint
  BY <1>6, CheckCheckpointInv
<1>7. CASE CheckpointsDone
  BY <1>7, <1>a, <1>b, ControlInv DEF CheckpointsDone, refetching
<1>8. CASE CheckEvent
  BY <1>8, CheckEventInv
<1>9. CASE EventsDone
  BY <1>9, <1>a, <1>b, ControlInv DEF EventsDone, refetching
<1>10. CASE NoFetchImplementation
  BY <1>10, <1>a, <1>b, ControlInv DEF NoFetchImplementation
<1>11. CASE SkipUnresolved
  BY <1>11, <1>a, <1>b, ControlInv DEF SkipUnresolved, Refetching
<1>12. CASE ProbeGateway
  <2>1. PICK answer : per_gateway' = Append(per_gateway, Outcome(Subject(at), answer))
    BY <1>12 DEF ProbeGateway
  <2>2. Outcome(Subject(at), answer) \in Outcomes
    BY DEF Outcome, Outcomes
  <2>3. /\ pc = "refetch" /\ Len(per_gateway) < Len(gateways)
        /\ UNCHANGED <<args, pc, loops, at, gateway_unavailable, notes, status>>
    BY <1>12 DEF ProbeGateway, Refetching
  <2>4. per_gateway' \in Seq(Outcomes) /\ Len(per_gateway') <= Len(gateways)
    BY <1>a, <2>1, <2>2, <2>3
  <2> QED BY <1>a, <1>b, <2>3, <2>4, ControlInv
<1>13. CASE FinishCheckpoint
  BY <1>13, FinishCheckpointInv
<1>14. CASE RefetchDone
  BY <1>14, <1>a, <1>b, ControlInv DEF RefetchDone, refetching
<1>15. CASE RollupFailed
  BY <1>15, ReturnInv DEF RollupFailed
<1>16. CASE RollupUnavailable
  BY <1>16, ReturnInv DEF RollupUnavailable
<1>17. CASE RollupVerified
  BY <1>17, <1>b, ReturnInv DEF RollupVerified
<1>18. CASE RollupUndetermined
  BY <1>18, ReturnInv DEF RollupUndetermined
<1>19. CASE UNCHANGED vars
  <2>1. /\ UNCHANGED <<args, loops>> /\ pc' = pc /\ at' = at /\ per_gateway' = per_gateway
        /\ gateway_unavailable' = gateway_unavailable /\ status' = status
    BY <1>19 DEF vars, refetching
  <2>2. TypeInv'
    <3>1. checkpoint_results' \in Seq(CheckpointResults)'
      BY <2>1 DEF IInv, TypeInv, CheckpointResults, TxIds, args, loops
    <3> QED BY <2>1, <3>1 DEF IInv, TypeInv, args, loops
  <2>3. ProgressInv' /\ VerdictInv'
    BY <2>1 DEF IInv, ProgressInv, VerdictInv, HardFailure, WithheldRecord, args, loops
  <2> QED BY <2>1, <2>2, <2>3, LoopsUnchanged DEF IInv
<1> QED
  BY <1>1, <1>2, <1>3, <1>4, <1>5, <1>6, <1>7, <1>8, <1>9, <1>10, <1>11, <1>12, <1>13,
     <1>14, <1>15, <1>16, <1>17, <1>18, <1>19 DEF Next

-----------------------------------------------------------------------------
(***************************************************************************)
(* The loops of verify_evidence_bundle keep their types for bundles of any *)
(* size: results stay within the lists, by_tx_id within the results, and a *)
(* status is there exactly when the call has returned.                     *)
(***************************************************************************)
THEOREM TypeCorrect == Spec => []TypeOK
<1>1. IInv => TypeOK
  <2> SUFFICES ASSUME IInv PROVE TypeOK
    OBVIOUS
  <2>1. /\ pc \in {"parse", "checkpoints", "events", "refetch", "rollup", "done"}
        /\ gateway_unavailable \in BOOLEAN
        /\ at \in 1 .. Len(checkpoint_results) + 1
        /\ Len(per_gateway) <= Len(gateways)
        /\ status \in Results \cup {Absent}
        /\ status # Absent <=> pc = "done"
    BY DEF IInv, TypeInv
  <2>2. /\ checkpoint_results \in Seq(CheckpointResults)
        /\ DOMAIN checkpoint_results = 1 .. Len(checkpoint_results)
        /\ event_results \in Seq(EventResults)
        /\ DOMAIN event_results = 1 .. Len(event_results)
    BY DEF IInv, TypeInv
  <2>3. \A tx \in DOMAIN by_tx_id :
          /\ by_tx_id[tx] \in DOMAIN checkpoint_results
          /\ tx \in {bundle.checkpoints[i].tx_id : i \in DOMAIN checkpoint_results}
    BY <2>2 DEF IInv, RegisteredInv
  <2>4. ASSUME NEW i \in DOMAIN checkpoint_results
        PROVE  /\ checkpoint_results[i].ok \in BOOLEAN
               /\ \/ checkpoint_results[i].on_chain = Absent
                  \/ checkpoint_results[i].on_chain.rollup \in Outcomes
    <3>1. checkpoint_results[i] \in CheckpointResults
      BY <2>2
    <3> QED BY <3>1 DEF CheckpointResults, OnChainResults
  <2>5. ASSUME NEW i \in DOMAIN event_results
        PROVE  /\ event_results[i].payload_binding_ok \in TriState
               /\ event_results[i].content_ok \in TriState
    <3>1. event_results[i] \in EventResults
      BY <2>2
    <3> QED BY <3>1 DEF EventResults
  <2> QED BY <2>1, <2>3, <2>4, <2>5 DEF TypeOK
<1> QED BY <1>1, InitFresh, FreshInv, NextInv, PTL DEF Spec

\* In a complete trace without a finding, every event has the checkpoint it
\* names, and its audit path leads from its own leaf to that one's root.
LEMMA SoundEvent ==
  ASSUME IInv, NEW e \in DOMAIN bundle.events,
         Len(checkpoint_results) = Len(bundle.checkpoints),
         Len(event_results) = Len(bundle.events),
         ~HardFailure
  PROVE  LET ev == bundle.events[e]
         IN /\ EventFound(e)
            /\ leaf_hash(ev.envelope) \in Commits(ev.inclusion.reaches)
            /\ \E i \in DOMAIN bundle.checkpoints :
                 /\ bundle.checkpoints[i].tx_id = ev.inclusion.tx_id
                 /\ CommittedIn(bundle.checkpoints[i], ev)
<1> DEFINE ev == bundle.events[e]
           c == by_tx_id[ev.inclusion.tx_id]
           cp == bundle.checkpoints[c]
<1>1. /\ bundle \in Bundles
      /\ checkpoint_results \in Seq(CheckpointResults)
      /\ event_results \in Seq(EventResults)
  BY DEF IInv, TypeInv
<1>2. e \in 1 .. Len(event_results) /\ e \in DOMAIN event_results
  BY <1>1, ListsOfBundle
<1>3. event_results[e].ok
  BY <1>2 DEF HardFailure
<1>4. EventFound(e)
  BY <1>2, <1>3 DEF IInv, EventInv
<1>5. /\ ev.inclusion # Absent
      /\ ev.inclusion.tx_id \in DOMAIN by_tx_id
      /\ ev.inclusion.reaches = cp.merkle_root
      /\ ev.inclusion.leaf = leaf_hash(ev.envelope)
  BY <1>4 DEF EventFound, InclusionOk, CheckpointBound
<1>6. /\ c \in 1 .. Len(checkpoint_results) /\ c \in DOMAIN checkpoint_results
      /\ c \in DOMAIN bundle.checkpoints
      /\ cp.tx_id = ev.inclusion.tx_id
  BY <1>1, <1>5, ListsOfBundle DEF IInv, RegisteredInv
<1>7. EnvelopeBound(cp) /\ RootBound(cp)
  BY <1>6 DEF IInv, CheckpointInv, HardFailure
<1>8. signature_ok(cp.envelope) /\ cp.envelope.payload_hash = Sha256(cp.record)
  BY <1>7 DEF EnvelopeBound, RootBound, VerifyOk, payload_hash_ok
<1>9. cp.record.merkle_root = ev.inclusion.reaches /\ ev.inclusion.reaches # Absent
  BY <1>5, <1>7 DEF RootBound
<1>10. leaf_hash(ev.envelope) \in Commits(ev.inclusion.reaches)
  BY <1>1, <1>5, <1>9, InclusionAssumption
<1>11. CommittedIn(cp, ev)
  BY <1>8, <1>9, <1>10 DEF CommittedIn
<1> QED BY <1>4, <1>6, <1>10, <1>11

\* What the invariant says of a verified trace.
LEMMA VerifiedAnchored == IInv => VerifiedMeansAnchored
<1> SUFFICES ASSUME IInv, status = "verified", NEW e \in DOMAIN bundle.events
             PROVE  EventAnchored(bundle.events[e])
  BY DEF VerifiedMeansAnchored
<1> DEFINE ev == bundle.events[e]
<1>1. /\ Len(checkpoint_results) = Len(bundle.checkpoints)
      /\ Len(event_results) = Len(bundle.events)
      /\ ~HardFailure /\ ~WithheldRecord
      /\ bundle \in Bundles
      /\ event_results \in Seq(EventResults)
  BY DEF IInv, VerdictInv, TypeInv
<1>2. /\ EventFound(e)
      /\ \E i \in DOMAIN bundle.checkpoints :
           /\ bundle.checkpoints[i].tx_id = ev.inclusion.tx_id
           /\ CommittedIn(bundle.checkpoints[i], ev)
  BY <1>1, SoundEvent
<1>3. payload_hash_ok(ev.envelope, ev.record) # "none"
  <2>1. e \in 1 .. Len(event_results) /\ e \in DOMAIN event_results
    BY <1>1, ListsOfBundle
  <2> QED BY <1>1, <2>1 DEF WithheldRecord, IInv, EventInv
<1>4. /\ signature_ok(ev.envelope)
      /\ ev.record # Absent => ev.envelope.payload_hash = Sha256(ev.record)
      /\ ev.record = Absent => InlineBinds(ev.envelope)
  BY <1>2, <1>3 DEF EventFound, VerifyOk, payload_hash_ok
<1> QED BY <1>2, <1>4 DEF EventAnchored

(***************************************************************************)
(* A verified trace anchors every one of its events, for any bundle: the   *)
(* record is the signed one, and some checkpoint under the named tx was    *)
(* signed over a record whose root commits to the event.  The Merkle part  *)
(* is InclusionAssumption, which LeafSoundness of InclusionWalkProofs      *)
(* establishes for verify_inclusion.                                       *)
(***************************************************************************)
THEOREM TraceSoundness == Spec => []VerifiedMeansAnchored
BY InitFresh, FreshInv, NextInv, VerifiedAnchored, PTL DEF Spec

-----------------------------------------------------------------------------
\* What the re-fetch has not reached yet says what its checks found.
UntouchedInv ==
  \A i \in at .. Len(checkpoint_results) :
    checkpoint_results[i].ok <=>
      checkpoint_results[i].envelope_ok /\ checkpoint_results[i].merkle_root_ok

\* What a step may do to the results: add some, or fill in the one at hand.
Untouched ==
  /\ checkpoint_results' = checkpoint_results
  /\ event_results' = event_results /\ by_tx_id' = by_tx_id
  /\ at' = at \/ at' = at + 1

\* Every step but those of the two loops and FinishCheckpoint leaves the
\* results alone, and at never goes back.
LEMMA StepShapes ==
  ASSUME [Next]_vars, ~CheckCheckpoint, ~CheckEvent, ~FinishCheckpoint
  PROVE  Untouched
<1> USE DEF Untouched, args, loops, refetching, Return
<1>1. CASE RejectMalformed
  BY <1>1 DEF RejectMalformed
<1>2. CASE RejectTampered
  BY <1>2 DEF RejectTampered
<1>3. CASE UnknownBody
  BY <1>3 DEF UnknownBody
<1>4. CASE RejectLists
  BY <1>4 DEF RejectLists
<1>5. CASE EnterTrace
  BY <1>5 DEF EnterTrace
<1>6. CASE CheckpointsDone
  BY <1>6 DEF CheckpointsDone
<1>7. CASE EventsDone
  BY <1>7 DEF EventsDone
<1>8. CASE NoFetchImplementation
  BY <1>8 DEF NoFetchImplementation
<1>9. CASE SkipUnresolved
  BY <1>9 DEF SkipUnresolved
<1>10. CASE ProbeGateway
  BY <1>10 DEF ProbeGateway
<1>11. CASE RefetchDone
  BY <1>11 DEF RefetchDone
<1>12. CASE RollupFailed
  BY <1>12 DEF RollupFailed
<1>13. CASE RollupUnavailable
  BY <1>13 DEF RollupUnavailable
<1>14. CASE RollupVerified
  BY <1>14 DEF RollupVerified
<1>15. CASE RollupUndetermined
  BY <1>15 DEF RollupUndetermined
<1>16. CASE UNCHANGED vars
  BY <1>16 DEF vars
<1> QED
  BY <1>1, <1>2, <1>3, <1>4, <1>5, <1>6, <1>7, <1>8, <1>9, <1>10, <1>11, <1>12, <1>13,
     <1>14, <1>15, <1>16 DEF Next

\* An iteration of the checkpoint loop appends a result and may register its
\* tx_id, which by_tx_id did not know.
LEMMA CheckpointShape ==
  ASSUME IInv, CheckCheckpoint
  PROVE  \E res :
           /\ checkpoint_results' = Append(checkpoint_results, res)
           /\ res.ok <=> res.envelope_ok /\ res.merkle_root_ok
           /\ event_results' = event_results /\ at' = at
           /\ \A tx \in DOMAIN by_tx_id : by_tx_id'[tx] = by_tx_id[tx]
<1> DEFINE n == Len(checkpoint_results) + 1
           cp == bundle.checkpoints[n]
           res == [tx_id          |-> IF cp.tx_id = Absent THEN "" ELSE cp.tx_id,
                   envelope_ok    |-> EnvelopeBound(cp),
                   merkle_root_ok |-> RootBound(cp),
                   on_chain       |-> Absent,
                   ok             |-> EnvelopeBound(cp) /\ RootBound(cp)]
<1>1. /\ checkpoint_results' = Append(checkpoint_results, res)
      /\ by_tx_id' = Registered(cp, n)
      /\ event_results' = event_results /\ at' = at
  BY DEF CheckCheckpoint, refetching
<1>2. res.ok <=> res.envelope_ok /\ res.merkle_root_ok
  OBVIOUS
<1>3. \A tx \in DOMAIN by_tx_id : by_tx_id'[tx] = by_tx_id[tx]
  BY <1>1 DEF Registered
<1> HIDE DEF res
<1> QED BY <1>1, <1>2, <1>3

\* An event step adds one event result and nothing else.
LEMMA EventShape ==
  ASSUME CheckEvent
  PROVE  /\ \E res : event_results' = Append(event_results, res)
         /\ checkpoint_results' = checkpoint_results
         /\ by_tx_id' = by_tx_id /\ at' = at
BY DEF CheckEvent, refetching

\* The re-fetch replaces the result at hand by one whose ok is no better than
\* what its two checks found.
LEMMA FinishShape ==
  ASSUME IInv, FinishCheckpoint
  PROVE  /\ at \in 1 .. Len(checkpoint_results)
         /\ Len(checkpoint_results') = Len(checkpoint_results)
         /\ checkpoint_results'[at].ok =>
              checkpoint_results[at].envelope_ok /\ checkpoint_results[at].merkle_root_ok
         /\ \A i \in 1 .. Len(checkpoint_results) :
              i # at => checkpoint_results'[i] = checkpoint_results[i]
         /\ event_results' = event_results /\ by_tx_id' = by_tx_id
         /\ at' = at + 1
<1> DEFINE old == checkpoint_results[at]
           oc == [rollup |-> Rollup(per_gateway), per_gateway |-> per_gateway]
           sound == /\ old.envelope_ok /\ old.merkle_root_ok
                    /\ Rollup(per_gateway) # "mismatch"
           new == [old EXCEPT !.on_chain = oc, !.ok = sound]
<1>1. /\ checkpoint_results \in Seq(CheckpointResults)
      /\ at \in 1 .. Len(checkpoint_results)
      /\ old \in CheckpointResults
  BY DEF IInv, TypeInv, FinishCheckpoint, Refetching
<1>2. /\ event_results' = event_results /\ by_tx_id' = by_tx_id /\ at' = at + 1
      /\ checkpoint_results' = [checkpoint_results EXCEPT ![at].on_chain = oc, ![at].ok = sound]
  BY DEF FinishCheckpoint
<1>3. checkpoint_results' = [checkpoint_results EXCEPT ![at] = new]
  BY <1>1, <1>2
<1>4. new.ok => old.envelope_ok /\ old.merkle_root_ok
  <2>1. sound => old.envelope_ok /\ old.merkle_root_ok
    OBVIOUS
  <2> HIDE DEF sound, oc, old
  <2> QED BY <1>1, <2>1 DEF CheckpointResults
<1> HIDE DEF new, oc, sound
<1>5. /\ checkpoint_results'[at] = new
      /\ Len(checkpoint_results') = Len(checkpoint_results)
      /\ \A i \in 1 .. Len(checkpoint_results) :
           i # at => checkpoint_results'[i] = checkpoint_results[i]
  BY <1>1, <1>3
<1> QED BY <1>1, <1>2, <1>4, <1>5

\* Appending, filling in and moving on all keep it.
LEMMA UntouchedNext == IInv /\ UntouchedInv /\ [Next]_vars => UntouchedInv'
<1> SUFFICES ASSUME IInv, UntouchedInv, [Next]_vars PROVE UntouchedInv'
  OBVIOUS
<1>1. Len(checkpoint_results) \in Nat /\ at \in Nat \ {0}
      /\ checkpoint_results \in Seq(CheckpointResults)
  BY DEF IInv, TypeInv
<1>2. CASE CheckCheckpoint
  <2>1. PICK res :
          /\ checkpoint_results' = Append(checkpoint_results, res)
          /\ res.ok <=> res.envelope_ok /\ res.merkle_root_ok
          /\ at' = at
    BY <1>2, CheckpointShape
  <2>2. /\ Len(checkpoint_results') = Len(checkpoint_results) + 1
        /\ checkpoint_results'[Len(checkpoint_results) + 1] = res
        /\ \A i \in 1 .. Len(checkpoint_results) :
             checkpoint_results'[i] = checkpoint_results[i]
    BY <1>1, <2>1
  <2> QED BY <1>1, <2>1, <2>2 DEF UntouchedInv
<1>3. CASE CheckEvent
  BY <1>3, EventShape DEF UntouchedInv
<1>4. CASE FinishCheckpoint
  BY <1>1, <1>4, FinishShape DEF UntouchedInv
<1>5. CASE ~CheckCheckpoint /\ ~CheckEvent /\ ~FinishCheckpoint
  <2>1. Untouched
    BY <1>5, StepShapes
  <2> QED BY <1>1, <2>1 DEF Untouched, UntouchedInv
<1> QED BY <1>2, <1>3, <1>4, <1>5

(***************************************************************************)
(* No step of verify_evidence_bundle takes a finding back, for bundles and *)
(* gateway lists of any size: the re-fetch can only turn ok to FALSE, and  *)
(* an entry, once resolved under its tx_id, stays resolved alike.          *)
(***************************************************************************)
THEOREM FindingsAreFinal == Spec => FindingsStand
<1> DEFINE Step ==
             /\ \A i \in DOMAIN checkpoint_results :
                  ~checkpoint_results[i].ok => ~checkpoint_results'[i].ok
             /\ \A i \in DOMAIN event_results : event_results'[i] = event_results[i]
             /\ \A tx \in DOMAIN by_tx_id : by_tx_id'[tx] = by_tx_id[tx]
<1>1. Init => UntouchedInv
  <2> SUFFICES ASSUME Init PROVE UntouchedInv
    OBVIOUS
  <2>1. at = 1 /\ checkpoint_results = <<>> /\ Len(checkpoint_results) = 0
    BY DEF Init
  <2> QED BY <2>1 DEF UntouchedInv
<1>2. IInv /\ UntouchedInv /\ [Next]_vars => [Step]_vars
  <2> SUFFICES ASSUME IInv, UntouchedInv, [Next]_vars PROVE Step
    OBVIOUS
  <2>1. /\ checkpoint_results \in Seq(CheckpointResults) /\ Len(checkpoint_results) \in Nat
        /\ DOMAIN checkpoint_results = 1 .. Len(checkpoint_results)
        /\ event_results \in Seq(EventResults) /\ Len(event_results) \in Nat
        /\ DOMAIN event_results = 1 .. Len(event_results)
    BY DEF IInv, TypeInv
  <2>2. CASE CheckCheckpoint
    BY <2>1, <2>2, CheckpointShape
  <2>3. CASE CheckEvent
    BY <2>1, <2>3, EventShape
  <2>4. CASE FinishCheckpoint
    BY <2>1, <2>4, FinishShape DEF UntouchedInv
  <2>5. CASE ~CheckCheckpoint /\ ~CheckEvent /\ ~FinishCheckpoint
    BY <2>5, StepShapes DEF Untouched
  <2> QED BY <2>2, <2>3, <2>4, <2>5
<1>3. Spec => [](IInv /\ UntouchedInv)
  BY <1>1, InitFresh, FreshInv, NextInv, UntouchedNext, PTL DEF Spec
<1> QED BY <1>2, <1>3, PTL DEF Spec, FindingsStand

-----------------------------------------------------------------------------
\* No more steps than this are left of a call.  A result costs a request to
\* every gateway and the step that records what they answered.
Stage ==
  CASE pc = "parse" -> 5 [] pc = "checkpoints" -> 4 [] pc = "events" -> 3
    [] pc = "refetch" -> 2 [] pc = "rollup" -> 1 [] pc = "done" -> 0

CheckpointsLeft == Len(bundle.checkpoints) - Len(checkpoint_results)
EventsLeft == Len(bundle.events) - Len(event_results)
ResultsLeft == Len(bundle.checkpoints) + 1 - at
ProbesLeft == ResultsLeft * (Len(gateways) + 1) + (Len(gateways) - Len(per_gateway))

StepsLeft == Stage + CheckpointsLeft + EventsLeft + ProbesLeft

\* The loops' bounds.
LEMMA StepsLeftFacts ==
  ASSUME IInv
  PROVE  /\ Len(bundle.checkpoints) \in Nat /\ Len(bundle.events) \in Nat
         /\ Len(checkpoint_results) \in 0 .. Len(bundle.checkpoints)
         /\ Len(event_results) \in 0 .. Len(bundle.events)
         /\ Len(gateways) \in Nat /\ Len(per_gateway) \in 0 .. Len(gateways)
         /\ CheckpointsLeft \in Nat /\ EventsLeft \in Nat
         /\ at \in Nat \ {0} /\ ResultsLeft \in Nat /\ ProbesLeft \in Nat
         /\ Stage \in Nat
<1>1. /\ checkpoint_results \in Seq(CheckpointResults) /\ event_results \in Seq(EventResults)
      /\ per_gateway \in Seq(Outcomes) /\ Len(per_gateway) <= Len(gateways)
      /\ at \in 1 .. Len(checkpoint_results) + 1
      /\ pc \in {"parse", "checkpoints", "events", "refetch", "rollup", "done"}
      /\ Len(gateways) \in Nat
  BY DEF IInv, TypeInv, IsList
<1>2. /\ Len(checkpoint_results) <= Len(bundle.checkpoints)
      /\ Len(event_results) <= Len(bundle.events)
      /\ Len(bundle.checkpoints) \in Nat /\ Len(bundle.events) \in Nat
  BY ListsOfBundle DEF IInv, TypeInv, ProgressInv
<1>3. Stage \in Nat
  BY <1>1 DEF Stage
<1>4. ResultsLeft \in Nat /\ Len(gateways) + 1 \in Nat /\ Len(gateways) - Len(per_gateway) \in Nat
  BY <1>1, <1>2 DEF ResultsLeft
<1>5. ProbesLeft \in Nat
  <2>1. \A a, b, c \in Nat : a * b + c \in Nat
    OBVIOUS
  <2> QED BY <1>4, <2>1 DEF ProbesLeft
<1>6. CheckpointsLeft \in Nat /\ EventsLeft \in Nat
  BY <1>1, <1>2 DEF CheckpointsLeft, EventsLeft
<1> QED BY <1>1, <1>2, <1>3, <1>4, <1>5, <1>6

\* Moving on to the next result is worth a request to each gateway and one more.
LEMMA NextResult ==
  ASSUME NEW n \in Nat, NEW g \in Nat
  PROVE  (n + 1) * (g + 1) = n * (g + 1) + g + 1
OBVIOUS

\* A sum is less when one of its terms is and the others are the same.
LEMMA OneTermLess ==
  ASSUME NEW a \in Nat, NEW b \in Nat, NEW c \in Nat, NEW d \in Nat, NEW x \in Nat
  PROVE  /\ a + b + c + d \in Nat
         /\ x < a => x + b + c + d < a + b + c + d
         /\ x < b => a + x + c + d < a + b + c + d
         /\ x < c => a + b + x + d < a + b + c + d
         /\ x < d => a + b + c + x < a + b + c + d
OBVIOUS

\* A list grows by one.
LEMMA AppendsOne ==
  ASSUME NEW S, NEW s \in Seq(S), NEW e
  PROVE  Len(Append(s, e)) = Len(s) + 1
OBVIOUS

\* Every step uses one up.
LEMMA StepsDescend == IInv /\ Next => StepsLeft' < StepsLeft
<1> SUFFICES ASSUME IInv, Next PROVE StepsLeft' < StepsLeft
  OBVIOUS
<1> DEFINE G == Len(gateways)
<1>0. /\ G \in Nat /\ Len(per_gateway) \in 0 .. G
      /\ Stage \in Nat
      /\ Len(bundle.checkpoints) \in Nat /\ Len(bundle.events) \in Nat
      /\ Len(checkpoint_results) \in Nat /\ Len(event_results) \in Nat
      /\ CheckpointsLeft \in Nat /\ EventsLeft \in Nat
      /\ at \in Nat \ {0} /\ ResultsLeft \in Nat /\ ProbesLeft \in Nat
  BY StepsLeftFacts
<1>t. /\ checkpoint_results \in Seq(CheckpointResults) /\ event_results \in Seq(EventResults)
      /\ per_gateway \in Seq(Outcomes)
  BY DEF IInv, TypeInv
<1>1. CASE /\ UNCHANGED <<bundle, gateways, at, per_gateway>> /\ UNCHANGED loops
           /\ Stage' \in Nat /\ Stage' < Stage
  <2>1. /\ CheckpointsLeft' = CheckpointsLeft /\ EventsLeft' = EventsLeft
        /\ ProbesLeft' = ProbesLeft
    BY <1>1 DEF loops, CheckpointsLeft, EventsLeft, ProbesLeft, ResultsLeft
  <2> QED BY <1>0, <1>1, <2>1, OneTermLess, Zenon DEF StepsLeft
<1>2. CASE CheckCheckpoint
  <2>1. /\ Len(checkpoint_results) < Len(bundle.checkpoints)
        /\ Len(checkpoint_results') = Len(checkpoint_results) + 1
        /\ bundle' = bundle /\ event_results' = event_results
        /\ UNCHANGED <<gateways, at, per_gateway, pc>>
    <3>1. \E res : checkpoint_results' = Append(checkpoint_results, res)
      BY <1>2, CheckpointShape
    <3>2. Len(checkpoint_results') = Len(checkpoint_results) + 1
      BY <1>t, <3>1, AppendsOne
    <3>3. Len(checkpoint_results) + 1 <= Len(bundle.checkpoints)
      BY <1>2 DEF CheckCheckpoint
    <3>4. /\ bundle' = bundle /\ event_results' = event_results
          /\ UNCHANGED <<gateways, at, per_gateway, pc>>
      BY <1>2 DEF CheckCheckpoint, args, refetching
    <3>5. Len(checkpoint_results) < Len(bundle.checkpoints)
      BY <1>0, <3>3
    <3> QED BY <3>2, <3>4, <3>5
  <2>2. CheckpointsLeft' \in Nat /\ CheckpointsLeft' < CheckpointsLeft
    BY <1>0, <2>1 DEF CheckpointsLeft
  <2>3. EventsLeft' = EventsLeft /\ ProbesLeft' = ProbesLeft /\ Stage' = Stage
    BY <2>1 DEF EventsLeft, ProbesLeft, ResultsLeft, Stage
  <2> QED BY <1>0, <2>2, <2>3, OneTermLess, Zenon DEF StepsLeft
<1>3. CASE CheckEvent
  <2>1. /\ Len(event_results) < Len(bundle.events)
        /\ Len(event_results') = Len(event_results) + 1
        /\ bundle' = bundle /\ checkpoint_results' = checkpoint_results
        /\ UNCHANGED <<gateways, at, per_gateway, pc>>
    <3>1. \E res : event_results' = Append(event_results, res)
      BY <1>3, EventShape
    <3>2. Len(event_results') = Len(event_results) + 1
      BY <1>t, <3>1, AppendsOne
    <3> QED BY <1>0, <1>3, <3>2 DEF CheckEvent, args, refetching
  <2>2. EventsLeft' \in Nat /\ EventsLeft' < EventsLeft
    BY <1>0, <2>1 DEF EventsLeft
  <2>3. CheckpointsLeft' = CheckpointsLeft /\ ProbesLeft' = ProbesLeft /\ Stage' = Stage
    BY <2>1 DEF CheckpointsLeft, ProbesLeft, ResultsLeft, Stage
  <2> QED BY <1>0, <2>2, <2>3, OneTermLess, Zenon DEF StepsLeft
<1>4. CASE ProbeGateway
  <2>1. /\ Len(per_gateway) < G /\ Len(per_gateway') = Len(per_gateway) + 1
        /\ UNCHANGED <<bundle, gateways, pc, checkpoint_results, event_results, at>>
    <3>1. PICK o : per_gateway' = Append(per_gateway, o)
      BY <1>4 DEF ProbeGateway
    <3>2. Len(per_gateway') = Len(per_gateway) + 1
      BY <1>t, <3>1, AppendsOne
    <3> QED BY <1>4, <3>2 DEF ProbeGateway, args, loops
  <2>2. /\ CheckpointsLeft' = CheckpointsLeft /\ EventsLeft' = EventsLeft
        /\ Stage' = Stage /\ ResultsLeft' = ResultsLeft
    BY <2>1 DEF CheckpointsLeft, EventsLeft, Stage, ResultsLeft
  <2>3. ProbesLeft' \in Nat /\ ProbesLeft' < ProbesLeft
    <3>1. PICK n \in Nat : n = ResultsLeft * (G + 1)
      BY <1>0
    <3>2. ProbesLeft = n + (G - Len(per_gateway)) /\ ProbesLeft' = n + (G - Len(per_gateway'))
      BY <2>1, <2>2, <3>1 DEF ProbesLeft
    <3>3. n + (G - Len(per_gateway')) \in Nat
          /\ n + (G - Len(per_gateway')) < n + (G - Len(per_gateway))
      <4> HIDE DEF G
      <4> QED BY <1>0, <2>1, <3>1
    <3> QED BY <3>2, <3>3, Zenon
  <2> QED BY <1>0, <2>2, <2>3, OneTermLess, Zenon DEF StepsLeft
<1>5. CASE SkipUnresolved \/ FinishCheckpoint
  <2>1. /\ at <= Len(bundle.checkpoints) /\ at' = at + 1
        /\ UNCHANGED <<bundle, gateways, pc>>
        /\ Len(checkpoint_results') = Len(checkpoint_results) /\ event_results' = event_results
        /\ Len(per_gateway') \in 0 .. G
    <3>1. pc = "refetch" => Len(checkpoint_results) = Len(bundle.checkpoints)
      BY DEF IInv, ProgressInv
    <3>2. CASE SkipUnresolved
      BY <1>0, <3>1, <3>2 DEF SkipUnresolved, Refetching, args, loops
    <3>3. CASE FinishCheckpoint
      <4>1. Len(checkpoint_results') = Len(checkpoint_results) /\ event_results' = event_results
        BY <3>3, FinishShape
      <4>2. Len(per_gateway') = 0
        BY <3>3 DEF FinishCheckpoint
      <4> QED BY <1>0, <3>1, <3>3, <4>1, <4>2 DEF FinishCheckpoint, Refetching, args
    <3> QED BY <1>5, <3>2, <3>3
  <2>2. /\ CheckpointsLeft' = CheckpointsLeft /\ EventsLeft' = EventsLeft /\ Stage' = Stage
    BY <2>1 DEF CheckpointsLeft, EventsLeft, Stage
  <2>3. PICK n \in Nat : ResultsLeft = n + 1 /\ ResultsLeft' = n
    <3>1. Len(bundle.checkpoints) - at \in Nat
      BY <1>0, <2>1
    <3>2. ResultsLeft = Len(bundle.checkpoints) + 1 - at
      BY DEF ResultsLeft
    <3>3. ResultsLeft' = Len(bundle.checkpoints) + 1 - (at + 1)
      BY <2>1 DEF ResultsLeft
    <3> HIDE DEF ResultsLeft
    <3>4. /\ Len(bundle.checkpoints) + 1 - at = (Len(bundle.checkpoints) - at) + 1
          /\ Len(bundle.checkpoints) + 1 - (at + 1) = Len(bundle.checkpoints) - at
      <4>1. \A p, a \in Nat : p + 1 - a = (p - a) + 1 /\ p + 1 - (a + 1) = p - a
        OBVIOUS
      <4> QED BY <1>0, <4>1
    <3> QED BY <3>1, <3>2, <3>3, <3>4, Zenon
  <2>4. ProbesLeft' \in Nat /\ ProbesLeft' < ProbesLeft
    <3>1. (n + 1) * (G + 1) = n * (G + 1) + G + 1
      BY <1>0, NextResult
    <3>2. PICK m \in Nat : m = n * (G + 1)
      BY <1>0
    <3>3. ResultsLeft * (G + 1) = m + G + 1 /\ ResultsLeft' * (G + 1) = m
      BY <2>3, <3>1, <3>2
    <3>4. /\ ProbesLeft = (m + G + 1) + (G - Len(per_gateway))
          /\ ProbesLeft' = m + (G - Len(per_gateway'))
      BY <2>1, <3>3 DEF ProbesLeft
    <3>5. /\ m + (G - Len(per_gateway')) \in Nat
          /\ m + (G - Len(per_gateway')) < (m + G + 1) + (G - Len(per_gateway))
      <4> HIDE DEF G
      <4> QED BY <1>0, <2>1, <3>2
    <3> QED BY <3>4, <3>5, Zenon
  <2> QED BY <1>0, <2>2, <2>4, OneTermLess, Zenon DEF StepsLeft
<1>6. /\ pc = "parse" => Stage = 5
      /\ pc = "checkpoints" => Stage = 4
      /\ pc = "events" => Stage = 3
      /\ pc = "refetch" => Stage = 2
      /\ pc = "rollup" => Stage = 1
      /\ pc' = "checkpoints" => Stage' = 4
      /\ pc' = "events" => Stage' = 3
      /\ pc' = "refetch" => Stage' = 2
      /\ pc' = "rollup" => Stage' = 1
      /\ pc' = "done" => Stage' = 0
  BY DEF Stage
<1>7. CASE RejectMalformed \/ RejectTampered \/ UnknownBody \/ RejectLists
             \/ RollupFailed \/ RollupUnavailable \/ RollupVerified \/ RollupUndetermined
  <2>1. /\ pc \in {"parse", "rollup"} /\ pc' = "done"
        /\ UNCHANGED <<args, loops, refetching>>
    BY <1>7 DEF RejectMalformed, RejectTampered, UnknownBody, RejectLists, RollupFailed,
                RollupUnavailable, RollupVerified, RollupUndetermined, Return
  <2> QED BY <1>1, <1>6, <2>1 DEF args, refetching
<1>8. CASE EnterTrace \/ CheckpointsDone \/ EventsDone \/ RefetchDone \/ NoFetchImplementation
  <2>1. /\ UNCHANGED <<args, loops, at, per_gateway>>
        /\ \/ pc = "parse" /\ pc' = "checkpoints"
           \/ pc = "checkpoints" /\ pc' = "events"
           \/ pc = "events" /\ pc' \in {"refetch", "rollup"}
           \/ pc = "refetch" /\ pc' = "rollup"
    BY <1>8 DEF EnterTrace, CheckpointsDone, EventsDone, RefetchDone, NoFetchImplementation,
                refetching
  <2> QED BY <1>1, <1>6, <2>1 DEF args
<1> QED BY <1>2, <1>3, <1>4, <1>5, <1>7, <1>8 DEF Next

(***************************************************************************)
(* verify_evidence_bundle cannot run forever, for bundles and gateway      *)
(* lists of any size and whatever the gateways answer: each of its loops   *)
(* uses up the steps left.  With P checkpoints, E events and G gateways    *)
(* there are (P + 1) * (G + 1) + P + E + 4 of them at the start, those of  *)
(* the re-fetch included: no answer can make it ask again.                 *)
(***************************************************************************)
THEOREM StepsRunOut ==
  Spec => [](StepsLeft \in Nat) /\ [][StepsLeft' < StepsLeft]_vars
<1>1. IInv => StepsLeft \in Nat
  <2> SUFFICES ASSUME IInv PROVE StepsLeft \in Nat
    OBVIOUS
  <2> QED BY StepsLeftFacts, OneTermLess, Zenon DEF StepsLeft
<1>2. IInv /\ [Next]_vars => [StepsLeft' < StepsLeft]_vars
  BY StepsDescend
<1>3. Spec => []IInv
  BY InitFresh, FreshInv, NextInv, PTL DEF Spec
<1> QED BY <1>1, <1>2, <1>3, PTL DEF Spec

-----------------------------------------------------------------------------
(* The re-fetch.                                                           *)

\* Results and registrations go by the tx_ids of their entries.
TxInv ==
  /\ \A i \in 1 .. Len(checkpoint_results) :
       checkpoint_results[i].tx_id =
         IF bundle.checkpoints[i].tx_id = Absent THEN "" ELSE bundle.checkpoints[i].tx_id
  /\ \A tx \in DOMAIN by_tx_id : tx # Absent

\* An honest gateway confirms only what the chain has.
Truthful(i, g, outcome) ==
  gateways[g] \in HonestGateways /\ outcome = "confirm" =>
    Chain(Subject(i).tx_id) = Subject(i).envelope

\* What the re-fetch has left behind for a result it is through with.
Answered(i) ==
  LET found == checkpoint_results[i].on_chain
  IN /\ found \in OnChainResults
     /\ found.rollup = Rollup(found.per_gateway)
     /\ Len(found.per_gateway) = Len(gateways)
     /\ found.rollup = "mismatch" => ~checkpoint_results[i].ok
     /\ found.rollup = "unreachable" => gateway_unavailable
     /\ \A g \in 1 .. Len(gateways) : Truthful(i, g, found.per_gateway[g])

\* Where the re-fetch is, and that it is the last to say anything.
RefetchInv ==
  /\ pc = "parse" => checkpoint_results = <<>> /\ event_results = <<>>
  /\ pc \in {"parse", "checkpoints", "events"} => at = 1 /\ per_gateway = <<>>
  /\ \A g \in 1 .. Len(per_gateway) : Resolves(at) /\ Truthful(at, g, per_gateway[g])
  /\ \A i \in 1 .. at - 1 : Resolves(i) => Answered(i)
  /\ pc = "rollup" /\ on_chain_checked =>
       gateway_unavailable \/ at = Len(checkpoint_results) + 1

\* What is known when the call has returned and the process exits with 0.
Settled ==
  /\ ~HardFailure
  /\ bundle.body_type = "trace" =>
       /\ Len(event_results) = Len(bundle.events)
       /\ on_chain_checked =>
            ~gateway_unavailable /\ at = Len(checkpoint_results) + 1

SettledInv == pc = "done" /\ exit_code = 0 => Settled

CInv == IInv /\ TxInv /\ RefetchInv /\ SettledInv

-----------------------------------------------------------------------------
\* The call starts with no answer.
LEMMA FreshChain == Fresh => CInv
<1> SUFFICES ASSUME Fresh PROVE CInv
  OBVIOUS
<1>1. IInv
  BY FreshInv
<1>2. /\ checkpoint_results = <<>> /\ event_results = <<>> /\ per_gateway = <<>>
      /\ by_tx_id = <<>> /\ pc = "parse" /\ at = 1
  BY DEF Fresh
<1>3. TxInv
  BY <1>2 DEF TxInv
<1>4. RefetchInv
  BY <1>2 DEF RefetchInv
<1>5. SettledInv
  BY <1>2 DEF SettledInv
<1> QED BY <1>1, <1>3, <1>4, <1>5 DEF CInv

\* What is said of a result does not change with the step.
LEMMA AnswerStable ==
  ASSUME bundle' = bundle, gateways' = gateways, by_tx_id' = by_tx_id,
         NEW i, checkpoint_results'[i] = checkpoint_results[i],
         gateway_unavailable => gateway_unavailable'
  PROVE  /\ Resolves(i)' <=> Resolves(i)
         /\ Subject(i)' = Subject(i)
         /\ \A g, o : Truthful(i, g, o)' <=> Truthful(i, g, o)
         /\ Answered(i) => Answered(i)'
<1>1. (Resolves(i)' <=> Resolves(i)) /\ Subject(i)' = Subject(i)
  BY DEF Resolves, Subject
<1>2. \A g, o : Truthful(i, g, o)' <=> Truthful(i, g, o)
  BY <1>1 DEF Truthful
<1>3. Answered(i) => Answered(i)'
  BY <1>2 DEF Answered
<1> QED BY <1>1, <1>2, <1>3

\* TxInv depends on nothing but the results and registrations.
LEMMA TxStable ==
  ASSUME TxInv, UNCHANGED <<args, loops>>
  PROVE  TxInv'
BY DEF TxInv, args, loops

\* A step before the re-fetch, or one that only ends a loop, keeps RefetchInv.
LEMMA RefetchStable ==
  ASSUME IInv, RefetchInv, UNCHANGED <<args, loops>>,
         at' = at, per_gateway' = per_gateway,
         gateway_unavailable => gateway_unavailable',
         pc' # "parse" \/ pc' = pc,
         pc' \in {"checkpoints", "events"} => at = 1 /\ per_gateway = <<>>,
         pc' = "rollup" /\ on_chain_checked =>
           gateway_unavailable' \/ at = Len(checkpoint_results) + 1
  PROVE  RefetchInv'
<1>1. /\ bundle' = bundle /\ gateways' = gateways /\ by_tx_id' = by_tx_id
      /\ checkpoint_results' = checkpoint_results /\ event_results' = event_results
      /\ on_chain_checked' = on_chain_checked
  BY DEF args, loops, on_chain_checked
<1>2. \A g \in 1 .. Len(per_gateway') : Resolves(at)' /\ Truthful(at, g, per_gateway[g])'
  BY <1>1, AnswerStable DEF RefetchInv
<1>3. \A i \in 1 .. at - 1 : Resolves(i)' => Answered(i)'
  BY <1>1, AnswerStable DEF RefetchInv
<1>4. pc' \in {"parse", "checkpoints", "events"} => at' = 1 /\ per_gateway' = <<>>
  BY DEF RefetchInv
<1> QED BY <1>1, <1>2, <1>3, <1>4 DEF RefetchInv

\* A return says nothing new; exit code 0 needs a settled trace.
LEMMA ReturnChain ==
  ASSUME CInv, NEW s, NEW new, Return(s, new), ExitCode(s, notes \cup new) = 0 => Settled
  PROVE  TxInv' /\ RefetchInv' /\ SettledInv'
<1>1. /\ UNCHANGED <<args, loops>> /\ at' = at /\ per_gateway' = per_gateway
      /\ gateway_unavailable' = gateway_unavailable
      /\ pc' = "done" /\ status' = s /\ notes' = notes \cup new
  BY DEF Return, refetching
<1>2. TxInv' /\ RefetchInv'
  BY <1>1, TxStable, RefetchStable DEF CInv
<1>3. Settled' <=> Settled
  BY <1>1 DEF Settled, HardFailure, on_chain_checked, args, loops
<1>4. exit_code' = ExitCode(s, notes \cup new)
  BY <1>1 DEF exit_code, ExitCode, UndeterminedMarkers
<1> QED BY <1>2, <1>3, <1>4 DEF SettledInv

\* The steps that end a loop, or that leave everything as it is.
LEMMA ControlChain ==
  ASSUME CInv,
         \/ EnterTrace \/ CheckpointsDone \/ EventsDone
         \/ NoFetchImplementation \/ RefetchDone
  PROVE  TxInv' /\ RefetchInv' /\ SettledInv'
<1>1. /\ UNCHANGED <<args, loops>> /\ at' = at /\ per_gateway' = per_gateway
      /\ gateway_unavailable => gateway_unavailable'
      /\ pc' \in {"checkpoints", "events", "refetch", "rollup"}
      /\ pc' \in {"checkpoints", "events"} => pc \in {"parse", "checkpoints"}
  <2>1. CASE EnterTrace
    BY <2>1 DEF EnterTrace, refetching
  <2>2. CASE CheckpointsDone
    BY <2>2 DEF CheckpointsDone, refetching
  <2>3. CASE EventsDone
    BY <2>3 DEF EventsDone, refetching
  <2>4. CASE NoFetchImplementation
    BY <2>4 DEF NoFetchImplementation
  <2>5. CASE RefetchDone
    BY <2>5 DEF RefetchDone, refetching
  <2> QED BY <2>1, <2>2, <2>3, <2>4, <2>5
<1>2. pc' \in {"checkpoints", "events"} => at = 1 /\ per_gateway = <<>>
  BY <1>1 DEF CInv, RefetchInv
<1>3. pc' = "rollup" /\ on_chain_checked =>
        gateway_unavailable' \/ at = Len(checkpoint_results) + 1
  <2>1. CASE EventsDone
    BY <2>1 DEF EventsDone
  <2>2. CASE NoFetchImplementation
    BY <2>2 DEF NoFetchImplementation
  <2>3. CASE RefetchDone
    <3>1. at > Len(checkpoint_results)
      BY <2>3 DEF RefetchDone
    <3>2. at \in 1 .. Len(checkpoint_results) + 1 /\ Len(checkpoint_results) \in Nat
      BY DEF CInv, IInv, TypeInv
    <3> QED BY <3>1, <3>2
  <2>4. CASE EnterTrace \/ CheckpointsDone
    BY <2>4 DEF EnterTrace, CheckpointsDone
  <2> QED BY <2>1, <2>2, <2>3, <2>4
<1>4. TxInv' /\ RefetchInv'
  BY <1>1, <1>2, <1>3, TxStable, RefetchStable DEF CInv
<1>5. SettledInv'
  BY <1>1 DEF SettledInv
<1> QED BY <1>4, <1>5

\* One iteration of the checkpoint loop.
LEMMA CheckCheckpointChain ==
  ASSUME CInv, CheckCheckpoint
  PROVE  TxInv' /\ RefetchInv' /\ SettledInv'
<1> DEFINE n == Len(checkpoint_results) + 1
           cp == bundle.checkpoints[n]
           found == [tx_id          |-> IF cp.tx_id = Absent THEN "" ELSE cp.tx_id,
                     envelope_ok    |-> EnvelopeBound(cp),
                     merkle_root_ok |-> RootBound(cp),
                     on_chain       |-> Absent,
                     ok             |-> EnvelopeBound(cp) /\ RootBound(cp)]
<1>1. /\ pc = "checkpoints" /\ pc' = pc
      /\ by_tx_id' = Registered(cp, n)
      /\ checkpoint_results' = Append(checkpoint_results, found)
      /\ bundle' = bundle /\ at' = at /\ per_gateway' = per_gateway
  BY DEF CheckCheckpoint, args, refetching
<1>2. found.tx_id = IF cp.tx_id = Absent THEN "" ELSE cp.tx_id
  OBVIOUS
<1>3. checkpoint_results \in Seq(CheckpointResults) /\ Len(checkpoint_results) \in Nat
  BY DEF CInv, IInv, TypeInv
<1>4. TxInv'
  <2>1. \A tx \in DOMAIN by_tx_id' : tx # Absent
    BY <1>1 DEF CInv, TxInv, Registered
  <2>2. ASSUME NEW i \in 1 .. Len(checkpoint_results')
        PROVE  checkpoint_results'[i].tx_id =
                 IF bundle.checkpoints[i].tx_id = Absent THEN ""
                 ELSE bundle.checkpoints[i].tx_id
    <3> HIDE DEF found
    <3>1. /\ Len(checkpoint_results') = n /\ checkpoint_results'[n] = found
          /\ \A j \in 1 .. Len(checkpoint_results) :
               checkpoint_results'[j] = checkpoint_results[j]
      BY <1>1, <1>3
    <3>2. CASE i = n
      BY <1>2, <3>1, <3>2
    <3>3. CASE i # n
      <4>1. i \in 1 .. Len(checkpoint_results)
        BY <1>3, <3>1, <3>3
      <4> HIDE DEF n, cp
      <4> QED BY <3>1, <4>1 DEF CInv, TxInv
    <3> QED BY <3>2, <3>3
  <2> QED BY <1>1, <2>1, <2>2 DEF TxInv
<1>5. RefetchInv'
  <2>1. at' = 1 /\ per_gateway' = <<>>
    BY <1>1 DEF CInv, RefetchInv
  <2>2. 1 .. at' - 1 = {} /\ 1 .. Len(per_gateway') = {}
    BY <2>1
  <2> QED BY <1>1, <2>1, <2>2 DEF RefetchInv
<1>6. SettledInv'
  BY <1>1 DEF SettledInv
<1> QED BY <1>4, <1>5, <1>6

\* One iteration of the event loop.
LEMMA CheckEventChain ==
  ASSUME CInv, CheckEvent
  PROVE  TxInv' /\ RefetchInv' /\ SettledInv'
<1>1. /\ pc = "events" /\ pc' = pc
      /\ by_tx_id' = by_tx_id /\ checkpoint_results' = checkpoint_results
      /\ bundle' = bundle /\ at' = at /\ per_gateway' = per_gateway
  BY DEF CheckEvent, args, refetching
<1>2. at = 1 /\ per_gateway = <<>>
  BY <1>1 DEF CInv, RefetchInv
<1>3. TxInv'
  BY <1>1 DEF CInv, TxInv
<1>4. RefetchInv'
  <2>1. 1 .. at' - 1 = {} /\ 1 .. Len(per_gateway') = {}
    BY <1>1, <1>2
  <2> QED BY <1>1, <1>2, <2>1 DEF RefetchInv
<1>5. SettledInv'
  BY <1>1 DEF SettledInv
<1> QED BY <1>3, <1>4, <1>5

\* A result whose tx_id is not registered is passed over.
LEMMA SkipChain ==
  ASSUME CInv, SkipUnresolved
  PROVE  TxInv' /\ RefetchInv' /\ SettledInv'
<1>1. /\ UNCHANGED <<args, loops>> /\ pc = "refetch" /\ pc' = pc /\ ~Resolves(at)
      /\ at' = at + 1 /\ per_gateway' = per_gateway
      /\ gateway_unavailable' = gateway_unavailable
  BY DEF SkipUnresolved, Refetching
<1>2. /\ bundle' = bundle /\ gateways' = gateways /\ by_tx_id' = by_tx_id
      /\ checkpoint_results' = checkpoint_results
  BY <1>1 DEF args, loops
<1>3. at \in Nat /\ Len(per_gateway) \in Nat
  BY DEF CInv, IInv, TypeInv
<1>4. 1 .. Len(per_gateway') = {}
  BY <1>1 DEF CInv, RefetchInv
<1>5. \A i \in 1 .. at' - 1 : i \in 1 .. at - 1 \/ i = at
  BY <1>1, <1>3
<1>6. \A i \in 1 .. at' - 1 : Resolves(i)' => Answered(i)'
  BY <1>1, <1>2, <1>5, AnswerStable DEF CInv, RefetchInv
<1>7. RefetchInv'
  BY <1>1, <1>4, <1>6 DEF RefetchInv
<1>8. TxInv' /\ SettledInv'
  BY <1>1, TxStable DEF CInv, SettledInv
<1> QED BY <1>7, <1>8

\* One gateway answers, or does not.
LEMMA ProbeChain ==
  ASSUME CInv, ProbeGateway
  PROVE  TxInv' /\ RefetchInv' /\ SettledInv'
<1>1. PICK answer \in Fetched(gateways[Len(per_gateway) + 1], Subject(at).tx_id) :
        per_gateway' = Append(per_gateway, Outcome(Subject(at), answer))
  BY DEF ProbeGateway
<1>2. /\ UNCHANGED <<args, loops>> /\ pc = "refetch" /\ pc' = pc /\ Resolves(at)
      /\ at' = at /\ gateway_unavailable' = gateway_unavailable
  BY DEF ProbeGateway, Refetching
<1>3. /\ bundle' = bundle /\ gateways' = gateways /\ by_tx_id' = by_tx_id
      /\ checkpoint_results' = checkpoint_results
  BY <1>2 DEF args, loops
<1> DEFINE n == Len(per_gateway) + 1
           new == Outcome(Subject(at), answer)
<1>4. Truthful(at, n, new)
  <2> SUFFICES ASSUME gateways[n] \in HonestGateways, new = "confirm"
               PROVE  Chain(Subject(at).tx_id) = Subject(at).envelope
    BY DEF Truthful
  <2>1. answer \in {NoAnswer, Chain(Subject(at).tx_id)}
    BY <1>1 DEF Fetched
  <2>2. answer # NoAnswer /\ answer = Subject(at).envelope
    BY DEF Outcome
  <2> QED BY <2>1, <2>2
<1>5. new \in Outcomes
  BY DEF Outcome, Outcomes
<1>6. per_gateway' = Append(per_gateway, new)
  BY <1>1
<1> HIDE DEF new
<1>7. /\ Len(per_gateway) \in Nat
      /\ Len(per_gateway') = n /\ per_gateway'[n] = new
      /\ \A g \in 1 .. Len(per_gateway) : per_gateway'[g] = per_gateway[g]
  BY <1>5, <1>6 DEF CInv, IInv, TypeInv
<1>8. \A g \in 1 .. n : g = n \/ g \in 1 .. Len(per_gateway)
  BY <1>7
<1>9. ASSUME NEW g \in 1 .. Len(per_gateway')
      PROVE  Resolves(at)' /\ Truthful(at, g, per_gateway[g])'
  <2>1. Truthful(at, g, per_gateway'[g])
    <3>1. CASE g = n
      BY <1>4, <1>7, <3>1
    <3>2. CASE g \in 1 .. Len(per_gateway)
      BY <1>7, <3>2 DEF CInv, RefetchInv
    <3> QED BY <1>7, <1>8, <3>1, <3>2
  <2>2. Subject(at)' = Subject(at) /\ Resolves(at)'
    BY <1>2, <1>3 DEF Subject, Resolves
  <2> QED BY <1>3, <2>1, <2>2 DEF Truthful
<1>10. \A i \in 1 .. at - 1 : Resolves(i)' => Answered(i)'
  BY <1>2, <1>3, AnswerStable DEF CInv, RefetchInv
<1>11. RefetchInv'
  BY <1>2, <1>9, <1>10 DEF RefetchInv
<1>12. TxInv' /\ SettledInv'
  BY <1>2, TxStable DEF CInv, SettledInv
<1> QED BY <1>11, <1>12

\* All gateways have answered for one result.
LEMMA FinishChain ==
  ASSUME CInv, FinishCheckpoint
  PROVE  TxInv' /\ RefetchInv' /\ SettledInv'
<1> DEFINE old == checkpoint_results[at]
           oc == [rollup |-> Rollup(per_gateway), per_gateway |-> per_gateway]
           sound == /\ old.envelope_ok /\ old.merkle_root_ok
                    /\ Rollup(per_gateway) # "mismatch"
           new == [old EXCEPT !.on_chain = oc, !.ok = sound]
<1>1. /\ pc = "refetch" /\ pc' = pc /\ bundle' = bundle /\ gateways' = gateways
      /\ by_tx_id' = by_tx_id /\ at' = at + 1 /\ per_gateway' = <<>>
      /\ Resolves(at) /\ Len(per_gateway) = Len(gateways)
      /\ checkpoint_results' = [checkpoint_results EXCEPT ![at].on_chain = oc, ![at].ok = sound]
  BY DEF FinishCheckpoint, Refetching, args
<1>g. gateway_unavailable' <=> gateway_unavailable \/ Rollup(per_gateway) = "unreachable"
  BY DEF FinishCheckpoint
<1>2. /\ checkpoint_results \in Seq(CheckpointResults) /\ Len(checkpoint_results) \in Nat
      /\ at \in 1 .. Len(checkpoint_results)
      /\ old \in CheckpointResults
      /\ per_gateway \in Seq(Outcomes)
  BY DEF CInv, IInv, TypeInv, FinishCheckpoint, Refetching
<1>3. checkpoint_results' = [checkpoint_results EXCEPT ![at] = new]
  BY <1>1, <1>2
<1>4. /\ new.tx_id = old.tx_id /\ new.on_chain = oc
      /\ new.ok => Rollup(per_gateway) # "mismatch"
  <2>1. sound => Rollup(per_gateway) # "mismatch"
    OBVIOUS
  <2> HIDE DEF sound, oc, old
  <2> QED BY <1>2, <2>1 DEF CheckpointResults
<1>5. oc \in OnChainResults /\ oc.rollup = Rollup(per_gateway) /\ oc.per_gateway = per_gateway
  BY <1>2, RollupOutcome DEF OnChainResults
<1> HIDE DEF new, oc, sound
<1>6. /\ checkpoint_results'[at] = new
      /\ Len(checkpoint_results') = Len(checkpoint_results)
      /\ \A i \in 1 .. Len(checkpoint_results) :
           i # at => checkpoint_results'[i] = checkpoint_results[i]
  BY <1>2, <1>3
<1>7. \A i \in 1 .. Len(checkpoint_results) :
        checkpoint_results'[i].tx_id = checkpoint_results[i].tx_id
  BY <1>4, <1>6
<1>8. TxInv'
  BY <1>1, <1>6, <1>7 DEF CInv, TxInv
<1>9. PICK k \in 1 .. Len(checkpoint_results) : k = at
  BY <1>2
<1>10. Answered(k)'
  <2>1. Subject(k)' = Subject(at)
    BY <1>1, <1>7, <1>9 DEF Subject
  <2>2. \A g \in 1 .. Len(gateways) : Truthful(at, g, per_gateway[g])
    BY <1>1 DEF CInv, RefetchInv
  <2> PICK said : said = oc
    OBVIOUS
  <2>3. /\ checkpoint_results'[k].on_chain = said /\ said \in OnChainResults
        /\ said.rollup = Rollup(said.per_gateway)
        /\ Len(said.per_gateway) = Len(gateways)
    BY <1>1, <1>4, <1>5, <1>6, <1>9
  <2>4. said.rollup = "mismatch" => ~checkpoint_results'[k].ok
    BY <1>4, <1>5, <1>6, <1>9
  <2>5. said.rollup = "unreachable" => gateway_unavailable'
    BY <1>g, <1>5
  <2>6. \A g \in 1 .. Len(gateways') : Truthful(k, g, said.per_gateway[g])'
    BY <1>1, <1>5, <2>1, <2>2 DEF Truthful
  <2> HIDE DEF old
  <2>7. Answered(k)' <=>
          /\ said \in OnChainResults /\ said.rollup = Rollup(said.per_gateway)
          /\ Len(said.per_gateway) = Len(gateways')
          /\ said.rollup = "mismatch" => ~checkpoint_results'[k].ok
          /\ said.rollup = "unreachable" => gateway_unavailable'
          /\ \A g \in 1 .. Len(gateways') : Truthful(k, g, said.per_gateway[g])'
    BY <2>3, Zenon DEF Answered
  <2> QED BY <1>1, <2>3, <2>4, <2>5, <2>6, <2>7
<1>11. ASSUME NEW i \in 1 .. at' - 1, Resolves(i)'
       PROVE  Answered(i)'
  <2>1. CASE i = k
    BY <1>10, <2>1
  <2>2. CASE i # k
    <3>1. i \in 1 .. at - 1 /\ i \in 1 .. Len(checkpoint_results) /\ i # at
      BY <1>1, <1>2, <1>9, <2>2
    <3> QED BY <1>1, <1>g, <1>6, <1>11, <3>1, AnswerStable DEF CInv, RefetchInv
  <2> QED BY <2>1, <2>2
<1>12. RefetchInv'
  <2>1. 1 .. Len(per_gateway') = {}
    BY <1>1
  <2> QED BY <1>1, <1>11, <2>1 DEF RefetchInv
<1>13. SettledInv'
  BY <1>1 DEF SettledInv
<1> QED BY <1>8, <1>12, <1>13

\* Every way to exit with 0 leaves a settled trace.
LEMMA ReturnsSettled ==
  ASSUME CInv,
         \/ RejectMalformed \/ RejectTampered \/ UnknownBody \/ RejectLists
         \/ RollupFailed \/ RollupUnavailable \/ RollupVerified \/ RollupUndetermined
  PROVE  TxInv' /\ RefetchInv' /\ SettledInv'
<1>1. CASE RejectMalformed
  <2>1. ExitCode("malformed", notes \cup {"malformed"}) # 0
    BY DEF ExitCode
  <2> QED BY <1>1, <2>1, ReturnChain DEF RejectMalformed
<1>2. CASE RejectTampered
  <2>1. ExitCode("failed", notes \cup {"wrapper"}) # 0
    BY DEF ExitCode
  <2> QED BY <1>2, <2>1, ReturnChain DEF RejectTampered
<1>3. CASE UnknownBody
  <2>1. Settled
    BY <1>3 DEF UnknownBody, Settled, HardFailure, CInv, RefetchInv
  <2> QED BY <1>3, <2>1, ReturnChain DEF UnknownBody
<1>4. CASE RejectLists
  <2>1. ExitCode("malformed", notes \cup {"malformed"}) # 0
    BY DEF ExitCode
  <2> QED BY <1>4, <2>1, ReturnChain DEF RejectLists
<1>5. CASE RollupFailed
  <2>1. ExitCode("failed", notes \cup {}) # 0
    BY DEF ExitCode
  <2> QED BY <1>5, <2>1, ReturnChain DEF RollupFailed
<1>6. CASE RollupUnavailable
  <2> DEFINE texts == notes \cup {"could not be re-fetched"}
  <2>1. texts \cap UndeterminedMarkers # {}
    BY DEF UndeterminedMarkers
  <2> HIDE DEF texts
  <2>2. ExitCode("partial", texts) # 0
    <3> DEFINE marked == texts \cap UndeterminedMarkers # {}
    <3>1. ExitCode("partial", texts) = CASE "partial" = "failed" -> 1
                                         [] "partial" = "malformed" -> 2
                                         [] "partial" = "partial" /\ marked -> 3
                                         [] OTHER -> 0
      BY DEF ExitCode
    <3>2. marked
      BY <2>1
    <3> HIDE DEF marked
    <3> QED BY <3>1, <3>2
  <2>3. ExitCode("partial", notes \cup {"could not be re-fetched"}) # 0
    BY <2>2 DEF texts
  <2> QED BY <1>6, <2>3, ReturnChain DEF RollupUnavailable
<1>7. ASSUME pc = "rollup", ~HardFailure, ~gateway_unavailable
      PROVE  Settled
  BY <1>7 DEF Settled, CInv, IInv, ProgressInv, RefetchInv
<1>8. CASE RollupVerified
  BY <1>7, <1>8, ReturnChain DEF RollupVerified
<1>9. CASE RollupUndetermined
  BY <1>7, <1>9, ReturnChain DEF RollupUndetermined
<1> QED BY <1>1, <1>2, <1>3, <1>4, <1>5, <1>6, <1>8, <1>9

\* Every step of the call keeps what the re-fetch has established.
LEMMA NextChain == CInv /\ [Next]_vars => CInv'
<1> SUFFICES ASSUME CInv, [Next]_vars PROVE CInv'
  OBVIOUS
<1>1. IInv'
  BY NextInv DEF CInv
<1>2. CASE UNCHANGED vars
  <2>1. /\ UNCHANGED <<args, loops>> /\ pc' = pc /\ at' = at /\ per_gateway' = per_gateway
        /\ gateway_unavailable' = gateway_unavailable /\ status' = status /\ notes' = notes
    BY <1>2 DEF vars, refetching
  <2>2. TxInv'
    BY <2>1, TxStable DEF CInv
  <2>3. RefetchInv'
    BY <2>1, RefetchStable DEF CInv, RefetchInv
  <2>4. (Settled' <=> Settled) /\ exit_code' = exit_code
    BY <2>1 DEF Settled, HardFailure, on_chain_checked, args, loops,
                exit_code, ExitCode, UndeterminedMarkers
  <2> QED BY <1>1, <2>1, <2>2, <2>3, <2>4 DEF CInv, SettledInv
<1>3. ASSUME Next PROVE TxInv' /\ RefetchInv' /\ SettledInv'
  BY <1>3, ReturnsSettled, ControlChain, CheckCheckpointChain, CheckEventChain,
     SkipChain, ProbeChain, FinishChain DEF Next
<1> QED BY <1>1, <1>2, <1>3 DEF CInv

\* CInv holds throughout the call.
LEMMA ChainInvariance == Spec => []CInv
BY InitFresh, FreshChain, NextChain, PTL DEF Spec

-----------------------------------------------------------------------------
\* The checkpoint a sound event relies on, once all gateways were asked.
LEMMA ReliedUpon ==
  ASSUME CInv, ~HardFailure, ~gateway_unavailable,
         at = Len(checkpoint_results) + 1,
         NEW e \in DOMAIN event_results
  PROVE  LET i == by_tx_id[bundle.events[e].inclusion.tx_id]
         IN /\ i \in 1 .. Len(checkpoint_results)
            /\ Answered(i)
            /\ Subject(i) = bundle.checkpoints[i]
            /\ checkpoint_results[i].on_chain.rollup = "confirm"
<1> DEFINE tx == bundle.events[e].inclusion.tx_id
           i == by_tx_id[tx]
<1>1. /\ checkpoint_results \in Seq(CheckpointResults) /\ Len(checkpoint_results) \in Nat
      /\ DOMAIN checkpoint_results = 1 .. Len(checkpoint_results)
      /\ DOMAIN event_results = 1 .. Len(event_results)
  BY DEF CInv, IInv, TypeInv
<1>2. EventFound(e)
  BY <1>1 DEF CInv, IInv, EventInv, HardFailure
<1>3. tx \in DOMAIN by_tx_id
  BY <1>2 DEF EventFound, InclusionOk, CheckpointBound
<1>4. i \in 1 .. Len(checkpoint_results) /\ bundle.checkpoints[i].tx_id = tx /\ tx # Absent
  BY <1>3 DEF CInv, IInv, RegisteredInv, TxInv
<1> HIDE DEF tx, i
<1>5. checkpoint_results[i].tx_id = tx
  BY <1>4 DEF CInv, TxInv
<1>6. Resolves(i) /\ Subject(i) = bundle.checkpoints[i]
  BY <1>3, <1>5 DEF Resolves, Subject, i
<1>7. i \in 1 .. at - 1
  BY <1>1, <1>4
<1>8. Answered(i)
  BY <1>6, <1>7 DEF CInv, RefetchInv
<1>9. checkpoint_results[i].ok
  BY <1>1, <1>4 DEF HardFailure
<1>10. checkpoint_results[i].on_chain.rollup \in Outcomes
  BY <1>8 DEF Answered, OnChainResults
<1>11. checkpoint_results[i].on_chain.rollup = "confirm"
  BY <1>8, <1>9, <1>10 DEF Answered, Outcomes
<1> QED BY <1>4, <1>6, <1>8, <1>11 DEF i, tx

(***************************************************************************)
(* Exit code 0 of verify_evidence_bundle hides nothing, for any bundle and *)
(* gateways: no result has a finding, and of a trace checked on chain each *)
(* checkpoint an event relies on was confirmed.                            *)
(***************************************************************************)
THEOREM ExitZeroIsHonest == Spec => []ExitZeroHidesNothing
<1>1. CInv => ExitZeroHidesNothing
  <2> SUFFICES ASSUME CInv, pc = "done", exit_code = 0
               PROVE  /\ ~HardFailure
                      /\ (bundle.body_type = "trace" /\ on_chain_checked) =>
                           \A e \in DOMAIN event_results :
                             LET found == checkpoint_results[
                                            by_tx_id[bundle.events[e].inclusion.tx_id]].on_chain
                             IN found # Absent /\ found.rollup = "confirm"
    BY DEF ExitZeroHidesNothing
  <2>1. Settled
    BY DEF CInv, SettledInv
  <2>2. ASSUME bundle.body_type = "trace", on_chain_checked, NEW e \in DOMAIN event_results
        PROVE  LET found == checkpoint_results[
                              by_tx_id[bundle.events[e].inclusion.tx_id]].on_chain
               IN found # Absent /\ found.rollup = "confirm"
    <3> DEFINE i == by_tx_id[bundle.events[e].inclusion.tx_id]
               found == checkpoint_results[i].on_chain
    <3>1. Answered(i) /\ found.rollup = "confirm"
      BY <2>1, <2>2, ReliedUpon DEF Settled
    <3>2. found \in OnChainResults
      BY <3>1 DEF Answered
    <3>3. found # Absent
      BY <3>2, OutcomeAssumption DEF OnChainResults, Outcomes
    <3> QED BY <3>1, <3>3
  <2> QED BY <2>1, <2>2 DEF Settled
<1> QED BY <1>1, ChainInvariance, PTL

(***************************************************************************)
(* When an honest gateway answered for a checkpoint an event of a verified *)
(* trace relies on, the chain has that checkpoint's envelope, whatever the *)
(* other gateways said and however many there are.                         *)
(***************************************************************************)
THEOREM OneHonestGatewaySettles == Spec => []HonestGatewayDecides
<1>1. CInv => HonestGatewayDecides
  <2> SUFFICES ASSUME CInv, status = "verified", bundle.body_type = "trace", on_chain_checked,
                      NEW e \in DOMAIN bundle.events
               PROVE  LET i == by_tx_id[bundle.events[e].inclusion.tx_id]
                          cp == bundle.checkpoints[i]
                      IN HonestlyAnswered(i) => Chain(cp.tx_id) = cp.envelope
    BY DEF HonestGatewayDecides
  <2> DEFINE i == by_tx_id[bundle.events[e].inclusion.tx_id]
             found == checkpoint_results[i].on_chain
  <2>1. pc = "done" /\ exit_code = 0
    BY AbsentAssumption DEF CInv, IInv, TypeInv, exit_code, ExitCode
  <2>2. Settled
    BY <2>1 DEF CInv, SettledInv
  <2>3. e \in DOMAIN event_results
    BY <2>2, ListsOfBundle DEF Settled, CInv, IInv, TypeInv
  <2>4. /\ Answered(i) /\ Subject(i) = bundle.checkpoints[i] /\ found.rollup = "confirm"
    BY <2>2, <2>3, ReliedUpon DEF Settled
  <2>5. /\ found.per_gateway \in Seq(Outcomes) /\ Len(found.per_gateway) = Len(gateways)
        /\ Rollup(found.per_gateway) = "confirm"
        /\ \A g \in 1 .. Len(gateways) : Truthful(i, g, found.per_gateway[g])
    BY <2>4 DEF Answered, OnChainResults
  <2>6. Len(gateways) \in Nat /\ DOMAIN gateways = 1 .. Len(gateways)
    BY ListsAssumption DEF IsList, CInv, IInv, TypeInv
  <2>7. ASSUME NEW g \in DOMAIN gateways, gateways[g] \in HonestGateways,
               found.per_gateway[g] # "unreachable"
        PROVE  Chain(bundle.checkpoints[i].tx_id) = bundle.checkpoints[i].envelope
    <3> HIDE DEF found
    <3>1. found.per_gateway[g] \in Outcomes /\ g \in 1 .. Len(found.per_gateway)
      BY <2>5, <2>6
    <3>2. found.per_gateway[g] # "mismatch"
      BY <2>5, <3>1 DEF Rollup, Some
    <3>3. found.per_gateway[g] = "confirm"
      BY <2>7, <3>1, <3>2 DEF Outcomes
    <3> QED BY <2>4, <2>5, <2>6, <2>7, <3>3 DEF Truthful
  <2> QED BY <2>7 DEF HonestlyAnswered
<1> QED BY <1>1, ChainInvariance, PTL
=============================================================================
