------------------------ MODULE EvidenceRefinesProofs ------------------------
(***************************************************************************)
(* verify_evidence_bundle implements EvidenceVerdict, for any bundle, any  *)
(* list of gateways and any answers: its loops start pending without a     *)
(* report, and every step adds a report, decides the judgement, or does    *)
(* not show.                                                               *)
(***************************************************************************)
EXTENDS EvidenceTraceRefines, EvidenceTraceProofs

\* by_tx_id keeps the first entry of each tx_id that was checked.
KeptInv ==
  /\ \A tx \in DOMAIN by_tx_id : IsKept(by_tx_id[tx])
  /\ \A i \in 1 .. Len(checkpoint_results) :
       Entries[i].tx_id # Absent => Entries[i].tx_id \in DOMAIN by_tx_id

\* The re-fetch is through with a result.
Finished(i) == i < at /\ Resolves(i)

CheckpointExact(i) ==
  LET res == checkpoint_results[i]
  IN /\ res.envelope_ok <=> EnvelopeBound(Entries[i])
     /\ res.merkle_root_ok <=> RootBound(Entries[i])
     /\ IF Finished(i)
        THEN res.ok <=> /\ res.envelope_ok /\ res.merkle_root_ok
                        /\ res.on_chain.rollup # "mismatch"
        ELSE /\ res.on_chain = Absent
             /\ res.ok <=> res.envelope_ok /\ res.merkle_root_ok

EventResultExact(i) ==
  LET res == event_results[i]
      ev == bundle.events[i]
  IN /\ res.envelope_ok <=> VerifyOk(ev.envelope, ev.record, FALSE)
     /\ res.inclusion_ok <=> Included(ev)
     /\ res.content_ok = ContentOk(ev)
     /\ res.ok <=> EventSound(ev)

\* Every result says exactly what the bundle and the gateways say.
ExactInv ==
  /\ \A i \in 1 .. Len(checkpoint_results) : CheckpointExact(i)
  /\ \A i \in 1 .. Len(event_results) : EventResultExact(i)

\* Which answers are missing, and where the re-fetch may stand.
GapInv ==
  /\ pc \in {"parse", "checkpoints", "events"} => ~gateway_unavailable
  /\ pc = "refetch" => on_chain_checked
  /\ pc \in {"checkpoints", "events", "refetch", "rollup"} => WrapperVerdict = "trace"
  /\ per_gateway # <<>> =>
       pc = "refetch" /\ fetchable /\ at <= Len(checkpoint_results) /\ Resolves(at)
  /\ ~on_chain_checked => at = 1 /\ ~gateway_unavailable
  /\ ~fetchable => at = 1 /\ (pc = "rollup" /\ on_chain_checked => gateway_unavailable)
  /\ fetchable =>
       (gateway_unavailable <=>
          \E i \in 1 .. at - 1 :
            Resolves(i) /\ checkpoint_results[i].on_chain.rollup = "unreachable")
  /\ pc = "rollup" /\ on_chain_checked /\ fetchable => at = Len(checkpoint_results) + 1

RInv == CInv /\ KeptInv /\ ExactInv /\ GapInv

-----------------------------------------------------------------------------
(* Facts about the bundle.                                                 *)

\* No step assigns an argument.
LEMMA ArgumentsStay ==
  ASSUME [Next]_vars
  PROVE  UNCHANGED args
BY DEF Next, vars, Return, RejectMalformed, RejectTampered, UnknownBody, RejectLists,
   EnterTrace, CheckCheckpoint, CheckpointsDone, CheckEvent, EventsDone,
   NoFetchImplementation, SkipUnresolved, ProbeGateway, FinishCheckpoint, RefetchDone,
   RollupFailed, RollupUnavailable, RollupVerified, RollupUndetermined

\* What is said of the bundle does not change with the step.
LEMMA FactsStay ==
  ASSUME UNCHANGED args
  PROVE  /\ WrapperVerdict' = WrapperVerdict
         /\ Unsound' = Unsound /\ Withheld' = Withheld
         /\ (Len(Entries) = 0)' = (Len(Entries) = 0)
         /\ Queried' = Queried
         /\ on_chain_checked' = on_chain_checked
         /\ \A i : IsKept(i)' <=> IsKept(i)
         /\ \A ev : /\ EventSound(ev)' <=> EventSound(ev)
                    /\ Included(ev)' <=> Included(ev)
                    /\ ContentOk(ev)' = ContentOk(ev)
<1>1. bundle' = bundle /\ gateways' = gateways /\ fetchable' = fetchable /\ content' = content
  BY DEF args
<1>2. WrapperVerdict' = WrapperVerdict
  BY <1>1 DEF WrapperVerdict, Authentic
<1>3. \A i : IsKept(i)' <=> IsKept(i)
  BY <1>1 DEF IsKept, Entries
<1>4. \A ev : /\ EventSound(ev)' <=> EventSound(ev)
              /\ Included(ev)' <=> Included(ev)
              /\ ContentOk(ev)' = ContentOk(ev)
  BY <1>1 DEF EventSound, Included, ContentOk, IsKept, Entries
<1>5. Unsound' = Unsound
  <2>1. \A i : /\ EnvelopeBound(Entries[i])' <=> EnvelopeBound(Entries[i])
               /\ RootBound(Entries[i])' <=> RootBound(Entries[i])
    BY <1>1 DEF Entries, EnvelopeBound, RootBound
  <2> QED BY <1>1, <1>4, <2>1 DEF Unsound, Entries
<1>6. Withheld' = Withheld
  BY <1>1 DEF Withheld
<1>7. on_chain_checked' = on_chain_checked
  BY <1>1 DEF on_chain_checked
<1>8. Queried' = Queried
  <2>1. \A i : LookedUp(i)' = LookedUp(i)
    BY <1>1 DEF LookedUp, Entries
  <2> QED BY <1>1, <1>3, <1>7, <2>1 DEF Queried, Entries
<1> QED BY <1>1, <1>2, <1>3, <1>4, <1>5, <1>6, <1>7, <1>8 DEF Entries

\* Once all entries are checked, what by_tx_id knows is what the bundle keeps.
LEMMA KeptByTx ==
  ASSUME CInv, KeptInv, Len(checkpoint_results) = Len(Entries),
         NEW tx
  PROVE  /\ tx \in DOMAIN by_tx_id <=>
              \E j \in DOMAIN Entries : IsKept(j) /\ Entries[j].tx_id = tx
         /\ \A j \in DOMAIN Entries :
              IsKept(j) /\ Entries[j].tx_id = tx => j = by_tx_id[tx]
<1>1. DOMAIN Entries = 1 .. Len(checkpoint_results) /\ Len(checkpoint_results) \in Nat
  BY ListsOfBundle DEF CInv, IInv, TypeInv, Entries
<1>2. ASSUME tx \in DOMAIN by_tx_id
      PROVE  /\ by_tx_id[tx] \in DOMAIN Entries /\ IsKept(by_tx_id[tx])
             /\ Entries[by_tx_id[tx]].tx_id = tx
  BY <1>1, <1>2 DEF CInv, IInv, RegisteredInv, KeptInv, Entries
<1>3. ASSUME NEW j \in DOMAIN Entries, IsKept(j), Entries[j].tx_id = tx
      PROVE  tx \in DOMAIN by_tx_id /\ j = by_tx_id[tx]
  <2>1. tx \in DOMAIN by_tx_id
    BY <1>1, <1>3 DEF KeptInv, IsKept
  <2> DEFINE k == by_tx_id[tx]
  <2>2. k \in DOMAIN Entries /\ IsKept(k) /\ Entries[k].tx_id = tx
    BY <1>2, <2>1
  <2> HIDE DEF k
  <2>3. k \in Nat /\ j \in Nat /\ k >= 1 /\ j >= 1
    BY <1>1, <2>2
  <2>4. ~(k < j)
    <3> SUFFICES ASSUME k < j PROVE FALSE
      OBVIOUS
    <3>1. k \in 1 .. j - 1
      BY <2>3
    <3> QED BY <1>3, <2>2, <3>1 DEF IsKept
  <2>5. ~(j < k)
    <3> SUFFICES ASSUME j < k PROVE FALSE
      OBVIOUS
    <3>1. j \in 1 .. k - 1
      BY <2>3
    <3> QED BY <1>3, <2>2, <3>1 DEF IsKept
  <2>6. j = k
    BY <2>3, <2>4, <2>5
  <2> QED BY <2>1, <2>6 DEF k
<1> QED BY <1>2, <1>3

-----------------------------------------------------------------------------
(* The invariant.                                                          *)

\* The call starts with no result, hence with exact ones.
LEMMA FreshRefined == Fresh => RInv
<1> SUFFICES ASSUME Fresh PROVE RInv
  OBVIOUS
<1>1. CInv
  BY FreshChain
<1>2. /\ checkpoint_results = <<>> /\ event_results = <<>> /\ per_gateway = <<>>
      /\ by_tx_id = <<>> /\ pc = "parse" /\ at = 1
  BY DEF Fresh
<1>3. ~gateway_unavailable
  BY Zenon DEF Fresh
<1>4. KeptInv /\ ExactInv
  BY <1>2 DEF KeptInv, ExactInv
<1>5. GapInv
  <2>1. 1 .. at - 1 = {}
    BY <1>2
  <2> QED BY <1>2, <1>3, <2>1 DEF GapInv
<1> QED BY <1>1, <1>4, <1>5 DEF RInv

\* Without new results and with the re-fetch where it was, results are exact.
LEMMA ResultsStable ==
  ASSUME KeptInv, ExactInv, UNCHANGED <<args, loops>>, at' = at
  PROVE  KeptInv' /\ ExactInv'
<1>1. /\ bundle' = bundle /\ by_tx_id' = by_tx_id
      /\ checkpoint_results' = checkpoint_results /\ event_results' = event_results
      /\ UNCHANGED args
  BY DEF args, loops
<1>2. KeptInv'
  BY <1>1 DEF KeptInv, IsKept, Entries
<1>3. \A i : CheckpointExact(i)' <=> CheckpointExact(i)
  BY <1>1 DEF CheckpointExact, Finished, Resolves, EnvelopeBound, RootBound, Entries
<1>4. \A i : EventResultExact(i)' <=> EventResultExact(i)
  BY <1>1, FactsStay DEF EventResultExact
<1>5. ExactInv'
  BY <1>1, <1>3, <1>4 DEF ExactInv
<1> QED BY <1>2, <1>5

\* The steps that end a part of the call without touching the re-fetch.
LEMMA ControlRefined ==
  ASSUME RInv,
         \/ EnterTrace \/ CheckpointsDone \/ EventsDone
         \/ RejectMalformed \/ RejectTampered \/ UnknownBody \/ RejectLists
         \/ RollupFailed \/ RollupUnavailable \/ RollupVerified \/ RollupUndetermined
  PROVE  KeptInv' /\ ExactInv' /\ GapInv'
<1>1. /\ UNCHANGED <<args, loops>> /\ at' = at /\ per_gateway' = per_gateway
      /\ gateway_unavailable' = gateway_unavailable
      /\ pc # "refetch"
  BY DEF EnterTrace, CheckpointsDone, EventsDone, RejectMalformed, RejectTampered,
         UnknownBody, RejectLists, RollupFailed, RollupUnavailable, RollupVerified,
         RollupUndetermined, Return, refetching
<1>2. KeptInv' /\ ExactInv'
  BY <1>1, ResultsStable DEF RInv
<1>3. /\ pc' \in {"parse", "checkpoints", "events"} => pc \in {"parse", "checkpoints", "events"}
      /\ pc' = "refetch" => on_chain_checked
      /\ pc' \in {"checkpoints", "events", "refetch", "rollup"} =>
           pc \in {"checkpoints", "events", "refetch", "rollup"} \/ WrapperVerdict = "trace"
      /\ pc' = "rollup" => ~on_chain_checked
  BY DEF EnterTrace, CheckpointsDone, EventsDone, RejectMalformed, RejectTampered,
         UnknownBody, RejectLists, RollupFailed, RollupUnavailable, RollupVerified,
         RollupUndetermined, Return, WrapperVerdict
<1>4. /\ WrapperVerdict' = WrapperVerdict /\ on_chain_checked' = on_chain_checked
      /\ fetchable' = fetchable /\ checkpoint_results' = checkpoint_results
      /\ \A i : Resolves(i)' <=> Resolves(i)
  BY <1>1, FactsStay DEF args, loops, Resolves
<1>5. GapInv'
  BY <1>1, <1>3, <1>4 DEF RInv, GapInv
<1> QED BY <1>2, <1>5

\* There is no way to fetch.
LEMMA NoFetchRefined ==
  ASSUME RInv, NoFetchImplementation
  PROVE  KeptInv' /\ ExactInv' /\ GapInv'
<1>1. /\ UNCHANGED <<args, loops>> /\ at' = at /\ per_gateway' = per_gateway
      /\ ~fetchable /\ pc = "refetch" /\ pc' = "rollup"
  BY DEF NoFetchImplementation
<1>2. gateway_unavailable'
  BY Zenon DEF NoFetchImplementation
<1>3. KeptInv' /\ ExactInv'
  BY <1>1, ResultsStable DEF RInv
<1>4. /\ WrapperVerdict' = WrapperVerdict /\ on_chain_checked' = on_chain_checked
      /\ fetchable' = fetchable
  BY <1>1, FactsStay DEF args
<1>5. GapInv'
  BY <1>1, <1>2, <1>4 DEF RInv, GapInv
<1> QED BY <1>3, <1>5

\* All results have been asked about.
LEMMA RefetchDoneRefined ==
  ASSUME RInv, RefetchDone
  PROVE  KeptInv' /\ ExactInv' /\ GapInv'
<1>1. /\ UNCHANGED <<args, loops>> /\ at' = at /\ per_gateway' = per_gateway
      /\ gateway_unavailable' = gateway_unavailable
      /\ fetchable /\ pc = "refetch" /\ pc' = "rollup" /\ at > Len(checkpoint_results)
  BY DEF RefetchDone, refetching
<1>2. at \in 1 .. Len(checkpoint_results) + 1 /\ Len(checkpoint_results) \in Nat
  BY DEF RInv, CInv, IInv, TypeInv
<1>3. KeptInv' /\ ExactInv'
  BY <1>1, ResultsStable DEF RInv
<1>4. /\ WrapperVerdict' = WrapperVerdict /\ on_chain_checked' = on_chain_checked
      /\ fetchable' = fetchable /\ checkpoint_results' = checkpoint_results
      /\ \A i : Resolves(i)' <=> Resolves(i)
  BY <1>1, FactsStay DEF args, loops, Resolves
<1>5. at = Len(checkpoint_results) + 1 /\ per_gateway = <<>>
  BY <1>1, <1>2 DEF RInv, GapInv
<1>6. GapInv'
  BY <1>1, <1>4, <1>5 DEF RInv, GapInv
<1> QED BY <1>3, <1>6

\* One iteration of the checkpoint loop.
LEMMA CheckCheckpointRefined ==
  ASSUME RInv, CheckCheckpoint
  PROVE  KeptInv' /\ ExactInv' /\ GapInv'
<1> DEFINE n == Len(checkpoint_results) + 1
           cp == bundle.checkpoints[n]
           found == [tx_id          |-> IF cp.tx_id = Absent THEN "" ELSE cp.tx_id,
                     envelope_ok    |-> EnvelopeBound(cp),
                     merkle_root_ok |-> RootBound(cp),
                     on_chain       |-> Absent,
                     ok             |-> EnvelopeBound(cp) /\ RootBound(cp)]
<1>1. /\ pc = "checkpoints" /\ pc' = pc /\ UNCHANGED args /\ bundle' = bundle
      /\ n <= Len(bundle.checkpoints)
      /\ by_tx_id' = Registered(cp, n)
      /\ checkpoint_results' = Append(checkpoint_results, found)
      /\ event_results' = event_results
      /\ at' = at /\ per_gateway' = per_gateway /\ gateway_unavailable' = gateway_unavailable
  BY DEF CheckCheckpoint, args, refetching
<1>2. /\ found.envelope_ok <=> EnvelopeBound(cp)
      /\ found.merkle_root_ok <=> RootBound(cp)
      /\ found.ok <=> found.envelope_ok /\ found.merkle_root_ok
      /\ found.on_chain = Absent
  OBVIOUS
<1> HIDE DEF found
<1>3. /\ checkpoint_results \in Seq(CheckpointResults) /\ Len(checkpoint_results) \in Nat
      /\ at = 1 /\ per_gateway = <<>> /\ event_results = <<>>
  BY <1>1 DEF RInv, CInv, RefetchInv, IInv, TypeInv, ProgressInv
<1>4. /\ Len(checkpoint_results') = n /\ checkpoint_results'[n] = found
      /\ \A i \in 1 .. Len(checkpoint_results) : checkpoint_results'[i] = checkpoint_results[i]
      /\ \A i \in 1 .. n : i = n \/ i \in 1 .. Len(checkpoint_results)
  BY <1>1, <1>3
<1>5. KeptInv'
  <2>1. /\ DOMAIN by_tx_id \subseteq DOMAIN by_tx_id'
        /\ \A tx \in DOMAIN by_tx_id : by_tx_id'[tx] = by_tx_id[tx]
        /\ \A tx \in DOMAIN by_tx_id' \ DOMAIN by_tx_id :
             tx = cp.tx_id /\ cp.tx_id # Absent /\ by_tx_id'[tx] = n
        /\ cp.tx_id # Absent => cp.tx_id \in DOMAIN by_tx_id'
    BY <1>1 DEF Registered
  <2>2. ASSUME cp.tx_id # Absent, cp.tx_id \notin DOMAIN by_tx_id
        PROVE  IsKept(n)
    <3>1. \A j \in 1 .. n - 1 : Entries[j].tx_id # Entries[n].tx_id
      <4> SUFFICES ASSUME NEW j \in 1 .. n - 1, Entries[j].tx_id = Entries[n].tx_id
                   PROVE  FALSE
        OBVIOUS
      <4>1. j \in 1 .. Len(checkpoint_results)
        BY <1>3
      <4> QED BY <2>2, <4>1 DEF RInv, KeptInv, Entries
    <3> QED BY <2>2, <3>1 DEF IsKept, Entries
  <2>3. ASSUME NEW tx \in DOMAIN by_tx_id' PROVE IsKept(by_tx_id'[tx])
    BY <2>1, <2>2 DEF RInv, KeptInv
  <2>4. ASSUME NEW i \in 1 .. Len(checkpoint_results')
        PROVE  Entries[i].tx_id # Absent => Entries[i].tx_id \in DOMAIN by_tx_id'
    <3>1. CASE i = n
      BY <2>1, <3>1 DEF Entries
    <3>2. CASE i \in 1 .. Len(checkpoint_results)
      BY <2>1, <3>2 DEF RInv, KeptInv
    <3> QED BY <1>4, <3>1, <3>2
  <2> QED BY <1>1, <2>3, <2>4 DEF KeptInv, IsKept, Entries
<1>6. ExactInv'
  <2>1. ASSUME NEW i \in 1 .. Len(checkpoint_results')
        PROVE  CheckpointExact(i)'
    <3>1. ~Finished(i) /\ ~Finished(i)'
      BY <1>1, <1>3, <1>4 DEF Finished
    <3>2. CASE i = n
      <4>1. checkpoint_results'[i] = found /\ Entries'[i] = cp
        BY <1>1, <1>4, <3>2 DEF Entries
      <4> HIDE DEF n, cp
      <4> QED BY <1>2, <3>1, <4>1 DEF CheckpointExact, EnvelopeBound, RootBound
    <3>3. CASE i \in 1 .. Len(checkpoint_results)
      <4>1. CheckpointExact(i)
        BY <3>3 DEF RInv, ExactInv
      <4>2. checkpoint_results'[i] = checkpoint_results[i] /\ Entries' = Entries
        BY <1>1, <1>4, <3>3 DEF Entries
      <4> QED BY <3>1, <4>1, <4>2 DEF CheckpointExact, EnvelopeBound, RootBound
    <3> QED BY <1>4, <3>2, <3>3
  <2>2. 1 .. Len(event_results') = {}
    BY <1>1, <1>3
  <2> QED BY <2>1, <2>2 DEF ExactInv
<1>7. GapInv'
  <2>1. 1 .. at' - 1 = {} /\ ~gateway_unavailable
    BY <1>1, <1>3 DEF RInv, GapInv
  <2>2. WrapperVerdict' = WrapperVerdict
    BY <1>1, FactsStay
  <2> QED BY <1>1, <1>3, <2>1, <2>2 DEF RInv, GapInv
<1> QED BY <1>5, <1>6, <1>7

\* An event's checks come to EventSound, once all checkpoints are registered.
LEMMA EventExact ==
  ASSUME CInv, KeptInv, Len(checkpoint_results) = Len(Entries), NEW ev
  PROVE  /\ InclusionOk(ev) <=> Included(ev)
         /\ (/\ VerifyOk(ev.envelope, ev.record, FALSE) /\ InclusionOk(ev)
             /\ CheckpointBound(ev) /\ ContentOk(ev) # "false")
            <=> EventSound(ev)
<1> DEFINE tx == ev.inclusion.tx_id
<1>1. tx \in DOMAIN by_tx_id <=>
        \E j \in DOMAIN Entries : IsKept(j) /\ Entries[j].tx_id = tx
  BY KeptByTx
<1>2. \A j \in DOMAIN Entries : IsKept(j) /\ Entries[j].tx_id = tx => j = by_tx_id[tx]
  BY KeptByTx
<1>3. tx \in DOMAIN by_tx_id /\ ev.inclusion.reaches = Entries[by_tx_id[tx]].merkle_root
      <=> \E j \in DOMAIN Entries :
            /\ IsKept(j) /\ Entries[j].tx_id = tx
            /\ Entries[j].merkle_root = ev.inclusion.reaches
  BY <1>1, <1>2
<1> QED BY <1>3 DEF EventSound, Included, InclusionOk, CheckpointBound, Entries

\* One iteration of the event loop.
LEMMA CheckEventRefined ==
  ASSUME RInv, CheckEvent
  PROVE  KeptInv' /\ ExactInv' /\ GapInv'
<1> DEFINE n == Len(event_results) + 1
           ev == bundle.events[n]
           found == [envelope_ok        |-> VerifyOk(ev.envelope, ev.record, FALSE),
                     payload_binding_ok |-> payload_hash_ok(ev.envelope, ev.record),
                     inclusion_ok       |-> InclusionOk(ev),
                     checkpoint_bound   |-> CheckpointBound(ev),
                     content_ok         |-> ContentOk(ev),
                     ok                 |-> /\ VerifyOk(ev.envelope, ev.record, FALSE)
                                            /\ InclusionOk(ev)
                                            /\ CheckpointBound(ev)
                                            /\ ContentOk(ev) # "false"]
<1>1. /\ pc = "events" /\ pc' = pc /\ UNCHANGED args /\ bundle' = bundle
      /\ event_results' = Append(event_results, found)
      /\ by_tx_id' = by_tx_id /\ checkpoint_results' = checkpoint_results
      /\ at' = at /\ per_gateway' = per_gateway /\ gateway_unavailable' = gateway_unavailable
  BY DEF CheckEvent, args, refetching
<1>2. /\ found.ok <=> /\ VerifyOk(ev.envelope, ev.record, FALSE) /\ InclusionOk(ev)
                      /\ CheckpointBound(ev) /\ ContentOk(ev) # "false"
      /\ found.envelope_ok <=> VerifyOk(ev.envelope, ev.record, FALSE)
      /\ found.inclusion_ok <=> InclusionOk(ev)
      /\ found.content_ok = ContentOk(ev)
  OBVIOUS
<1> HIDE DEF found
<1>3. /\ event_results \in Seq(EventResults) /\ Len(event_results) \in Nat
      /\ Len(checkpoint_results) = Len(Entries)
  BY <1>1 DEF RInv, CInv, IInv, TypeInv, ProgressInv, Entries
<1>4. /\ Len(event_results') = n /\ event_results'[n] = found
      /\ \A i \in 1 .. Len(event_results) : event_results'[i] = event_results[i]
      /\ \A i \in 1 .. n : i = n \/ i \in 1 .. Len(event_results)
  BY <1>1, <1>3
<1>5. KeptInv'
  BY <1>1 DEF RInv, KeptInv, IsKept, Entries
<1>6. \A i : CheckpointExact(i)' <=> CheckpointExact(i)
  BY <1>1 DEF CheckpointExact, Finished, Resolves, EnvelopeBound, RootBound, Entries
<1>7. ASSUME NEW i \in 1 .. Len(event_results')
      PROVE  EventResultExact(i)'
  <2>1. CASE i = n
    <3>1. /\ found.ok <=> EventSound(ev)
          /\ found.inclusion_ok <=> Included(ev)
      BY <1>2, <1>3, EventExact DEF RInv
    <3>2. PICK x : x = ev
      OBVIOUS
    <3>3. event_results'[i] = found /\ bundle'.events[i] = x
      BY <1>1, <1>4, <2>1, <3>2
    <3>4. /\ EventSound(x)' <=> EventSound(x)
          /\ Included(x)' <=> Included(x)
          /\ ContentOk(x)' = ContentOk(x)
      BY <1>1, FactsStay
    <3>5. /\ found.envelope_ok <=> VerifyOk(x.envelope, x.record, FALSE)
          /\ found.inclusion_ok <=> Included(x)
          /\ found.content_ok = ContentOk(x)
          /\ found.ok <=> EventSound(x)
      BY <1>2, <3>1, <3>2
    <3> QED BY <3>3, <3>4, <3>5 DEF EventResultExact
  <2>2. CASE i \in 1 .. Len(event_results)
    <3>1. EventResultExact(i) /\ event_results'[i] = event_results[i]
      BY <1>4, <2>2 DEF RInv, ExactInv
    <3> QED BY <1>1, <3>1, FactsStay DEF EventResultExact
  <2> QED BY <1>4, <2>1, <2>2
<1>9. ExactInv'
  BY <1>1, <1>6, <1>7 DEF RInv, ExactInv
<1>10. GapInv'
  <2>1. WrapperVerdict' = WrapperVerdict /\ on_chain_checked' = on_chain_checked
    BY <1>1, FactsStay
  <2>2. \A i : Resolves(i)' <=> Resolves(i)
    BY <1>1 DEF Resolves
  <2> QED BY <1>1, <2>1, <2>2 DEF RInv, GapInv, args
<1> QED BY <1>5, <1>9, <1>10

\* A result is passed over: there is nothing it could say.
LEMMA SkipRefined ==
  ASSUME RInv, SkipUnresolved
  PROVE  KeptInv' /\ ExactInv' /\ GapInv'
<1>1. /\ UNCHANGED <<args, loops>> /\ pc = "refetch" /\ pc' = pc /\ fetchable
      /\ ~Resolves(at) /\ at' = at + 1 /\ per_gateway' = per_gateway
      /\ gateway_unavailable' = gateway_unavailable
  BY DEF SkipUnresolved, Refetching
<1>2. /\ bundle' = bundle /\ by_tx_id' = by_tx_id
      /\ checkpoint_results' = checkpoint_results /\ event_results' = event_results
      /\ UNCHANGED args
  BY <1>1 DEF args, loops
<1>3. at \in Nat /\ per_gateway = <<>>
  BY <1>1 DEF RInv, GapInv, CInv, IInv, TypeInv
<1>4. \A i : Resolves(i)' <=> Resolves(i)
  BY <1>2 DEF Resolves
<1>5. KeptInv'
  BY <1>2 DEF RInv, KeptInv, IsKept, Entries
<1>6. \A i \in 1 .. Len(checkpoint_results) : Finished(i)' <=> Finished(i)
  <2> SUFFICES ASSUME NEW i \in 1 .. Len(checkpoint_results)
               PROVE  Finished(i)' <=> Finished(i)
    OBVIOUS
  <2>1. i < at + 1 <=> i < at \/ i = at
    BY <1>3
  <2> QED BY <1>1, <1>4, <2>1 DEF Finished
<1>7. \A i \in 1 .. Len(checkpoint_results) : CheckpointExact(i)'
  BY <1>2, <1>6 DEF RInv, ExactInv, CheckpointExact, EnvelopeBound, RootBound, Entries
<1>8. \A i : EventResultExact(i)' <=> EventResultExact(i)
  BY <1>2, FactsStay DEF EventResultExact
<1>9. ExactInv'
  BY <1>2, <1>7, <1>8 DEF RInv, ExactInv
<1>10. GapInv'
  <2>1. WrapperVerdict' = WrapperVerdict /\ on_chain_checked' = on_chain_checked
    BY <1>2, FactsStay
  <2>2. \A i : i \in 1 .. at' - 1 <=> i \in 1 .. at - 1 \/ (i = at /\ at >= 1)
    BY <1>1, <1>3
  <2>3. (\E i \in 1 .. at' - 1 :
           Resolves(i)' /\ checkpoint_results'[i].on_chain.rollup = "unreachable")
        <=> \E i \in 1 .. at - 1 :
              Resolves(i) /\ checkpoint_results[i].on_chain.rollup = "unreachable"
    BY <1>1, <1>2, <1>4, <2>2
  <2> QED BY <1>1, <1>3, <2>1, <2>3 DEF RInv, GapInv, args
<1> QED BY <1>5, <1>9, <1>10

\* An outcome more for the result at hand.
LEMMA ProbeRefined ==
  ASSUME RInv, ProbeGateway
  PROVE  KeptInv' /\ ExactInv' /\ GapInv'
<1>1. /\ UNCHANGED <<args, loops>> /\ pc = "refetch" /\ pc' = pc /\ fetchable
      /\ Resolves(at) /\ at <= Len(checkpoint_results) /\ at' = at
      /\ gateway_unavailable' = gateway_unavailable
  BY DEF ProbeGateway, Refetching
<1>2. KeptInv' /\ ExactInv'
  BY <1>1, ResultsStable DEF RInv
<1>3. /\ WrapperVerdict' = WrapperVerdict /\ on_chain_checked' = on_chain_checked
      /\ fetchable' = fetchable /\ checkpoint_results' = checkpoint_results
      /\ \A i : Resolves(i)' <=> Resolves(i)
      /\ Resolves(at)'
  BY <1>1, FactsStay DEF args, loops, Resolves
<1>4. GapInv'
  BY <1>1, <1>3 DEF RInv, GapInv
<1> QED BY <1>2, <1>4

\* What FinishCheckpoint writes, exactly.
LEMMA FinishExactly ==
  ASSUME RInv, FinishCheckpoint
  PROVE  /\ at \in 1 .. Len(checkpoint_results) /\ at \in Nat
         /\ Len(checkpoint_results') = Len(checkpoint_results)
         /\ DOMAIN checkpoint_results' = DOMAIN checkpoint_results
         /\ DOMAIN checkpoint_results = 1 .. Len(checkpoint_results)
         /\ \A i \in 1 .. Len(checkpoint_results) :
              i # at => checkpoint_results'[i] = checkpoint_results[i]
         /\ \A i \in 1 .. Len(checkpoint_results) :
              checkpoint_results'[i].tx_id = checkpoint_results[i].tx_id
         /\ LET old == checkpoint_results[at]
                new == checkpoint_results'[at]
            IN /\ new.envelope_ok = old.envelope_ok
               /\ new.merkle_root_ok = old.merkle_root_ok
               /\ new.on_chain = [rollup |-> Rollup(per_gateway), per_gateway |-> per_gateway]
               /\ new.ok <=> /\ old.envelope_ok /\ old.merkle_root_ok
                             /\ Rollup(per_gateway) # "mismatch"
<1> DEFINE old == checkpoint_results[at]
           oc == [rollup |-> Rollup(per_gateway), per_gateway |-> per_gateway]
           sound == /\ old.envelope_ok /\ old.merkle_root_ok
                    /\ Rollup(per_gateway) # "mismatch"
           new == [old EXCEPT !.on_chain = oc, !.ok = sound]
<1>1. checkpoint_results' = [checkpoint_results EXCEPT ![at].on_chain = oc, ![at].ok = sound]
  BY DEF FinishCheckpoint
<1>2. /\ checkpoint_results \in Seq(CheckpointResults) /\ Len(checkpoint_results) \in Nat
      /\ at \in 1 .. Len(checkpoint_results) /\ at \in Nat
      /\ old \in CheckpointResults
  BY DEF RInv, CInv, IInv, TypeInv, FinishCheckpoint, Refetching
<1>3. checkpoint_results' = [checkpoint_results EXCEPT ![at] = new]
  BY <1>1, <1>2
<1>4. /\ new.tx_id = old.tx_id /\ new.on_chain = oc
      /\ new.envelope_ok = old.envelope_ok /\ new.merkle_root_ok = old.merkle_root_ok
  <2> HIDE DEF sound, oc, old
  <2> QED BY <1>2 DEF CheckpointResults
<1>5. new.ok <=> sound
  <2> HIDE DEF sound, oc, old
  <2> QED BY <1>2 DEF CheckpointResults
<1> HIDE DEF new, oc, sound
<1>6. /\ checkpoint_results'[at] = new
      /\ Len(checkpoint_results') = Len(checkpoint_results)
      /\ DOMAIN checkpoint_results' = DOMAIN checkpoint_results
      /\ DOMAIN checkpoint_results = 1 .. Len(checkpoint_results)
      /\ \A i \in 1 .. Len(checkpoint_results) :
           i # at => checkpoint_results'[i] = checkpoint_results[i]
  BY <1>2, <1>3
<1>7. \A i \in 1 .. Len(checkpoint_results) :
        checkpoint_results'[i].tx_id = checkpoint_results[i].tx_id
  BY <1>4, <1>6
<1> QED BY <1>2, <1>4, <1>5, <1>6, <1>7 DEF oc, sound

\* All gateways have answered for the result at hand.
LEMMA FinishRefined ==
  ASSUME RInv, FinishCheckpoint
  PROVE  KeptInv' /\ ExactInv' /\ GapInv'
<1>1. /\ pc = "refetch" /\ pc' = pc /\ UNCHANGED args /\ bundle' = bundle /\ fetchable
      /\ by_tx_id' = by_tx_id /\ event_results' = event_results
      /\ at' = at + 1 /\ per_gateway' = <<>> /\ Resolves(at)
  BY DEF FinishCheckpoint, Refetching, args
<1>2. gateway_unavailable' <=> gateway_unavailable \/ Rollup(per_gateway) = "unreachable"
  BY DEF FinishCheckpoint
<1> DEFINE old == checkpoint_results[at]
           new == checkpoint_results'[at]
<1>3. /\ at \in 1 .. Len(checkpoint_results) /\ at \in Nat
      /\ Len(checkpoint_results') = Len(checkpoint_results)
      /\ \A i \in 1 .. Len(checkpoint_results) :
           i # at => checkpoint_results'[i] = checkpoint_results[i]
      /\ \A i \in 1 .. Len(checkpoint_results) :
           checkpoint_results'[i].tx_id = checkpoint_results[i].tx_id
  BY FinishExactly
<1>4. /\ new.envelope_ok = old.envelope_ok /\ new.merkle_root_ok = old.merkle_root_ok
      /\ new.on_chain.rollup = Rollup(per_gateway)
      /\ new.ok <=> /\ old.envelope_ok /\ old.merkle_root_ok
                    /\ Rollup(per_gateway) # "mismatch"
  BY FinishExactly
<1>5. \A i \in 1 .. Len(checkpoint_results) : Resolves(i)' <=> Resolves(i)
  BY <1>1, <1>3 DEF Resolves
<1>6. KeptInv'
  BY <1>1, <1>3 DEF RInv, KeptInv, IsKept, Entries
<1>7. ASSUME NEW i \in 1 .. Len(checkpoint_results)
      PROVE  CheckpointExact(i)'
  <2>1. CheckpointExact(i)
    BY DEF RInv, ExactInv
  <2>2. Entries' = Entries
    BY <1>1 DEF Entries
  <2>3. CASE i = at
    <3>1. Finished(i)'
      BY <1>1, <1>3, <1>5, <2>3 DEF Finished
    <3>2. /\ checkpoint_results[i] = old /\ checkpoint_results'[i] = new
      BY <2>3
    <3> HIDE DEF old, new
    <3> QED BY <1>4, <2>1, <2>2, <3>1, <3>2 DEF CheckpointExact, EnvelopeBound, RootBound
  <2>4. CASE i # at
    <3>1. Finished(i)' <=> Finished(i)
      BY <1>1, <1>3, <1>5, <2>4 DEF Finished
    <3>2. checkpoint_results'[i] = checkpoint_results[i]
      BY <1>3, <2>4
    <3> QED BY <2>1, <2>2, <3>1, <3>2 DEF CheckpointExact, EnvelopeBound, RootBound
  <2> QED BY <2>3, <2>4
<1>8. \A i : EventResultExact(i)' <=> EventResultExact(i)
  BY <1>1, FactsStay DEF EventResultExact
<1>9. ExactInv'
  BY <1>1, <1>3, <1>7, <1>8 DEF RInv, ExactInv
<1>10. GapInv'
  <2>1. WrapperVerdict' = WrapperVerdict /\ on_chain_checked' = on_chain_checked
    BY <1>1, FactsStay
  <2> DEFINE Gap(i) == Resolves(i) /\ checkpoint_results[i].on_chain.rollup = "unreachable"
  <2>2. \A i \in 1 .. at - 1 :
          (Resolves(i)' /\ checkpoint_results'[i].on_chain.rollup = "unreachable") <=> Gap(i)
    <3> SUFFICES ASSUME NEW i \in 1 .. at - 1
                 PROVE  (Resolves(i)' /\ checkpoint_results'[i].on_chain.rollup = "unreachable")
                        <=> Gap(i)
      OBVIOUS
    <3>1. i \in 1 .. Len(checkpoint_results) /\ i # at
      BY <1>3
    <3> QED BY <1>3, <1>5, <3>1
  <2>3. PICK k : k = at
    OBVIOUS
  <2>4. Resolves(k)' /\ checkpoint_results'[k].on_chain.rollup = Rollup(per_gateway)
    BY <1>1, <1>3, <1>4, <1>5, <2>3
  <2>5. \A i : i \in 1 .. at' - 1 <=> i \in 1 .. at - 1 \/ i = k
    BY <1>1, <1>3, <2>3
  <2>6. gateway_unavailable <=> \E i \in 1 .. at - 1 : Gap(i)
    BY <1>1 DEF RInv, GapInv
  <2> HIDE DEF Gap
  <2>7. gateway_unavailable' <=>
          \E i \in 1 .. at' - 1 :
            Resolves(i)' /\ checkpoint_results'[i].on_chain.rollup = "unreachable"
    BY <1>2, <2>2, <2>4, <2>5, <2>6
  <2> QED BY <1>1, <2>1, <2>7 DEF RInv, GapInv, args
<1> QED BY <1>6, <1>9, <1>10

\* Every step keeps the results exact.
LEMMA NextRefined == RInv /\ [Next]_vars => RInv'
<1> SUFFICES ASSUME RInv, [Next]_vars PROVE RInv'
  OBVIOUS
<1>1. CInv'
  BY NextChain DEF RInv
<1>2. CASE UNCHANGED vars
  <2>1. /\ UNCHANGED <<args, loops>> /\ pc' = pc /\ at' = at /\ per_gateway' = per_gateway
        /\ gateway_unavailable' = gateway_unavailable
    BY <1>2 DEF vars, refetching
  <2>2. KeptInv' /\ ExactInv'
    BY <2>1, ResultsStable DEF RInv
  <2>3. /\ WrapperVerdict' = WrapperVerdict /\ on_chain_checked' = on_chain_checked
        /\ fetchable' = fetchable /\ checkpoint_results' = checkpoint_results
        /\ \A i : Resolves(i)' <=> Resolves(i)
        /\ Resolves(at)' <=> Resolves(at)
    BY <2>1, FactsStay DEF args, loops, Resolves
  <2>4. GapInv'
    BY <2>1, <2>3 DEF RInv, GapInv
  <2> QED BY <1>1, <2>2, <2>4 DEF RInv
<1>3. CASE Next
  <2>1. KeptInv' /\ ExactInv' /\ GapInv'
    BY <1>3, ControlRefined, NoFetchRefined, RefetchDoneRefined, CheckCheckpointRefined,
       CheckEventRefined, SkipRefined, ProbeRefined, FinishRefined DEF Next
  <2> QED BY <1>1, <2>1 DEF RInv
<1> QED BY <1>2, <1>3

\* So throughout the call.
LEMMA RefinedInvariance == Spec => []RInv
BY InitFresh, FreshRefined, NextRefined, PTL DEF Spec

-----------------------------------------------------------------------------
(* What the gateways have reported.                                        *)

\* The mapping's reports as a function of the variables it reads.
ReportsOf(i, outcomes, results) ==
  {<<i, o>> : o \in OutcomesIn(outcomes)} \cup
  UNION {{<<k, o>> : o \in OutcomesIn(results[k].on_chain.per_gateway)}
         : k \in {j \in DOMAIN results : results[j].on_chain # Absent}}

ReportedBy(k, results, r) ==
  /\ results[k].on_chain # Absent
  /\ \E g \in DOMAIN results[k].on_chain.per_gateway :
       r = <<k, results[k].on_chain.per_gateway[g]>>

\* A report is an outcome for the result at hand, or one kept in a result.
LEMMA InReports ==
  ASSUME NEW i, NEW outcomes, NEW results, NEW r
  PROVE  r \in ReportsOf(i, outcomes, results) <=>
           \/ \E g \in DOMAIN outcomes : r = <<i, outcomes[g]>>
           \/ \E k \in DOMAIN results : ReportedBy(k, results, r)
<1>1. r \in {<<i, o>> : o \in OutcomesIn(outcomes)} <=>
        \E g \in DOMAIN outcomes : r = <<i, outcomes[g]>>
  BY DEF OutcomesIn
<1>2. ASSUME NEW k
      PROVE  r \in {<<k, o>> : o \in OutcomesIn(results[k].on_chain.per_gateway)} <=>
               \E g \in DOMAIN results[k].on_chain.per_gateway :
                 r = <<k, results[k].on_chain.per_gateway[g]>>
  BY DEF OutcomesIn
<1>3. r \in UNION {{<<k, o>> : o \in OutcomesIn(results[k].on_chain.per_gateway)}
                   : k \in {j \in DOMAIN results : results[j].on_chain # Absent}}
      <=> \E k \in DOMAIN results : ReportedBy(k, results, r)
  BY <1>2 DEF ReportedBy
<1> QED BY <1>1, <1>3 DEF ReportsOf

\* Two sets of reports are equal when they have the same members.
LEMMA SameReports ==
  ASSUME NEW i, NEW outcomes, NEW results, NEW i2, NEW outcomes2, NEW results2,
         \A r : r \in ReportsOf(i, outcomes, results) <=>
                r \in ReportsOf(i2, outcomes2, results2)
  PROVE  ReportsOf(i, outcomes, results) = ReportsOf(i2, outcomes2, results2)
<1> HIDE DEF ReportsOf
<1>1. ReportsOf(i, outcomes, results) \subseteq ReportsOf(i2, outcomes2, results2)
  OBVIOUS
<1>2. ReportsOf(i2, outcomes2, results2) \subseteq ReportsOf(i, outcomes, results)
  OBVIOUS
<1> QED BY <1>1, <1>2

\* The mapping's reports are those.
LEMMA ReportsAre ==
  /\ Reports = ReportsOf(at, per_gateway, checkpoint_results)
  /\ Reports' = ReportsOf(at', per_gateway', checkpoint_results')
BY DEF Reports, ReportsOf

\* A new result brings no report.
LEMMA CheckCheckpointSilent ==
  ASSUME RInv, CheckCheckpoint
  PROVE  Reports' = Reports
<1>1. PICK res : /\ checkpoint_results' = Append(checkpoint_results, res)
                 /\ res.on_chain = Absent
  <2> DEFINE cp == bundle.checkpoints[Len(checkpoint_results) + 1]
             res == [tx_id          |-> IF cp.tx_id = Absent THEN "" ELSE cp.tx_id,
                     envelope_ok    |-> EnvelopeBound(cp),
                     merkle_root_ok |-> RootBound(cp),
                     on_chain       |-> Absent,
                     ok             |-> EnvelopeBound(cp) /\ RootBound(cp)]
  <2>1. checkpoint_results' = Append(checkpoint_results, res)
    BY DEF CheckCheckpoint
  <2>2. res.on_chain = Absent
    OBVIOUS
  <2> HIDE DEF res
  <2> QED BY <2>1, <2>2
<1>2. per_gateway = <<>> /\ per_gateway' = <<>>
  BY DEF RInv, CInv, RefetchInv, CheckCheckpoint, refetching
<1>3. /\ checkpoint_results \in Seq(CheckpointResults)
      /\ DOMAIN checkpoint_results = 1 .. Len(checkpoint_results)
      /\ DOMAIN checkpoint_results' = 1 .. Len(checkpoint_results) + 1
      /\ Len(checkpoint_results) \in Nat
      /\ checkpoint_results'[Len(checkpoint_results) + 1] = res
      /\ \A k \in DOMAIN checkpoint_results : checkpoint_results'[k] = checkpoint_results[k]
  BY <1>1 DEF RInv, CInv, IInv, TypeInv
<1>4. \A r : (\E k \in DOMAIN checkpoint_results' : ReportedBy(k, checkpoint_results', r))
             <=> (\E k \in DOMAIN checkpoint_results : ReportedBy(k, checkpoint_results, r))
  <2>1. ASSUME NEW k \in DOMAIN checkpoint_results, NEW r
        PROVE  /\ k \in DOMAIN checkpoint_results'
               /\ ReportedBy(k, checkpoint_results', r) <=> ReportedBy(k, checkpoint_results, r)
    BY <1>3 DEF ReportedBy
  <2>2. ASSUME NEW k \in DOMAIN checkpoint_results', NEW r,
               ReportedBy(k, checkpoint_results', r)
        PROVE  k \in DOMAIN checkpoint_results
    BY <1>1, <1>3, <2>2 DEF ReportedBy
  <2> QED BY <2>1, <2>2
<1>5. \A g : g \notin DOMAIN per_gateway /\ g \notin DOMAIN per_gateway'
  BY <1>2
<1>6. \A r : r \in ReportsOf(at', per_gateway', checkpoint_results') <=>
             r \in ReportsOf(at, per_gateway, checkpoint_results)
  BY <1>4, <1>5, InReports
<1> QED BY <1>6, SameReports, ReportsAre

\* The outcomes of the result at hand stay reported when it is finished.
LEMMA FinishSilent ==
  ASSUME RInv, FinishCheckpoint
  PROVE  Reports' = Reports
<1>1. /\ at \in DOMAIN checkpoint_results
      /\ DOMAIN checkpoint_results' = DOMAIN checkpoint_results
      /\ \A k \in DOMAIN checkpoint_results :
           k # at => checkpoint_results'[k] = checkpoint_results[k]
      /\ checkpoint_results'[at].on_chain =
           [rollup |-> Rollup(per_gateway), per_gateway |-> per_gateway]
  BY FinishExactly
<1>2. checkpoint_results[at].on_chain = Absent
  BY FinishExactly DEF RInv, ExactInv, CheckpointExact, Finished
<1>3. per_gateway' = <<>>
  BY DEF FinishCheckpoint
<1>4. checkpoint_results'[at].on_chain # Absent
  <2>1. [rollup |-> Rollup(per_gateway), per_gateway |-> per_gateway]
          \in [rollup : Outcomes, per_gateway : Seq(Outcomes)]
    BY RollupOutcome DEF RInv, CInv, IInv, TypeInv
  <2> QED BY <1>1, <2>1, OutcomeAssumption DEF Outcomes
<1>5. \A r : ReportedBy(at, checkpoint_results', r) <=>
             \E g \in DOMAIN per_gateway : r = <<at, per_gateway[g]>>
  <2>1. checkpoint_results'[at].on_chain.per_gateway = per_gateway
    BY <1>1
  <2> QED BY <1>4, <2>1 DEF ReportedBy
<1>6. \A r : ~ReportedBy(at, checkpoint_results, r)
  BY <1>2 DEF ReportedBy
<1>7. \A r : \A k \in DOMAIN checkpoint_results :
        k # at => (ReportedBy(k, checkpoint_results', r) <=> ReportedBy(k, checkpoint_results, r))
  BY <1>1 DEF ReportedBy
<1>8. \A g : g \notin DOMAIN per_gateway'
  BY <1>3
<1>9. ASSUME NEW r
      PROVE  r \in ReportsOf(at', per_gateway', checkpoint_results') <=>
             r \in ReportsOf(at, per_gateway, checkpoint_results)
  <2>1. r \in ReportsOf(at', per_gateway', checkpoint_results') <=>
          \E k \in DOMAIN checkpoint_results : ReportedBy(k, checkpoint_results', r)
    BY <1>1, <1>8, InReports
  <2>2. r \in ReportsOf(at, per_gateway, checkpoint_results) <=>
          \/ \E g \in DOMAIN per_gateway : r = <<at, per_gateway[g]>>
          \/ \E k \in DOMAIN checkpoint_results : ReportedBy(k, checkpoint_results, r)
    BY InReports
  <2> QED BY <1>1, <1>5, <1>6, <1>7, <2>1, <2>2
<1> QED BY <1>9, SameReports, ReportsAre

\* The entries that must be confirmed are those the re-fetch resolves.
LEMMA QueriedAre ==
  ASSUME CInv, KeptInv, Len(checkpoint_results) = Len(Entries),
         on_chain_checked, fetchable
  PROVE  Queried = {i \in 1 .. Len(checkpoint_results) : Resolves(i)}
<1>1. DOMAIN Entries = 1 .. Len(checkpoint_results)
  BY ListsOfBundle DEF CInv, IInv, TypeInv, Entries
<1>2. ASSUME NEW i \in 1 .. Len(checkpoint_results)
      PROVE  Resolves(i) <=>
               \E j \in DOMAIN Entries : IsKept(j) /\ Entries[j].tx_id = LookedUp(i)
  <2>1. checkpoint_results[i].tx_id = LookedUp(i)
    BY DEF CInv, TxInv, LookedUp, Entries
  <2> QED BY <2>1, KeptByTx DEF Resolves
<1> QED BY <1>1, <1>2 DEF Queried

\* A gateway's answer is a report about an entry that must be confirmed.
LEMMA ProbeReports ==
  ASSUME RInv, ProbeGateway
  PROVE  \E c \in Queried, o \in {"confirm", "mismatch", "unreachable"} :
           Reports' = Reports \cup {<<c, o>>}
<1>1. PICK o : /\ per_gateway' = Append(per_gateway, o)
               /\ o \in {"confirm", "mismatch", "unreachable"}
  <2>1. PICK answer : per_gateway' = Append(per_gateway, Outcome(Subject(at), answer))
    BY DEF ProbeGateway
  <2>2. Outcome(Subject(at), answer) \in {"confirm", "mismatch", "unreachable"}
    BY DEF Outcome
  <2> QED BY <2>1, <2>2
<1>2. /\ pc = "refetch" /\ fetchable /\ Resolves(at) /\ at <= Len(checkpoint_results)
      /\ at' = at /\ checkpoint_results' = checkpoint_results
  BY DEF ProbeGateway, Refetching, loops
<1>3. /\ Len(checkpoint_results) = Len(Entries) /\ on_chain_checked
      /\ at \in 1 .. Len(checkpoint_results)
  BY <1>2 DEF RInv, CInv, IInv, TypeInv, ProgressInv, GapInv, Entries
<1>4. at \in Queried
  BY <1>2, <1>3, QueriedAre DEF RInv
<1>5. /\ per_gateway \in Seq(Outcomes) /\ Len(per_gateway) \in Nat
      /\ DOMAIN per_gateway = 1 .. Len(per_gateway)
      /\ DOMAIN per_gateway' = 1 .. Len(per_gateway) + 1
      /\ per_gateway'[Len(per_gateway) + 1] = o
      /\ \A g \in DOMAIN per_gateway : per_gateway'[g] = per_gateway[g]
  BY <1>1 DEF RInv, CInv, IInv, TypeInv, Outcomes
<1>6. ASSUME NEW r
      PROVE  (\E g \in DOMAIN per_gateway' : r = <<at, per_gateway'[g]>>) <=>
             (\E g \in DOMAIN per_gateway : r = <<at, per_gateway[g]>>) \/ r = <<at, o>>
  <2>1. \A g : g \in DOMAIN per_gateway' <=>
                 g \in DOMAIN per_gateway \/ g = Len(per_gateway) + 1
    BY <1>5
  <2> QED BY <1>5, <2>1
<1>7. \A r : r \in ReportsOf(at', per_gateway', checkpoint_results') <=>
             r \in ReportsOf(at, per_gateway, checkpoint_results) \/ r = <<at, o>>
  <2> SUFFICES ASSUME NEW r
               PROVE  r \in ReportsOf(at, per_gateway', checkpoint_results) <=>
                      r \in ReportsOf(at, per_gateway, checkpoint_results) \/ r = <<at, o>>
    BY <1>2
  <2>1. r \in ReportsOf(at, per_gateway', checkpoint_results) <=>
          \/ \E g \in DOMAIN per_gateway' : r = <<at, per_gateway'[g]>>
          \/ \E k \in DOMAIN checkpoint_results : ReportedBy(k, checkpoint_results, r)
    BY InReports
  <2>2. r \in ReportsOf(at, per_gateway, checkpoint_results) <=>
          \/ \E g \in DOMAIN per_gateway : r = <<at, per_gateway[g]>>
          \/ \E k \in DOMAIN checkpoint_results : ReportedBy(k, checkpoint_results, r)
    BY InReports
  <2> QED BY <1>6, <2>1, <2>2
<1>8. Reports' = Reports \cup {<<at, o>>}
  <2> HIDE DEF ReportsOf
  <2>1. Reports' \subseteq Reports \cup {<<at, o>>}
    BY <1>7, ReportsAre
  <2>2. Reports \cup {<<at, o>>} \subseteq Reports'
    BY <1>7, ReportsAre
  <2> QED BY <2>1, <2>2
<1> QED BY <1>1, <1>4, <1>8

\* At the rollup the reports are the outcomes of the finished results.
LEMMA RollupReports ==
  ASSUME RInv, pc = "rollup"
  PROVE  /\ \A c, o : <<c, o>> \in Reports =>
              c \in 1 .. Len(checkpoint_results) /\ Finished(c)
         /\ \A i \in 1 .. Len(checkpoint_results) : Finished(i) =>
              /\ i \in Queried
              /\ \A o : <<i, o>> \in Reports <=>
                          Some(checkpoint_results[i].on_chain.per_gateway, o)
              /\ checkpoint_results[i].on_chain.rollup =
                   Rollup(checkpoint_results[i].on_chain.per_gateway)
<1>1. /\ per_gateway = <<>> /\ Len(checkpoint_results) = Len(Entries)
      /\ DOMAIN checkpoint_results = 1 .. Len(checkpoint_results)
      /\ Len(checkpoint_results) \in Nat /\ at \in Nat
  BY DEF RInv, GapInv, CInv, IInv, TypeInv, ProgressInv, Entries
<1>2. \A g : g \notin DOMAIN per_gateway
  BY <1>1
<1>3. \A r : r \in Reports <=>
        \E k \in 1 .. Len(checkpoint_results) : ReportedBy(k, checkpoint_results, r)
  BY <1>1, <1>2, InReports, ReportsAre
<1>4. ASSUME NEW i \in 1 .. Len(checkpoint_results), ~Finished(i)
      PROVE  checkpoint_results[i].on_chain = Absent
  BY <1>4 DEF RInv, ExactInv, CheckpointExact
<1>5. ASSUME NEW c, NEW o, <<c, o>> \in Reports
      PROVE  c \in 1 .. Len(checkpoint_results) /\ Finished(c)
  <2>1. PICK k \in 1 .. Len(checkpoint_results) : ReportedBy(k, checkpoint_results, <<c, o>>)
    BY <1>3, <1>5
  <2>2. c = k /\ checkpoint_results[k].on_chain # Absent
    BY <2>1 DEF ReportedBy
  <2> QED BY <1>4, <2>2
<1>6. ASSUME NEW i \in 1 .. Len(checkpoint_results), Finished(i)
      PROVE  /\ i \in Queried
             /\ \A o : <<i, o>> \in Reports <=>
                         Some(checkpoint_results[i].on_chain.per_gateway, o)
             /\ checkpoint_results[i].on_chain.rollup =
                  Rollup(checkpoint_results[i].on_chain.per_gateway)
  <2>1. on_chain_checked /\ fetchable
    BY <1>1, <1>6 DEF Finished, RInv, GapInv
  <2>2. i \in Queried
    BY <1>1, <1>6, <2>1, QueriedAre DEF Finished, RInv
  <2>3. i \in 1 .. at - 1 /\ Answered(i)
    BY <1>1, <1>6 DEF Finished, RInv, CInv, RefetchInv
  <2> DEFINE found == checkpoint_results[i].on_chain
  <2>4. /\ found \in OnChainResults /\ found # Absent
        /\ found.rollup = Rollup(found.per_gateway)
        /\ found.per_gateway \in Seq(Outcomes)
        /\ DOMAIN found.per_gateway = 1 .. Len(found.per_gateway)
    <3>1. found \in OnChainResults /\ found.rollup = Rollup(found.per_gateway)
      BY <2>3 DEF Answered
    <3> HIDE DEF found
    <3>2. found # Absent
      BY <3>1, OutcomeAssumption DEF OnChainResults, Outcomes
    <3> QED BY <3>1, <3>2 DEF OnChainResults
  <2>5. ASSUME NEW o
        PROVE  <<i, o>> \in Reports <=> \E g \in DOMAIN found.per_gateway : found.per_gateway[g] = o
    <3>1. ASSUME <<i, o>> \in Reports
          PROVE  \E g \in DOMAIN found.per_gateway : found.per_gateway[g] = o
      <4>1. PICK k \in 1 .. Len(checkpoint_results) : ReportedBy(k, checkpoint_results, <<i, o>>)
        BY <1>3, <3>1
      <4>2. PICK g \in DOMAIN checkpoint_results[k].on_chain.per_gateway :
              <<i, o>> = <<k, checkpoint_results[k].on_chain.per_gateway[g]>>
        BY <4>1 DEF ReportedBy
      <4> QED BY <4>2
    <3>2. ASSUME NEW g \in DOMAIN found.per_gateway, found.per_gateway[g] = o
          PROVE  <<i, o>> \in Reports
      <4>1. ReportedBy(i, checkpoint_results, <<i, o>>)
        BY <2>4, <3>2 DEF ReportedBy
      <4> QED BY <1>3, <4>1
    <3> QED BY <3>1, <3>2
  <2> HIDE DEF found
  <2>6. \A o : <<i, o>> \in Reports <=> Some(found.per_gateway, o)
    BY <2>4, <2>5 DEF Some
  <2> QED BY <2>2, <2>4, <2>6 DEF found
<1> QED BY <1>5, <1>6

-----------------------------------------------------------------------------
(* What the rollup decides.                                                *)

AnyMismatch == \E c \in Queried : <<c, "mismatch">> \in Reports
AllConfirmed == \A c \in Queried : <<c, "confirm">> \in Reports

\* The results have a finding iff the bundle or a report has one; without a
\* finding, an answer is missing iff an entry is not confirmed.
LEMMA RollupFacts ==
  ASSUME RInv, pc = "rollup"
  PROVE  /\ HardFailure <=> Unsound \/ AnyMismatch
         /\ ~HardFailure => (gateway_unavailable <=> ~AllConfirmed)
         /\ WithheldRecord <=> Withheld
<1>1. /\ Len(checkpoint_results) = Len(Entries) /\ Len(checkpoint_results) \in Nat
      /\ DOMAIN checkpoint_results = 1 .. Len(checkpoint_results)
      /\ DOMAIN Entries = 1 .. Len(checkpoint_results)
      /\ DOMAIN event_results = 1 .. Len(event_results)
      /\ DOMAIN bundle.events = 1 .. Len(event_results)
      /\ at \in Nat
  BY ListsOfBundle DEF RInv, CInv, IInv, TypeInv, ProgressInv, Entries
<1> DEFINE Rolled(i) == checkpoint_results[i].on_chain.rollup
<1>2. ASSUME NEW i \in 1 .. Len(checkpoint_results), Finished(i)
      PROVE  /\ Rolled(i) \in Outcomes
             /\ Rolled(i) = "mismatch" <=> <<i, "mismatch">> \in Reports
             /\ Rolled(i) # "mismatch" =>
                  (Rolled(i) = "confirm" <=> <<i, "confirm">> \in Reports)
  BY <1>2, RollupReports, RollupOutcome DEF Rollup
<1>3. AnyMismatch <=>
        \E i \in 1 .. Len(checkpoint_results) : Finished(i) /\ Rolled(i) = "mismatch"
  BY <1>2, RollupReports DEF AnyMismatch
<1>4. \A i \in 1 .. Len(checkpoint_results) :
        checkpoint_results[i].ok <=>
          /\ EnvelopeBound(Entries[i]) /\ RootBound(Entries[i])
          /\ ~(Finished(i) /\ Rolled(i) = "mismatch")
  BY DEF RInv, ExactInv, CheckpointExact
<1>5. HardFailure <=> Unsound \/ AnyMismatch
  <2>1. HardFailure <=>
          \/ \E i \in 1 .. Len(checkpoint_results) : ~checkpoint_results[i].ok
          \/ \E i \in 1 .. Len(event_results) : ~event_results[i].ok
    BY <1>1 DEF HardFailure
  <2>2. Unsound <=>
          \/ \E i \in 1 .. Len(checkpoint_results) :
               ~EnvelopeBound(Entries[i]) \/ ~RootBound(Entries[i])
          \/ \E i \in 1 .. Len(event_results) : ~EventSound(bundle.events[i])
    BY <1>1 DEF Unsound
  <2>3. \A i \in 1 .. Len(event_results) :
          event_results[i].ok <=> EventSound(bundle.events[i])
    BY DEF RInv, ExactInv, EventResultExact
  <2> HIDE DEF Rolled
  <2> QED BY <1>3, <1>4, <2>1, <2>2, <2>3
<1>6. ASSUME ~HardFailure
      PROVE  gateway_unavailable <=> ~AllConfirmed
  <2>1. CASE ~on_chain_checked
    <3>1. Queried = {} /\ ~gateway_unavailable
      BY <2>1 DEF Queried, RInv, GapInv
    <3> QED BY <3>1 DEF AllConfirmed
  <2>2. CASE on_chain_checked /\ ~fetchable
    <3>1. Queried = {0} /\ gateway_unavailable
      BY <2>2 DEF Queried, RInv, GapInv
    <3>2. <<0, "confirm">> \notin Reports
      BY <1>1, RollupReports
    <3> QED BY <3>1, <3>2 DEF AllConfirmed
  <2>3. CASE on_chain_checked /\ fetchable
    <3>1. at = Len(checkpoint_results) + 1
      BY <2>3 DEF RInv, GapInv
    <3>2. \A i \in 1 .. Len(checkpoint_results) : Finished(i) <=> Resolves(i)
      BY <1>1, <3>1 DEF Finished
    <3>3. Queried = {i \in 1 .. Len(checkpoint_results) : Resolves(i)}
      BY <1>1, <2>3, QueriedAre DEF RInv
    <3>4. gateway_unavailable <=>
            \E i \in 1 .. Len(checkpoint_results) : Resolves(i) /\ Rolled(i) = "unreachable"
      <4>1. 1 .. at - 1 = 1 .. Len(checkpoint_results)
        BY <1>1, <3>1
      <4> QED BY <2>3, <4>1 DEF RInv, GapInv
    <3>5. \A i \in 1 .. Len(checkpoint_results) : Resolves(i) => Rolled(i) # "mismatch"
      BY <1>1, <1>3, <1>5, <1>6, <3>2
    <3>6. ASSUME NEW i \in 1 .. Len(checkpoint_results), Resolves(i)
          PROVE  Rolled(i) = "unreachable" <=> <<i, "confirm">> \notin Reports
      <4>1. /\ Rolled(i) \in Outcomes /\ Rolled(i) # "mismatch"
            /\ Rolled(i) = "confirm" <=> <<i, "confirm">> \in Reports
        BY <1>2, <3>2, <3>5, <3>6
      <4> HIDE DEF Rolled
      <4> QED BY <4>1 DEF Outcomes
    <3> HIDE DEF Rolled
    <3> QED BY <3>3, <3>4, <3>6 DEF AllConfirmed
  <2> QED BY <2>1, <2>2, <2>3
<1>7. WithheldRecord <=> Withheld
  BY <1>1 DEF WithheldRecord, Withheld, RInv, CInv, IInv, EventInv
<1> QED BY <1>5, <1>6, <1>7

\* The judgement, as the cases of the rollup.
Judged ==
  IF WrapperVerdict # "trace" THEN WrapperVerdict
  ELSE IF Unsound \/ AnyMismatch THEN "failed"
  ELSE IF AllConfirmed /\ ~Withheld /\ ~(Len(Entries) = 0) THEN "verified"
  ELSE "partial"

LEMMA JudgementIs == Verdict!Judgement = Judged
BY Zenon DEF Verdict!Judgement, Verdict!Mismatch, Verdict!Confirmed, AnyMismatch,
             AllConfirmed, Judged

\* Every return is the judgement.
LEMMA ReturnsJudgement ==
  ASSUME RInv,
         \/ RejectMalformed \/ RejectTampered \/ UnknownBody \/ RejectLists
         \/ RollupFailed \/ RollupUnavailable \/ RollupVerified \/ RollupUndetermined
  PROVE  status = Absent /\ status' = Verdict!Judgement /\ Reports' = Reports
<1>1. /\ UNCHANGED <<args, loops, refetching>>
      /\ pc # "done"
  BY DEF RejectMalformed, RejectTampered, UnknownBody, RejectLists, RollupFailed,
         RollupUnavailable, RollupVerified, RollupUndetermined, Return
<1>2. status = Absent
  BY <1>1 DEF RInv, CInv, IInv, TypeInv
<1>3. Reports' = Reports
  BY <1>1 DEF Reports, loops, refetching
<1>4. Verdict!Judgement =
        IF WrapperVerdict # "trace" THEN WrapperVerdict
        ELSE IF Unsound \/ AnyMismatch THEN "failed"
        ELSE IF AllConfirmed /\ ~Withheld /\ ~(Len(Entries) = 0) THEN "verified"
        ELSE "partial"
  BY JudgementIs DEF Judged
<1>5. ASSUME RejectMalformed PROVE status' = Verdict!Judgement
  <2>1. ~Authentic /\ bundle.defects \cap Malforming # {}
    BY <1>5 DEF RejectMalformed, Authentic
  <2>2. WrapperVerdict = "malformed"
    BY Zenon, <2>1 DEF WrapperVerdict
  <2> QED BY <1>4, <1>5, <2>2 DEF RejectMalformed, Return
<1>6. ASSUME RejectTampered PROVE status' = Verdict!Judgement
  <2>1. ~Authentic /\ ~(bundle.defects \cap Malforming # {})
    BY <1>6 DEF RejectTampered, Authentic
  <2>2. WrapperVerdict = "failed"
    BY Zenon, <2>1 DEF WrapperVerdict
  <2> QED BY <1>4, <1>6, <2>2 DEF RejectTampered, Return
<1>7. ASSUME UnknownBody PROVE status' = Verdict!Judgement
  <2>1. WrapperVerdict = "partial"
    BY Zenon, <1>7 DEF UnknownBody, WrapperVerdict
  <2> QED BY <1>4, <1>7, <2>1 DEF UnknownBody, Return
<1>8. ASSUME RejectLists PROVE status' = Verdict!Judgement
  <2>1. WrapperVerdict = "malformed"
    BY Zenon, <1>8 DEF RejectLists, WrapperVerdict
  <2> QED BY <1>4, <1>8, <2>1 DEF RejectLists, Return
<1>9. ASSUME pc = "rollup"
      PROVE  /\ WrapperVerdict = "trace"
             /\ HardFailure <=> Unsound \/ AnyMismatch
             /\ ~HardFailure => (gateway_unavailable <=> ~AllConfirmed)
             /\ WithheldRecord <=> Withheld
             /\ Len(Entries) = Len(checkpoint_results) /\ Len(checkpoint_results) \in Nat
  BY <1>9, RollupFacts DEF RInv, GapInv, CInv, IInv, TypeInv, ProgressInv, Entries
<1>10. ASSUME RollupFailed PROVE status' = Verdict!Judgement
  BY <1>4, <1>9, <1>10 DEF RollupFailed, Return
<1>11. ASSUME RollupUnavailable PROVE status' = Verdict!Judgement
  BY <1>4, <1>9, <1>11 DEF RollupUnavailable, Return
<1>12. ASSUME RollupVerified PROVE status' = Verdict!Judgement
  BY <1>4, <1>9, <1>12 DEF RollupVerified, Return
<1>13. ASSUME RollupUndetermined PROVE status' = Verdict!Judgement
  BY <1>4, <1>9, <1>13 DEF RollupUndetermined, Return
<1> QED BY <1>2, <1>3, <1>5, <1>6, <1>7, <1>8, <1>10, <1>11, <1>12, <1>13

\* The other steps do not show.
LEMMA SilentSteps ==
  ASSUME RInv,
         \/ EnterTrace \/ CheckCheckpoint \/ CheckpointsDone \/ CheckEvent \/ EventsDone
         \/ NoFetchImplementation \/ SkipUnresolved \/ FinishCheckpoint \/ RefetchDone
         \/ UNCHANGED vars
  PROVE  status' = status /\ Reports' = Reports
<1>1. CASE SkipUnresolved
  <2>1. /\ per_gateway' = per_gateway /\ checkpoint_results' = checkpoint_results
        /\ status' = status
    BY <1>1 DEF SkipUnresolved, loops
  <2>2. per_gateway = <<>>
    BY <1>1 DEF SkipUnresolved, Refetching, RInv, GapInv
  <2>3. \A g : g \notin DOMAIN per_gateway
    BY <2>2
  <2>4. \A r : r \in ReportsOf(at', per_gateway', checkpoint_results') <=>
               r \in ReportsOf(at, per_gateway, checkpoint_results)
    BY <2>1, <2>3, InReports
  <2> QED BY <2>1, <2>4, SameReports, ReportsAre
<1>2. CASE CheckCheckpoint
  BY <1>2, CheckCheckpointSilent DEF CheckCheckpoint
<1>3. CASE FinishCheckpoint
  BY <1>3, FinishSilent DEF FinishCheckpoint
<1>4. CASE \/ EnterTrace \/ CheckpointsDone \/ CheckEvent \/ EventsDone
           \/ NoFetchImplementation \/ RefetchDone \/ UNCHANGED vars
  <2>1. /\ at' = at /\ per_gateway' = per_gateway
        /\ checkpoint_results' = checkpoint_results /\ status' = status
    BY <1>4 DEF EnterTrace, CheckpointsDone, CheckEvent, EventsDone, NoFetchImplementation,
                RefetchDone, vars, loops, refetching
  <2> QED BY <2>1, ReportsAre
<1> QED BY <1>1, <1>2, <1>3, <1>4

(***************************************************************************)
(* verify_evidence_bundle implements EvidenceVerdict step by step, for any *)
(* bundle, gateways and answers: the status is returned once, as the       *)
(* judgement over the whole bundle and every report, in whatever order     *)
(* the loops came to it.  ImplementsVerdict adds that it is returned.      *)
(***************************************************************************)
THEOREM StepsImplementVerdict == Spec => Verdict!Init /\ [][Verdict!Next]_(Verdict!vars)
<1>1. Init => Verdict!Init
  <2> SUFFICES ASSUME Init PROVE Verdict!Init
    OBVIOUS
  <2>1. /\ per_gateway = <<>> /\ checkpoint_results = <<>> /\ status = Absent
    BY DEF Init
  <2>2. Reports = {}
    BY <2>1 DEF Reports, OutcomesIn
  <2>3. WrapperVerdict \in {"malformed", "failed", "partial", "trace"}
    BY DEF WrapperVerdict
  <2>4. Unsound \in BOOLEAN /\ Withheld \in BOOLEAN
    BY DEF Unsound, Withheld
  <2> QED BY <2>1, <2>2, <2>3, <2>4 DEF Verdict!Init
<1>2. RInv /\ [Next]_vars => [Verdict!Next]_(Verdict!vars)
  <2> SUFFICES ASSUME RInv, [Next]_vars PROVE [Verdict!Next]_(Verdict!vars)
    OBVIOUS
  <2>1. UNCHANGED Verdict!facts
    BY ArgumentsStay, FactsStay DEF Verdict!facts
  <2>2. CASE \/ RejectMalformed \/ RejectTampered \/ UnknownBody \/ RejectLists
             \/ RollupFailed \/ RollupUnavailable \/ RollupVerified \/ RollupUndetermined
    <3>1. status = Absent /\ status' = Verdict!Judgement /\ Reports' = Reports
      BY <2>2, ReturnsJudgement
    <3>2. Verdict!Decide
      BY <2>1, <3>1 DEF Verdict!Decide
    <3> QED BY <3>2 DEF Verdict!Next
  <2>3. CASE ProbeGateway
    <3>1. status = Absent /\ status' = status
      BY <2>3 DEF ProbeGateway, Refetching, RInv, CInv, IInv, TypeInv
    <3>2. Verdict!Report
      BY <2>1, <2>3, <3>1, ProbeReports DEF Verdict!Report
    <3> QED BY <3>2 DEF Verdict!Next
  <2>4. CASE \/ EnterTrace \/ CheckCheckpoint \/ CheckpointsDone \/ CheckEvent \/ EventsDone
             \/ NoFetchImplementation \/ SkipUnresolved \/ FinishCheckpoint \/ RefetchDone
             \/ UNCHANGED vars
    <3>1. status' = status /\ Reports' = Reports
      BY <2>4, SilentSteps
    <3>2. UNCHANGED Verdict!vars
      BY <2>1, <3>1 DEF Verdict!vars
    <3> QED BY <3>2
  <2> QED BY <2>2, <2>3, <2>4 DEF Next
<1> QED BY <1>1, <1>2, RefinedInvariance, PTL DEF Spec

-----------------------------------------------------------------------------
(* What a call has found when it returns.                                  *)

TraceNotes ==
  {"malformed", "wrapper", "body_type", "marker", "no fetch", "could not be re-fetched"}

\* The judgement, over all the results or over none.
DoneInv ==
  /\ pc = "done" => status = Verdict!Judgement
  /\ pc = "parse" => checkpoint_results = <<>> /\ event_results = <<>>
  /\ pc = "done" =>
       IF WrapperVerdict = "trace"
       THEN /\ Len(checkpoint_results) = Len(Entries)
            /\ Len(event_results) = Len(bundle.events)
       ELSE checkpoint_results = <<>> /\ event_results = <<>>
  /\ notes \subseteq TraceNotes

JInv == RInv /\ DoneInv

\* Nothing has been found at first.
LEMMA FreshJudged == Fresh => JInv
BY FreshRefined DEF Fresh, JInv, DoneInv

\* A call returns once, with the judgement.
LEMMA NextJudged == JInv /\ [Next]_vars => JInv'
<1> SUFFICES ASSUME JInv, [Next]_vars PROVE JInv'
  OBVIOUS
<1>1. RInv /\ RInv'
  BY NextRefined DEF JInv
<1>2. /\ WrapperVerdict' = WrapperVerdict /\ (Len(Entries))' = Len(Entries)
      /\ bundle' = bundle
  BY ArgumentsStay, FactsStay DEF args, Entries
<1>3. ASSUME Reports' = Reports PROVE Verdict!Judgement' = Verdict!Judgement
  <2>1. (Verdict!Judgement = Judged)'
    BY JudgementIs, PTL
  <2>2. Judged' = Judged
    BY <1>2, <1>3, ArgumentsStay, FactsStay DEF Judged, AnyMismatch, AllConfirmed
  <2> QED BY <2>1, <2>2, JudgementIs
<1>4. CASE UNCHANGED vars
  <2>1. /\ status' = status /\ pc' = pc /\ notes' = notes /\ Reports' = Reports
        /\ checkpoint_results' = checkpoint_results /\ event_results' = event_results
    BY <1>1, <1>4, SilentSteps DEF vars, loops
  <2> QED BY <1>1, <1>2, <1>3, <2>1 DEF JInv, DoneInv
<1>5. CASE \/ RejectMalformed \/ RejectTampered \/ UnknownBody \/ RejectLists
           \/ RollupFailed \/ RollupUnavailable \/ RollupVerified \/ RollupUndetermined
  <2>1. status' = Verdict!Judgement /\ Reports' = Reports
    BY <1>1, <1>5, ReturnsJudgement
  <2>2. pc' = "done" /\ UNCHANGED <<args, loops>>
    BY <1>5 DEF RejectMalformed, RejectTampered, UnknownBody, RejectLists, RollupFailed,
                RollupUnavailable, RollupVerified, RollupUndetermined, Return
  <2>3. notes' \subseteq TraceNotes
    <3>1. \/ notes' = notes \/ notes' = notes \cup {"malformed"}
          \/ notes' = notes \cup {"wrapper"} \/ notes' = notes \cup {"could not be re-fetched"}
          \/ notes' = notes \cup ({"body_type"} \cup
                        IF bundle.body_type = "marked" THEN {"marker"} ELSE {})
      BY <1>5 DEF RejectMalformed, RejectTampered, UnknownBody, RejectLists, RollupFailed,
                  RollupUnavailable, RollupVerified, RollupUndetermined, Return
    <3> QED BY <3>1 DEF JInv, DoneInv, TraceNotes
  <2>4. CASE RejectMalformed \/ RejectTampered \/ UnknownBody \/ RejectLists
    <3>1. pc = "parse" /\ WrapperVerdict # "trace"
      BY <2>4 DEF RejectMalformed, RejectTampered, UnknownBody, RejectLists, WrapperVerdict,
                  Authentic
    <3> QED BY <1>1, <1>2, <1>3, <2>1, <2>2, <2>3, <3>1 DEF JInv, DoneInv, loops
  <2>5. CASE RollupFailed \/ RollupUnavailable \/ RollupVerified \/ RollupUndetermined
    <3>1. pc = "rollup"
      BY <2>5 DEF RollupFailed, RollupUnavailable, RollupVerified, RollupUndetermined
    <3>2. /\ WrapperVerdict = "trace" /\ Len(checkpoint_results) = Len(Entries)
          /\ Len(event_results) = Len(bundle.events)
      BY <1>1, <3>1 DEF RInv, GapInv, CInv, IInv, ProgressInv, Entries
    <3> QED BY <1>1, <1>2, <1>3, <2>1, <2>2, <2>3, <3>2 DEF JInv, DoneInv, loops
  <2> QED BY <1>5, <2>4, <2>5
<1>6. CASE \/ EnterTrace \/ CheckCheckpoint \/ CheckpointsDone \/ CheckEvent \/ EventsDone
           \/ NoFetchImplementation \/ SkipUnresolved \/ ProbeGateway \/ FinishCheckpoint
           \/ RefetchDone
  <2>1. pc' \notin {"parse", "done"}
    BY <1>6 DEF EnterTrace, CheckCheckpoint, CheckpointsDone, CheckEvent, EventsDone,
                NoFetchImplementation, SkipUnresolved, ProbeGateway, FinishCheckpoint,
                RefetchDone, Refetching
  <2>2. notes' = notes \/ notes' = notes \cup {"no fetch"}
    BY <1>6 DEF EnterTrace, CheckCheckpoint, CheckpointsDone, CheckEvent, EventsDone,
                NoFetchImplementation, SkipUnresolved, ProbeGateway, FinishCheckpoint,
                RefetchDone
  <2> QED BY <1>1, <2>1, <2>2 DEF JInv, DoneInv, TraceNotes
<1> QED BY <1>4, <1>5, <1>6 DEF Next
=============================================================================
