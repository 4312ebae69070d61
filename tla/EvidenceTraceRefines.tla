------------------------ MODULE EvidenceTraceRefines ------------------------
(***************************************************************************)
(* EvidenceTrace implements EvidenceVerdict: the loops compute the verdict *)
(* that follows from the bundle as a whole and from what the gateways have *)
(* reported.                                                               *)
(***************************************************************************)
EXTENDS EvidenceTrace

Entries == bundle.checkpoints

\* The entry by_tx_id will keep for tx: the first of those that carry it.
IsKept(i) ==
  /\ Entries[i].tx_id # Absent
  /\ \A j \in 1 .. i - 1 : Entries[j].tx_id # Entries[i].tx_id

\* What a result's tx_id is looked up as: a missing one reads as "".
LookedUp(i) == IF Entries[i].tx_id = Absent THEN "" ELSE Entries[i].tx_id

WrapperVerdict ==
  CASE ~Authentic -> IF bundle.defects \cap Malforming # {} THEN "malformed" ELSE "failed"
    [] Authentic /\ bundle.body_type # "trace" -> "partial"
    [] OTHER -> IF "no lists" \in bundle.defects THEN "malformed" ELSE "trace"

\* Its path leads from the event's own envelope to the root of a kept entry.
Included(ev) ==
  /\ ev.inclusion # Absent
  /\ ev.inclusion.leaf = leaf_hash(ev.envelope)
  /\ \E i \in DOMAIN Entries :
       /\ IsKept(i)
       /\ Entries[i].tx_id = ev.inclusion.tx_id
       /\ Entries[i].merkle_root = ev.inclusion.reaches

EventSound(ev) ==
  /\ VerifyOk(ev.envelope, ev.record, FALSE)
  /\ ContentOk(ev) # "false"
  /\ Included(ev)

Unsound ==
  \/ \E i \in DOMAIN Entries : ~EnvelopeBound(Entries[i]) \/ ~RootBound(Entries[i])
  \/ \E i \in DOMAIN bundle.events : ~EventSound(bundle.events[i])

Withheld ==
  \E i \in DOMAIN bundle.events :
    payload_hash_ok(bundle.events[i].envelope, bundle.events[i].record) = "none"

\* With gateways, every entry whose tx_id is that of a kept one is confirmed;
\* 0 stands for the entry nobody can confirm when there is no way to fetch.
Queried ==
  IF ~on_chain_checked THEN {}
  ELSE IF ~fetchable THEN {0}
  ELSE {i \in DOMAIN Entries :
          \E j \in DOMAIN Entries : IsKept(j) /\ Entries[j].tx_id = LookedUp(i)}

OutcomesIn(seq) == {seq[g] : g \in DOMAIN seq}

Reports ==
  {<<at, o>> : o \in OutcomesIn(per_gateway)} \cup
  UNION {{<<i, o>> : o \in OutcomesIn(checkpoint_results[i].on_chain.per_gateway)}
         : i \in {j \in DOMAIN checkpoint_results : checkpoint_results[j].on_chain # Absent}}

Verdict == INSTANCE EvidenceVerdict WITH
  Pending  <- Absent,
  wrapper  <- WrapperVerdict,
  unsound  <- Unsound,
  withheld <- Withheld,
  empty    <- Len(Entries) = 0,
  queried  <- Queried,
  reports  <- Reports,
  verdict  <- status

(***************************************************************************)
(* verify_evidence_bundle implements the abstract verdict: whatever the    *)
(* order of the loops, the status is that of the worst finding, decided    *)
(* once, from every report of every gateway.                               *)
(***************************************************************************)
ImplementsVerdict == Verdict!Spec
=============================================================================
