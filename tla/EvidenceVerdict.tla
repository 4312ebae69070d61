--------------------------- MODULE EvidenceVerdict ---------------------------
(***************************************************************************)
(* What verify_evidence_bundle promises about its verdict, without its     *)
(* loops: while the verdict is pending the gateways report; the verdict is *)
(* then the worst finding about the bundle and the reports.                *)
(*                                                                         *)
(* Facts about the bundle are parameters: the wrapper's own verdict (or    *)
(* "trace"), which checkpoint and event entries are unsound on their own,  *)
(* whether a record is withheld, and which checkpoints must be confirmed.  *)
(***************************************************************************)
CONSTANTS
  Pending       \* the verdict before the call returns

VARIABLES
  wrapper,      \* "malformed", "failed", "partial", or "trace": go by the body
  unsound,      \* whether some entry of the body fails on its own
  withheld,     \* whether some event's record is withheld
  empty,        \* whether the trace has no checkpoints
  queried,      \* the checkpoints to be confirmed on chain
  reports,      \* set of <<checkpoint, outcome>> the gateways gave
  verdict

facts == <<wrapper, unsound, withheld, empty, queried>>
vars == <<facts, reports, verdict>>

Init ==
  /\ wrapper \in {"malformed", "failed", "partial", "trace"}
  /\ unsound \in BOOLEAN /\ withheld \in BOOLEAN /\ empty \in BOOLEAN
  /\ reports = {}
  /\ verdict = Pending

Mismatch == \E c \in queried : <<c, "mismatch">> \in reports
Confirmed(c) == <<c, "confirm">> \in reports

\* Worst finding first; an availability gap only makes it undetermined.
Judgement ==
  CASE wrapper # "trace" -> wrapper
    [] wrapper = "trace" /\ (unsound \/ Mismatch) -> "failed"
    [] OTHER -> IF (\A c \in queried : Confirmed(c)) /\ ~withheld /\ ~empty
                THEN "verified" ELSE "partial"

Report ==
  /\ verdict = Pending
  /\ \E c \in queried, o \in {"confirm", "mismatch", "unreachable"} :
       reports' = reports \cup {<<c, o>>}
  /\ UNCHANGED <<facts, verdict>>

Decide ==
  /\ verdict = Pending
  /\ verdict' = Judgement
  /\ UNCHANGED <<facts, reports>>

Next == Report \/ Decide

Spec == Init /\ [][Next]_vars /\ WF_vars(Decide)
=============================================================================
