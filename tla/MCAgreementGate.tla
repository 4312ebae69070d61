--------------------------- MODULE MCAgreementGate ---------------------------
(***************************************************************************)
(* The gate over the cases generate_cases.py writes.                       *)
(***************************************************************************)
EXTENDS AgreementGate, ConformanceCorpus, FiniteSets

CONSTANT MaxLacks   \* how many checks the three kernels lack together

MCCases == AllCases

LacksOf(gaps) == [k \in Kernels |-> {c \in Checks : <<k, c>> \in gaps}]

\* Up to three gaps anywhere, so among them one check missing everywhere.
MCRegressions ==
  LET Gaps == Kernels \X Checks
      upTo[n \in 0 .. MaxLacks] ==
        IF n = 0 THEN {{}} ELSE {s \cup {g} : s \in upTo[n - 1], g \in Gaps} \cup upTo[n - 1]
  IN {LacksOf(s) : s \in upTo[MaxLacks]}

\* Payloads shallow and deep, in a profile all three kernels know.
MCFieldDrafts ==
  {[Bare(spec, "field") EXCEPT !.payload = p] :
     spec \in {"ario.agent/v1", "ario.events/v1"}, p \in {Absent, Record, Uncanonical}}
=============================================================================
