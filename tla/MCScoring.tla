------------------------------ MODULE MCScoring -------------------------------
(***************************************************************************)
(* Instances of Scoring for TLC.                                           *)
(***************************************************************************)
EXTENDS Scoring, TLC

CONSTANTS a1, a2, a3, a4, a5, f1, f2, f3, t1, g1, g2, p1, w1, w2

SymmetricWorkers == Permutations(Workers)

F(category, signal, marks, source) ==
  [category |-> category, signal |-> signal, marks |-> marks, source |-> source,
   lowTrust |-> source = "s2"]

\* f1 alone comes to 75 and so do f2 and t1; f3 matches no rule; g2 has no signal, and
\* counts when it is stale.
SeveralFacts ==
  f1 :> F("firmographic", "none", {"exact", "use_case", "geography"}, "s1")
  @@ f2 :> F("firmographic", "none",
             {"adjacent", "use_case", "conflicting_firmographics", "conflicting_sources"}, "s2")
  @@ f3 :> F("firmographic", "none", {}, "s2")
  @@ t1 :> F("technographic", "none", {"technographic", "geography"}, "s2")
  @@ g1 :> F("trigger", "hiring", {"contradictory"}, "s1")
  @@ g2 :> F("trigger", "none", {}, "s2")
  @@ p1 :> F("persona_fit", "none", {"exact", "geography"}, "s1")

Whole == [country |-> TRUE, named |-> TRUE, domain |-> TRUE, context |-> TRUE,
          status |-> "candidate"]

\* Without name and domain; without a country; posted as a target; under another status.
SeveralCompanies ==
  a1 :> Whole @@ a2 :> [Whole EXCEPT !.named = FALSE, !.domain = FALSE]
  @@ a3 :> [Whole EXCEPT !.country = FALSE] @@ a4 :> [Whole EXCEPT !.status = "target"]
  @@ a5 :> [Whole EXCEPT !.status = "other"]

Row(k, a, some) == [key |-> k, account |-> a, listed |-> some # {}, list |-> some,
                    missing |-> FALSE, budget |-> 1]

Several == {Row(1, a1, {}), Row(2, a1, {f1, t1})}
Single == {Row(3, a2, {}), Row(4, a3, {}), Row(5, NoAccount, {}),
           Row(8, a4, {}), Row(9, a5, {}),
           [Row(6, a1, {f1}) EXCEPT !.missing = TRUE], [Row(7, a1, {f1}) EXCEPT !.budget = 0]}

Rows == Several \cup Single

TwoOfOneAccountOrOneRow == {Several} \cup {{it} : it \in Single}

\* A link away from a target, by way of a stale g2 or of t1.
SomeEvidence == {{}, {f1, g2, p1}, {f2, g1}, {f2, t1}}
=============================================================================
