------------------------------- MODULE Scoring --------------------------------
(***************************************************************************)
(* The intent_fit_scoring stage: a worker scores an account by the rules   *)
(* its evidence matches, upserts the scorecard of the evidence used, and   *)
(* promotes the account to a target with a people_search row, or parks the *)
(* row in a lane.                                                          *)
(*                                                                         *)
(* An evidence row is its category, its source and the names of the        *)
(* attributes that are true of it. Discovery goes on linking evidence and  *)
(* aliases while jobs run, and evidence grows old.                         *)
(***************************************************************************)
EXTENDS Naturals, FiniteSets

CONSTANTS
  Accounts, NoAccount,
  Companies,     \* account -> what its row says, apart from evidence
  Evidence,
  Facts,         \* evidence id -> its row
  Items,         \* intent_fit_scoring rows of work_items
  Enqueued,      \* what may be enqueued at first: sets of rows
  FirstLinked,   \* the evidence an account may have at first: sets of evidence
  Workers,
  MaxLinks,      \* bound: evidence linked later
  MaxAborts      \* bound: jobs that raise or die

FitRules == {"exact", "adjacent", "use_case", "geography", "size_band", "technographic"}
Signals == {"hiring", "expansion", "tender", "new_capability"}

\* Attributes that are no rule.
Flags == {"conflicting_firmographics", "conflicting_sources", "contradictory",
          "conflicting_triggers", "stale"}

\* category "none": not one of the allowed ones. lowTrust: one of the two lowest tiers.
Fact == [category : {"firmographic", "technographic", "trigger", "persona_fit", "none"},
         signal : Signals \cup {"none"}, marks : SUBSET (FitRules \cup Flags),
         source : {"s1", "s2"}, lowTrust : BOOLEAN]

Statuses == {"candidate", "target", "other"}

\* context: the provenance names a query that exists, of a seller that is complete. status:
\* the first one, that of discovery or any that POST /accounts gave.
Company == [country : BOOLEAN, named : BOOLEAN, domain : BOOLEAN, context : BOOLEAN,
            status : Statuses]

\* listed: the payload has evidence_ids; missing: one of them has no row.
Item == [key : Nat \ {0}, account : Accounts \cup {NoAccount},
         listed : BOOLEAN, list : SUBSET Evidence, missing : BOOLEAN, budget : Nat]

Lanes == {"ok", "policy_blocked", "budget_exhausted", "no_signal", "no_fit", "needs_human"}
Outcomes == Lanes \cup {"contract_error"}

ASSUME ScoringAssumption ==
  /\ NoAccount \notin Accounts
  /\ IsFiniteSet(Evidence)
  /\ Companies \in [Accounts -> Company]
  /\ Facts \in [Evidence -> Fact]
  /\ Items \subseteq Item /\ Enqueued \subseteq SUBSET Items
  /\ FirstLinked \subseteq SUBSET Evidence
  /\ MaxLinks \in Nat /\ MaxAborts \in Nat

VARIABLES
  items,       \* intent_fit_scoring rows of work_items
  status,      \* account -> its status
  linked,      \* account -> its evidence_ids
  registered,  \* accounts with a registry alias
  aged,        \* evidence observed over 180 days ago
  cards,       \* scorecards: account and evidence used are their id
  people,      \* people_search rows that jobs asked for: account and evidence used
  events,      \* terminal events, as pairs of row and lane
  pc, job,     \* per worker: where its job is, and the row it loaded
  card,        \* per worker: the scorecard it computed
  lane,        \* per worker: the lane it decided on
  links,       \* how much evidence was linked later
  aborts,      \* how many jobs raised or died
  rated,       \* history: pairs of row and account, for the scorecards committed
  disturbed    \* history: rows with two jobs at once, or one that died after its commit

tables == <<items, status, linked, registered, aged, cards, people, events>>
history == <<rated, disturbed>>
vars == <<tables, pc, job, card, lane, links, aborts, history>>

NoJob == [key |-> 0, account |-> NoAccount, listed |-> FALSE, list |-> {}, missing |-> FALSE,
          budget |-> 0]
NoCard == [account |-> NoAccount, used |-> {}, fit |-> 0, fitConfidence |-> 0,
           intent |-> 0, intentConfidence |-> 0]

PcLabels == {"idle", "begun", "scored", "committed"}

-----------------------------------------------------------------------------
(***************************************************************************)
(* score_fit_intent. E is the evidence scored, old the evidence over 180   *)
(* days old. The account's own conflict flags are left out: the handler    *)
(* passes FALSE for each.                                                  *)
(***************************************************************************)
OfCategory(E, categories) == {e \in E : Facts[e].category \in categories}
Marked(E, m) == {e \in E : m \in Facts[e].marks}

FitEvidence(E) == OfCategory(E, {"firmographic", "technographic"})
Triggers(E) == OfCategory(E, {"trigger"})

\* The evidence that matches a fit rule.
FitMatches(E, r) ==
  CASE r = "adjacent" -> IF Marked(FitEvidence(E), "exact") # {} THEN {}
                         ELSE Marked(FitEvidence(E), "adjacent")
    [] r = "technographic" -> Marked(OfCategory(E, {"technographic"}), "technographic")
    [] OTHER -> Marked(FitEvidence(E), r)

SignalMatches(E, s) == {e \in Triggers(E) : Facts[e].signal = s}

\* _is_stale_over_180
Stale(E, old) == {e \in Triggers(E) : e \in old \/ "stale" \in Facts[e].marks}

Contradictions(E) == Marked(Triggers(E), "contradictory")

\* used_ids
Used(E, old) ==
  (UNION {FitMatches(E, r) : r \in FitRules}) \cup (UNION {SignalMatches(E, s) : s \in Signals})
    \cup Stale(E, old) \cup Contradictions(E)

\* FIT_POSITIVE_RULES and INTENT_POSITIVE_RULES.
RulePoints(r) ==
  CASE r = "exact" -> 35 [] r = "adjacent" -> 20 [] r = "use_case" -> 25
    [] r = "geography" -> 15 [] r = "size_band" -> 10 [] r = "technographic" -> 15
SignalPoints(s) == IF s = "new_capability" THEN 20 ELSE 35

When(p, points) == IF p THEN points ELSE 0

FitGain(E) ==
  LET Of(r) == When(FitMatches(E, r) # {}, RulePoints(r))
  IN Of("exact") + Of("adjacent") + Of("use_case") + Of("geography") + Of("size_band")
     + Of("technographic")

IntentGain(E) ==
  LET Of(s) == When(SignalMatches(E, s) # {}, SignalPoints(s))
  IN Of("hiring") + Of("expansion") + Of("tender") + Of("new_capability")

\* Mutant: no floor.
Clamp_Unfloored(gain, loss) == IF gain - loss > 100 THEN 100 ELSE gain - loss

\* _clamp_score of a gain less a loss.
Clamp(gain, loss) == IF gain < loss THEN 0 ELSE IF gain - loss > 100 THEN 100 ELSE gain - loss

\* identified: the account has a domain or a registry alias.
FitScore(E, identified) == Clamp(FitGain(E), When(~identified, 15))

IntentScore(E, old) ==
  When(Triggers(E) # {},
       Clamp(IntentGain(E), When(Stale(E, old) # {}, 15) + When(Contradictions(E) # {}, 10)))

Sources(E) == {Facts[e].source : e \in E}
CategoriesOf(E) == {Facts[e].category : e \in E}
TwoOf(S) == \E x, y \in S : x # y

\* Mutant: all fit evidence counts, whether a rule used it or not.
FitUsed_All(E, used) == FitEvidence(E)

FitUsed(E, used) == FitEvidence(E) \cap used

\* Confidences, in percent.
FitConfidence(E, used) ==
  LET F == FitUsed(E, used)
      base == IF TwoOf(Sources(F)) /\ TwoOf(CategoriesOf(F)) THEN 85
              ELSE IF F # {} THEN 65 ELSE 40
  IN base - When(Marked(F, "conflicting_sources") # {}, 20)
          - When(F # {} /\ \A e \in F : Facts[e].lowTrust, 10)

IntentConfidence(E, old, used) ==
  LET T == Triggers(E) \cap used
      base == IF TwoOf(Sources(T)) THEN 85 ELSE IF T # {} THEN 65 ELSE 40
  IN base - When(Marked(T, "conflicting_triggers") # {}, 20)
          - When(T # {} /\ T \subseteq Stale(E, old), 10)

\* build_scorecard_upsert_input
CardOf(a, E, old, identified) ==
  LET used == Used(E, old)
  IN [account |-> a, used |-> used,
      fit |-> FitScore(E, identified), fitConfidence |-> FitConfidence(E, used),
      intent |-> IntentScore(E, old), intentConfidence |-> IntentConfidence(E, old, used)]

-----------------------------------------------------------------------------
(***************************************************************************)
(* evaluate_lane and its gates.                                            *)
(***************************************************************************)
Identified(a) == Companies[a].domain \/ a \in registered

\* evidence_gate
EvidencePasses(used) == TwoOf(CategoriesOf(used))

\* data_quality_gate: minimum fields; REVIEW for conflicting firmographics. Every account
\* scored has a country.
QualityStops(a) == ~Companies[a].named /\ ~Companies[a].domain
Conflicts(E) == Marked(OfCategory(E, {"firmographic"}), "conflicting_firmographics") # {}

\* Mutant: the evidence gate is not asked.
Lane_Ungated(a, E, c, budget) ==
  IF ~Identified(a) THEN "policy_blocked"
  ELSE IF budget = 0 THEN "budget_exhausted"
  ELSE IF E = {} \/ (c.fit = 0 /\ c.intent = 0 /\ c.used = {}) THEN "no_signal"
  ELSE IF ~QualityStops(a) /\ c.fit >= 75 THEN "ok"
  ELSE IF c.fit <= 64 THEN "no_fit"
  ELSE "needs_human"

\* E is the evidence scored, c the scorecard it got.
Lane(a, E, c, budget) ==
  IF ~Identified(a) THEN "policy_blocked"
  ELSE IF budget = 0 THEN "budget_exhausted"
  ELSE IF E = {} \/ (c.fit = 0 /\ c.intent = 0 /\ c.used = {}) THEN "no_signal"
  ELSE IF ~QualityStops(a) /\ EvidencePasses(c.used) /\ c.fit >= 75 THEN "ok"
  ELSE IF c.fit <= 64 THEN "no_fit"
  ELSE IF c.fit <= 74 \/ ~EvidencePasses(c.used) \/ Conflicts(E) THEN "needs_human"
  ELSE "no_fit"

-----------------------------------------------------------------------------
Advance(w, from, to) ==
  /\ pc[w] = from
  /\ pc' = [pc EXCEPT ![w] = to]

Release(w) ==
  /\ pc' = [pc EXCEPT ![w] = "idle"]
  /\ job' = [job EXCEPT ![w] = NoJob]
  /\ card' = [card EXCEPT ![w] = NoCard]
  /\ lane' = [lane EXCEPT ![w] = "ok"]

Close(w, code) ==
  /\ events' = events \cup {<<job[w], code>>}
  /\ Release(w)

-----------------------------------------------------------------------------
(***************************************************************************)
(* Other components, and time.                                             *)
(***************************************************************************)

\* Discovery merges evidence into an account.
Link(a, e) ==
  /\ \E it \in items : it.account = a
  /\ links < MaxLinks
  /\ links' = links + 1
  /\ linked' = [linked EXCEPT ![a] = @ \cup {e}]
  /\ UNCHANGED <<items, status, registered, aged, cards, people, events, pc, job, card,
                 lane, aborts, history>>

\* Discovery writes a registry alias of the account; it matters for one without a domain.
Register(a) ==
  /\ ~Companies[a].domain
  /\ \E it \in items : it.account = a
  /\ registered' = registered \cup {a}
  /\ UNCHANGED <<items, status, linked, aged, cards, people, events, pc, job, card, lane,
                 links, aborts, history>>

\* The 181st day; the rules ask the age of triggers alone.
Age(e) ==
  /\ Facts[e].category = "trigger"
  /\ aged' = aged \cup {e}
  /\ UNCHANGED <<items, status, linked, registered, cards, people, events, pc, job, card,
                 lane, links, aborts, history>>

-----------------------------------------------------------------------------
(***************************************************************************)
(* handle_intent_fit_scoring.                                              *)
(***************************************************************************)
Closed(it) == \E e \in events : e[1] = it

\* Mutant: no replay guard.
Begin_Unguarded(w, it) ==
  /\ Advance(w, "idle", "begun")
  /\ job' = [job EXCEPT ![w] = it]
  /\ disturbed' = IF \E v \in Workers : job[v] = it THEN disturbed \cup {it} ELSE disturbed
  /\ UNCHANGED <<tables, card, lane, links, aborts, rated>>

\* A delivered row, new or repeated; one with a terminal event is a no-op.
Begin(w, it) ==
  /\ ~Closed(it)
  /\ Advance(w, "idle", "begun")
  /\ job' = [job EXCEPT ![w] = it]
  /\ disturbed' = IF \E v \in Workers : job[v] = it THEN disturbed \cup {it} ELSE disturbed
  /\ UNCHANGED <<tables, card, lane, links, aborts, rated>>

\* The payload's account and evidence; the account's country and status; its query and
\* seller.
Accepted(it) ==
  /\ it.account # NoAccount /\ ~it.missing
  /\ Companies[it.account].country /\ Companies[it.account].context
  /\ status[it.account] \in {"candidate", "target"}

Refuse(w) ==
  /\ pc[w] = "begun"
  /\ ~Accepted(job[w])
  /\ Close(w, "contract_error")
  /\ UNCHANGED <<items, status, linked, registered, aged, cards, people, links, aborts, history>>

\* _resolve_used_evidence: the rows of the payload's list, or else of the account's, in an
\* allowed category.
EvidenceFor(it) ==
  {e \in (IF it.listed THEN it.list ELSE linked[it.account]) :
     Facts[e].category # "none"}

\* Account, evidence and aliases are read; scorecard and lane follow.
Score(w) ==
  LET it == job[w]
      a == it.account
      E == EvidenceFor(it)
      c == CardOf(a, E, aged, Identified(a))
  IN /\ Advance(w, "begun", "scored")
     /\ Accepted(it)
     /\ card' = [card EXCEPT ![w] = c]
     /\ lane' = [lane EXCEPT ![w] = Lane(a, E, c, it.budget)]
     /\ UNCHANGED <<tables, job, links, aborts, history>>

SameCard(c, d) == c.account = d.account /\ c.used = d.used

\* _upsert_scorecard, promotion and the people_search row (ON CONFLICT DO NOTHING) in one
\* commit, whatever was linked or promoted since the account was read. What is a target
\* already gets the row alone.
Persist(w) ==
  LET c == card[w]
      a == c.account
  IN /\ Advance(w, "scored", "committed")
     /\ cards' = {d \in cards : ~SameCard(c, d)} \cup {c}
     /\ IF lane[w] = "ok"
        THEN status' = [status EXCEPT ![a] = "target"] /\ people' = people \cup {<<a, c.used>>}
        ELSE UNCHANGED <<status, people>>
     /\ rated' = rated \cup {<<job[w], a>>}
     /\ UNCHANGED <<items, linked, registered, aged, events, job, card, lane, links, aborts,
                    disturbed>>

\* The terminal event of the lane; commit.
Finish(w) ==
  /\ pc[w] = "committed"
  /\ Close(w, lane[w])
  /\ UNCHANGED <<items, status, linked, registered, aged, cards, people, links, aborts, history>>

\* The handler raises for another reason or its process dies; nothing retries the job.
Abort(w) ==
  /\ pc[w] # "idle"
  /\ aborts < MaxAborts
  /\ aborts' = aborts + 1
  /\ Release(w)
  /\ disturbed' = IF pc[w] = "committed" THEN disturbed \cup {job[w]} ELSE disturbed
  /\ UNCHANGED <<tables, links, rated>>

-----------------------------------------------------------------------------
Init ==
  /\ items \in Enqueued
  /\ status = [a \in Accounts |-> Companies[a].status]
  /\ \E E \in FirstLinked : linked = [a \in Accounts |-> E]
  /\ registered = {} /\ aged = {}
  /\ cards = {} /\ people = {} /\ events = {}
  /\ pc = [w \in Workers |-> "idle"]
  /\ job = [w \in Workers |-> NoJob]
  /\ card = [w \in Workers |-> NoCard]
  /\ lane = [w \in Workers |-> "ok"]
  /\ links = 0 /\ aborts = 0
  /\ rated = {} /\ disturbed = {}

WorkerStep(w) == Refuse(w) \/ Score(w) \/ Persist(w) \/ Finish(w)

Next ==
  \/ \E w \in Workers : WorkerStep(w) \/ Abort(w) \/ \E it \in items : Begin(w, it)
  \/ \E a \in Accounts : Register(a) \/ \E e \in Evidence : Link(a, e)
  \/ \E e \in Evidence : Age(e)

Spec == Init /\ [][Next]_vars

-----------------------------------------------------------------------------
Card == [account : Accounts, used : SUBSET Evidence, fit : 0..100, fitConfidence : 0..100,
         intent : 0..100, intentConfidence : 0..100]

TypeOK ==
  /\ items \subseteq Items
  /\ status \in [Accounts -> Statuses]
  /\ linked \in [Accounts -> SUBSET Evidence]
  /\ registered \subseteq Accounts /\ aged \subseteq Evidence
  /\ cards \subseteq Card
  /\ people \subseteq Accounts \X SUBSET Evidence
  /\ events \subseteq Items \X Outcomes
  /\ pc \in [Workers -> PcLabels]
  /\ job \in [Workers -> Items \cup {NoJob}]
  /\ card \in [Workers -> Card \cup {NoCard}]
  /\ lane \in [Workers -> Lanes]
  /\ links \in 0..MaxLinks /\ aborts \in 0..MaxAborts
  /\ rated \subseteq Items \X Accounts
  /\ disturbed \subseteq Items

\* Evidence that promotes an account by itself.
Fits(used) == FitScore(used, TRUE) >= 75 /\ EvidencePasses(used)

(***************************************************************************)
(* Each people_search row that a job asked for stands on evidence of two   *)
(* categories that scores 75 or more for fit by itself, whatever else was  *)
(* linked before or after, and has its scorecard; and an account whose     *)
(* status changed was a candidate, is a target and has such a row.         *)
(***************************************************************************)
PromotionsAreEarned ==
  /\ \A a \in Accounts : status[a] # Companies[a].status =>
       /\ Companies[a].status = "candidate" /\ status[a] = "target"
       /\ \E p \in people : p[1] = a
  /\ \A p \in people :
       /\ Fits(p[2])
       /\ \E c \in cards : c.account = p[1] /\ c.used = p[2]

(***************************************************************************)
(* Scoring an account's evidence again from what was used of it alone, as  *)
(* a payload's evidence_ids may ask, finds the same scorecard: the same    *)
(* id, scores and confidences. So the evidence used, which is all of the   *)
(* evidence that the id and the people_search key know, determines what is *)
(* stored under them, at one time and with the same identifiers.           *)
(***************************************************************************)
RescoringIsStable == \A it \in items : it.account # NoAccount =>
  LET a == it.account
      E == EvidenceFor(it)
  IN CardOf(a, Used(E, aged), aged, Identified(a)) = CardOf(a, E, aged, Identified(a))

(***************************************************************************)
(* A row no two jobs served at once, and whose job did not die between its *)
(* two commits, has one terminal event, and it says what the tables say: a *)
(* scorecard was written for any lane and none for a broken contract, and  *)
(* a completed row has its account a target.                               *)
(***************************************************************************)
UndisturbedRowsTellTheTruth == \A e \in events : e[1] \notin disturbed =>
  /\ \A f \in events : f[1] = e[1] => f = e
  /\ (e[2] # "contract_error") <=> (\E p \in rated : p[1] = e[1])
  /\ e[2] = "ok" => status[e[1].account] = "target"

-----------------------------------------------------------------------------
(***************************************************************************)
(* The strengthening that makes these properties inductive.                *)
(***************************************************************************)

\* What a job has established stays so until it relies on it.
JobsFitPlace == \A w \in Workers :
  /\ pc[w] # "idle" => job[w] \in Items
  /\ pc[w] = "scored" => /\ Accepted(job[w]) /\ card[w].account = job[w].account
                         /\ lane[w] = "ok" => Fits(card[w].used)
  /\ pc[w] = "committed" => /\ <<job[w], job[w].account>> \in rated
                            /\ lane[w] = "ok" => status[job[w].account] = "target"

\* Two jobs of one row disturb it.
JobsAreNoticed == \A v, w \in Workers :
  v # w /\ pc[v] # "idle" /\ pc[w] # "idle" /\ job[v] = job[w] => job[w] \in disturbed

\* The job of a row in peace is the first to say or to write anything about it.
JobsInPeaceAreFirst == \A w \in Workers : pc[w] # "idle" /\ job[w] \notin disturbed =>
  /\ ~Closed(job[w])
  /\ pc[w] # "committed" => \A p \in rated : p[1] # job[w]

\* A scorecard is of its row's account, and the row is closed or its job is about to close it.
ScorecardsAreReported == \A p \in rated :
  /\ p[2] = p[1].account
  /\ \/ p[1] \in disturbed \/ Closed(p[1])
     \/ \E w \in Workers : pc[w] = "committed" /\ job[w] = p[1]

IInv ==
  /\ TypeOK /\ JobsFitPlace /\ JobsAreNoticed /\ JobsInPeaceAreFirst
  /\ ScorecardsAreReported /\ PromotionsAreEarned /\ UndisturbedRowsTellTheTruth
=============================================================================
