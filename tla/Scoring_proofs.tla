---------------------------- MODULE Scoring_proofs -----------------------------
(***************************************************************************)
(* Proofs about Scoring: what is used of a set of evidence is used again   *)
(* when it is scored alone, with the same scores; type correctness; earned *)
(* promotions; and what holds of rows that no second job disturbed.        *)
(***************************************************************************)
EXTENDS Scoring, TLAPS

USE DEF tables, history

-----------------------------------------------------------------------------
(***************************************************************************)
(* score_fit_intent.                                                       *)
(***************************************************************************)

LEMMA UsedIsEvidence ==
  ASSUME NEW E, NEW old
  PROVE  Used(E, old) \subseteq E
<1>1. \A r \in FitRules : FitMatches(E, r) \subseteq E
  BY DEF FitMatches, Marked, OfCategory, FitEvidence, FitRules
<1>2. \A s \in Signals : SignalMatches(E, s) \subseteq E
  BY DEF SignalMatches, Triggers, OfCategory
<1>3. Stale(E, old) \subseteq E /\ Contradictions(E) \subseteq E
  BY DEF Stale, Contradictions, Marked, Triggers, OfCategory
<1>4. ASSUME NEW e \in Used(E, old)
      PROVE  e \in E
  <2>1. CASE e \in Stale(E, old) \cup Contradictions(E)
    BY <2>1, <1>3
  <2>2. CASE e \notin Stale(E, old) \cup Contradictions(E)
    <3>1. \/ \E r \in FitRules : e \in FitMatches(E, r)
          \/ \E s \in Signals : e \in SignalMatches(E, s)
      BY <1>4, <2>2 DEF Used
    <3> QED
      BY <3>1, <1>1, <1>2
  <2> QED
    BY <2>1, <2>2
<1> QED
  BY <1>4

\* Every rule matches the same evidence among what was used as among all of it.
LEMMA MatchesAreUsed ==
  ASSUME NEW E, NEW old, NEW U, U = Used(E, old)
  PROVE  /\ \A r \in FitRules : FitMatches(U, r) = FitMatches(E, r)
         /\ \A s \in Signals : SignalMatches(U, s) = SignalMatches(E, s)
         /\ Stale(U, old) = Stale(E, old)
         /\ Contradictions(U) = Contradictions(E)
<1>1. U \subseteq E
  BY UsedIsEvidence
<1>2. \A r \in FitRules : FitMatches(E, r) \subseteq U
  BY DEF Used
<1>3. \A s \in Signals : SignalMatches(E, s) \subseteq U
  BY DEF Used
<1>4. Stale(E, old) \subseteq U /\ Contradictions(E) \subseteq U
  BY DEF Used
<1>5. ASSUME NEW r \in FitRules
      PROVE  FitMatches(U, r) = FitMatches(E, r)
  <2>1. FitMatches(E, r) \subseteq U /\ FitMatches(E, "exact") \subseteq U
    BY <1>2 DEF FitRules
  <2>2. Marked(FitEvidence(U), "exact") = Marked(FitEvidence(E), "exact")
    BY <1>1, <2>1 DEF FitMatches, Marked, FitEvidence, OfCategory
  <2>3. CASE r = "adjacent"
    BY <1>1, <2>1, <2>2, <2>3 DEF FitMatches, Marked, FitEvidence, OfCategory
  <2>4. CASE r = "technographic"
    BY <1>1, <2>1, <2>4 DEF FitMatches, Marked, OfCategory
  <2>5. CASE r \notin {"adjacent", "technographic"}
    BY <1>1, <2>1, <2>5 DEF FitMatches, Marked, FitEvidence, OfCategory
  <2> QED
    BY <2>3, <2>4, <2>5
<1>6. ASSUME NEW s \in Signals
      PROVE  SignalMatches(U, s) = SignalMatches(E, s)
  BY <1>1, <1>3 DEF SignalMatches, Triggers, OfCategory
<1>7. Stale(U, old) = Stale(E, old)
  BY <1>1, <1>4 DEF Stale, Triggers, OfCategory
<1>8. Contradictions(U) = Contradictions(E)
  BY <1>1, <1>4 DEF Contradictions, Marked, Triggers, OfCategory
<1> QED
  BY <1>5, <1>6, <1>7, <1>8

LEMMA UsedOfUsed ==
  ASSUME NEW E, NEW old
  PROVE  Used(Used(E, old), old) = Used(E, old)
<1> DEFINE U == Used(E, old)
<1>1. /\ \A r \in FitRules : FitMatches(U, r) = FitMatches(E, r)
      /\ \A s \in Signals : SignalMatches(U, s) = SignalMatches(E, s)
      /\ Stale(U, old) = Stale(E, old)
      /\ Contradictions(U) = Contradictions(E)
  BY MatchesAreUsed
<1>2. /\ {FitMatches(U, r) : r \in FitRules} = {FitMatches(E, r) : r \in FitRules}
      /\ {SignalMatches(U, s) : s \in Signals} = {SignalMatches(E, s) : s \in Signals}
  BY <1>1
<1>3. Used(U, old) = Used(E, old)
  BY <1>1, <1>2 DEF Used
<1> QED
  BY <1>3

LEMMA ClampBounds ==
  ASSUME NEW gain \in Nat, NEW loss \in Nat
  PROVE  Clamp(gain, loss) \in 0..100
BY DEF Clamp

LEMMA GainsAreNat ==
  ASSUME NEW E
  PROVE  FitGain(E) \in Nat /\ IntentGain(E) \in Nat
BY DEF FitGain, IntentGain, When, RulePoints, SignalPoints

LEMMA FitGainOfUsed ==
  ASSUME NEW E, NEW old
  PROVE  FitGain(Used(E, old)) = FitGain(E)
<1> DEFINE U == Used(E, old)
<1>1. \A r \in FitRules : FitMatches(U, r) = FitMatches(E, r)
  BY MatchesAreUsed
<1>2. FitGain(U) = FitGain(E)
  BY <1>1 DEF FitGain, FitRules
<1> QED
  BY <1>2

LEMMA FitScoreOfUsed ==
  ASSUME NEW E, NEW old, NEW identified
  PROVE  FitScore(Used(E, old), identified) = FitScore(E, identified)
BY FitGainOfUsed DEF FitScore

\* Without a trigger no signal adds to the intent, and none takes from it.
LEMMA IntentOfUsed ==
  ASSUME NEW E, NEW old
  PROVE  IntentScore(Used(E, old), old) = IntentScore(E, old)
<1> DEFINE U == Used(E, old)
<1>1. /\ \A s \in Signals : SignalMatches(U, s) = SignalMatches(E, s)
      /\ Stale(U, old) = Stale(E, old)
      /\ Contradictions(U) = Contradictions(E)
  BY MatchesAreUsed
<1>2. IntentGain(U) = IntentGain(E)
  BY <1>1 DEF IntentGain, Signals
<1>3. CASE Triggers(U) # {}
  <2>1. Triggers(E) # {}
    BY <1>3, UsedIsEvidence DEF Triggers, OfCategory
  <2> QED
    BY <1>1, <1>2, <1>3, <2>1 DEF IntentScore
<1>4. CASE Triggers(U) = {}
  <2>1. \A s \in Signals : SignalMatches(U, s) = {}
    BY <1>4 DEF SignalMatches
  <2>2. Stale(U, old) = {} /\ Contradictions(U) = {}
    BY <1>4 DEF Stale, Contradictions, Marked
  <2>3. IntentGain(U) = 0
    BY <2>1 DEF IntentGain, Signals, When
  <2>4. IntentScore(E, old) = 0
    BY <1>1, <1>2, <2>2, <2>3 DEF IntentScore, When, Clamp
  <2>5. IntentScore(U, old) = 0
    BY <1>4 DEF IntentScore, When
  <2> QED
    BY <2>4, <2>5
<1> QED
  BY <1>3, <1>4

LEMMA ConfidencesOfUsed ==
  ASSUME NEW E, NEW old, NEW U, U = Used(E, old)
  PROVE  /\ FitConfidence(U, U) = FitConfidence(E, U)
         /\ IntentConfidence(U, old, U) = IntentConfidence(E, old, U)
<1>1. U \subseteq E
  BY UsedIsEvidence
<1>2. FitUsed(U, U) = FitUsed(E, U)
  BY <1>1 DEF FitUsed, FitEvidence, OfCategory
<1>3. Triggers(U) \cap U = Triggers(E) \cap U
  BY <1>1 DEF Triggers, OfCategory
<1>4. Stale(U, old) = Stale(E, old)
  BY MatchesAreUsed
<1> QED
  BY <1>2, <1>3, <1>4 DEF FitConfidence, IntentConfidence

(***************************************************************************)
(* Scoring what was used of some evidence alone gives the scorecard of all *)
(* of it.                                                                  *)
(***************************************************************************)
THEOREM UsedEvidenceDecides ==
  ASSUME NEW a, NEW E, NEW old, NEW identified
  PROVE  CardOf(a, Used(E, old), old, identified) = CardOf(a, E, old, identified)
<1> DEFINE U == Used(E, old)
<1>1. Used(U, old) = U
  BY UsedOfUsed
<1>2. FitScore(U, identified) = FitScore(E, identified)
  BY FitScoreOfUsed
<1>3. IntentScore(U, old) = IntentScore(E, old)
  BY IntentOfUsed
<1>4. /\ FitConfidence(U, U) = FitConfidence(E, U)
      /\ IntentConfidence(U, old, U) = IntentConfidence(E, old, U)
  BY ConfidencesOfUsed
<1> HIDE DEF U
<1>5. U = Used(E, old)
  BY DEF U
<1> QED
  BY <1>1, <1>2, <1>3, <1>4, <1>5 DEF CardOf

LEMMA CardsAreCards ==
  ASSUME NEW a \in Accounts, NEW E \in SUBSET Evidence, NEW old, NEW identified
  PROVE  CardOf(a, E, old, identified) \in Card
<1> DEFINE c == CardOf(a, E, old, identified)
<1>1. Used(E, old) \in SUBSET Evidence
  BY UsedIsEvidence
<1>2. FitScore(E, identified) \in 0..100
  BY GainsAreNat, ClampBounds DEF FitScore, When
<1>3. IntentScore(E, old) \in 0..100
  <2>1. When(Stale(E, old) # {}, 15) + When(Contradictions(E) # {}, 10) \in Nat
    BY DEF When
  <2> QED
    BY <2>1, GainsAreNat, ClampBounds DEF IntentScore, When
<1>4. ASSUME NEW U
      PROVE  FitConfidence(E, U) \in 0..100 /\ IntentConfidence(E, old, U) \in 0..100
  <2> DEFINE F == FitUsed(E, U)
             T == Triggers(E) \cap U
             fitBase == IF TwoOf(Sources(F)) /\ TwoOf(CategoriesOf(F)) THEN 85
                        ELSE IF F # {} THEN 65 ELSE 40
             intentBase == IF TwoOf(Sources(T)) THEN 85 ELSE IF T # {} THEN 65 ELSE 40
             p == Marked(F, "conflicting_sources") # {}
             q == F # {} /\ \A e \in F : Facts[e].lowTrust
             r == Marked(T, "conflicting_triggers") # {}
             s == T # {} /\ T \subseteq Stale(E, old)
  <2>1. /\ FitConfidence(E, U) = fitBase - When(p, 20) - When(q, 10)
        /\ IntentConfidence(E, old, U) = intentBase - When(r, 20) - When(s, 10)
    BY DEF FitConfidence, IntentConfidence
  <2>2. fitBase \in {85, 65, 40} /\ intentBase \in {85, 65, 40}
    OBVIOUS
  <2>3. /\ When(p, 20) \in {0, 20} /\ When(r, 20) \in {0, 20}
        /\ When(q, 10) \in {0, 10} /\ When(s, 10) \in {0, 10}
    BY DEF When
  <2> HIDE DEF fitBase, intentBase, p, q, r, s
  <2> QED
    BY <2>1, <2>2, <2>3
<1> QED
  BY <1>1, <1>2, <1>3, <1>4 DEF CardOf, Card

-----------------------------------------------------------------------------
(***************************************************************************)
(* The inductive invariant.                                                *)
(***************************************************************************)

LEMMA InitInv == Init => IInv
<1> SUFFICES ASSUME Init
             PROVE  IInv
  OBVIOUS
<1>1. TypeOK
  BY ScoringAssumption DEF Init, TypeOK, PcLabels, Lanes, Company
<1> QED
  BY <1>1 DEF Init, IInv, JobsFitPlace, JobsAreNoticed, JobsInPeaceAreFirst, ScorecardsAreReported,
     PromotionsAreEarned, UndisturbedRowsTellTheTruth, Closed

\* Steps of others that touch neither jobs nor what they wrote.
LEMMA OthersInv ==
  ASSUME IInv, linked' \in [Accounts -> SUBSET Evidence], registered' \subseteq Accounts,
         aged' \subseteq Evidence, links' \in 0..MaxLinks,
         UNCHANGED <<items, status, cards, people, events, pc, job, card, lane, aborts, history>>
  PROVE  IInv'
<1>1. TypeOK'
  BY DEF IInv, TypeOK
<1> QED
  BY <1>1 DEF IInv, JobsFitPlace, Accepted, JobsAreNoticed, JobsInPeaceAreFirst,
     ScorecardsAreReported, PromotionsAreEarned, UndisturbedRowsTellTheTruth, Closed

LEMMA EnvironmentInv ==
  ASSUME IInv, \/ \E a \in Accounts : Register(a) \/ \E e \in Evidence : Link(a, e)
               \/ \E e \in Evidence : Age(e)
  PROVE  IInv'
<1>1. ASSUME NEW a \in Accounts, Register(a)
      PROVE  IInv'
  BY <1>1, OthersInv DEF Register, IInv, TypeOK
<1>2. ASSUME NEW a \in Accounts, NEW e \in Evidence, Link(a, e)
      PROVE  IInv'
  BY <1>2, OthersInv, ScoringAssumption DEF Link, IInv, TypeOK
<1>3. ASSUME NEW e \in Evidence, Age(e)
      PROVE  IInv'
  BY <1>3, OthersInv DEF Age, IInv, TypeOK
<1> QED
  BY <1>1, <1>2, <1>3

LEMMA BeginInv ==
  ASSUME IInv, NEW w \in Workers, NEW it \in items, Begin(w, it)
  PROVE  IInv'
<1>1. /\ ~Closed(it) /\ pc[w] = "idle" /\ it \in Items
      /\ pc' = [pc EXCEPT ![w] = "begun"] /\ job' = [job EXCEPT ![w] = it]
      /\ disturbed' = IF \E v \in Workers : job[v] = it THEN disturbed \cup {it} ELSE disturbed
      /\ UNCHANGED <<items, status, linked, registered, aged, cards, people, events, card, lane,
                     links, aborts, rated>>
  BY DEF Begin, Advance, IInv, TypeOK
<1>2. \A v \in Workers : /\ v # w => pc'[v] = pc[v] /\ job'[v] = job[v]
                         /\ v = w => pc'[v] = "begun" /\ job'[v] = it
  BY <1>1 DEF IInv, TypeOK
<1>3. disturbed \subseteq disturbed'
  BY <1>1
<1>4. TypeOK'
  BY <1>1 DEF IInv, TypeOK, PcLabels
<1>5. JobsFitPlace'
  BY <1>1, <1>2 DEF IInv, JobsFitPlace, Accepted
<1>6. JobsAreNoticed'
  BY <1>1, <1>2, <1>3 DEF IInv, JobsAreNoticed
<1>7. it \notin disturbed' => \A p \in rated : p[1] # it
  BY <1>1, <1>3 DEF IInv, ScorecardsAreReported
<1>8. JobsInPeaceAreFirst'
  BY <1>1, <1>2, <1>3, <1>7 DEF IInv, JobsInPeaceAreFirst, Closed
<1>9. ScorecardsAreReported'
  BY <1>1, <1>2, <1>3 DEF IInv, ScorecardsAreReported, Closed
<1>10. PromotionsAreEarned' /\ UndisturbedRowsTellTheTruth'
  BY <1>1, <1>3 DEF IInv, PromotionsAreEarned, Fits, UndisturbedRowsTellTheTruth
<1> QED
  BY <1>4, <1>5, <1>6, <1>8, <1>9, <1>10 DEF IInv

\* Freeing a worker keeps what holds of the other jobs.
LEMMA ReleaseInv ==
  ASSUME IInv, NEW w \in Workers, pc[w] # "idle", Release(w),
         UNCHANGED <<items, status, linked, registered, aged, cards, people, links, rated>>,
         aborts' \in 0..MaxAborts, disturbed \subseteq disturbed', disturbed' \subseteq Items,
         events' \subseteq Items \X Outcomes, events \subseteq events',
         \A e \in events' : e \in events \/ e[1] = job[w],
         pc[w] = "committed" => job[w] \in disturbed' \/ \E e \in events' : e[1] = job[w],
         UndisturbedRowsTellTheTruth'
  PROVE  IInv'
<1>1. TypeOK'
  BY DEF IInv, TypeOK, Release, PcLabels, Lanes
<1>2. \A v \in Workers : /\ v # w => pc'[v] = pc[v] /\ job'[v] = job[v] /\ card'[v] = card[v]
                                     /\ lane'[v] = lane[v]
                         /\ v = w => pc'[v] = "idle"
  BY DEF IInv, TypeOK, Release
<1>3. JobsFitPlace'
  BY <1>2 DEF IInv, JobsFitPlace, Accepted
<1>4. JobsAreNoticed'
  BY <1>2 DEF IInv, JobsAreNoticed
<1>5. JobsInPeaceAreFirst'
  <2> SUFFICES ASSUME NEW v \in Workers, pc'[v] # "idle", job'[v] \notin disturbed'
               PROVE  /\ \A e \in events' : e[1] # job'[v]
                      /\ pc'[v] # "committed" => \A p \in rated' : p[1] # job'[v]
    BY DEF JobsInPeaceAreFirst, Closed
  <2>1. v # w /\ pc[v] # "idle" /\ job[v] \notin disturbed /\ job'[v] = job[v] /\ pc'[v] = pc[v]
    BY <1>2
  <2>2. job[w] # job[v]
    BY <2>1 DEF IInv, JobsAreNoticed
  <2> QED
    BY <2>1, <2>2 DEF IInv, JobsInPeaceAreFirst, Closed
<1>6. ScorecardsAreReported'
  BY <1>2 DEF IInv, ScorecardsAreReported, Closed
<1>7. PromotionsAreEarned'
  BY DEF IInv, PromotionsAreEarned, Fits
<1> QED
  BY <1>1, <1>3, <1>4, <1>5, <1>6, <1>7 DEF IInv

LEMMA AbortInv ==
  ASSUME IInv, NEW w \in Workers, Abort(w)
  PROVE  IInv'
<1>1. aborts' \in 0..MaxAborts
  BY ScoringAssumption DEF Abort, IInv, TypeOK
<1>2. disturbed' \subseteq Items /\ disturbed \subseteq disturbed'
  BY DEF Abort, IInv, TypeOK, JobsFitPlace
<1>3. UndisturbedRowsTellTheTruth'
  BY <1>2 DEF Abort, IInv, UndisturbedRowsTellTheTruth
<1>4. events' \subseteq Items \X Outcomes
  BY DEF Abort, IInv, TypeOK
<1> QED
  BY <1>1, <1>2, <1>3, <1>4, ReleaseInv DEF Abort

LEMMA CloseInv ==
  ASSUME IInv, NEW w \in Workers, Refuse(w) \/ Finish(w)
  PROVE  IInv'
<1>1. PICK code \in Outcomes : Close(w, code)
      /\ UNCHANGED <<items, status, linked, registered, aged, cards, people, links, aborts, history>>
      /\ pc[w] # "idle"
      /\ IF code = "contract_error" THEN pc[w] = "begun" ELSE pc[w] = "committed" /\ code = lane[w]
  <2>1. CASE Refuse(w)
    BY <2>1 DEF Refuse, Outcomes
  <2>2. CASE Finish(w)
    <3>1. lane[w] \in Lanes
      BY DEF IInv, TypeOK
    <3>2. lane[w] \in Outcomes /\ lane[w] # "contract_error"
      BY <3>1 DEF Outcomes, Lanes
    <3> QED
      BY <2>2, <3>2 DEF Finish
  <2> QED
    BY <2>1, <2>2
<1>2. job[w] \in Items /\ events' = events \cup {<<job[w], code>>} /\ Release(w)
  BY <1>1 DEF Close, IInv, JobsFitPlace
<1>3. UndisturbedRowsTellTheTruth'
  <2> SUFFICES ASSUME NEW e \in events', e[1] \notin disturbed
               PROVE  /\ \A f \in events' : f[1] = e[1] => f = e
                      /\ (e[2] # "contract_error") <=> (\E p \in rated : p[1] = e[1])
                      /\ e[2] = "ok" => status[e[1].account] = "target"
    BY <1>1 DEF UndisturbedRowsTellTheTruth
  <2>1. CASE e[1] = job[w]
    <3>1. \A f \in events : f[1] # job[w]
      BY <1>1, <2>1 DEF IInv, JobsInPeaceAreFirst, Closed
    <3>2. e = <<job[w], code>> /\ \A f \in events' : f[1] = e[1] => f = e
      BY <1>2, <2>1, <3>1
    <3>3. CASE code = "contract_error"
      BY <1>1, <2>1, <3>2, <3>3 DEF IInv, JobsInPeaceAreFirst
    <3>4. CASE code # "contract_error"
      BY <1>1, <2>1, <3>2, <3>4 DEF IInv, JobsFitPlace
    <3> QED
      BY <3>3, <3>4
  <2>2. CASE e[1] # job[w]
    BY <1>2, <2>2 DEF IInv, UndisturbedRowsTellTheTruth
  <2> QED
    BY <2>1, <2>2
<1>4. events' \subseteq Items \X Outcomes
  BY <1>1, <1>2 DEF IInv, TypeOK
<1>5. aborts' \in 0..MaxAborts /\ disturbed \subseteq disturbed' /\ disturbed' \subseteq Items
  BY <1>1 DEF IInv, TypeOK
<1>6. /\ events \subseteq events' /\ \A e \in events' : e \in events \/ e[1] = job[w]
      /\ <<job[w], code>> \in events' /\ <<job[w], code>>[1] = job[w]
  BY <1>2
<1>7. UNCHANGED <<items, status, linked, registered, aged, cards, people, links, rated>>
  BY <1>1
<1> QED
  BY <1>1, <1>2, <1>3, <1>4, <1>5, <1>6, <1>7, ReleaseInv

LEMMA ScoreInv ==
  ASSUME IInv, NEW w \in Workers, Score(w)
  PROVE  IInv'
<1> DEFINE it == job[w]
           a == it.account
           E == EvidenceFor(it)
           c == CardOf(a, E, aged, Identified(a))
<1>1. /\ pc[w] = "begun" /\ Accepted(it)
      /\ pc' = [pc EXCEPT ![w] = "scored"] /\ card' = [card EXCEPT ![w] = c]
      /\ lane' = [lane EXCEPT ![w] = Lane(a, E, c, it.budget)]
      /\ UNCHANGED <<tables, job, links, aborts, history>>
  BY DEF Score, Advance
<1>2. it \in Items /\ a \in Accounts
  <2>1. it \in Item
    BY <1>1, ScoringAssumption DEF IInv, JobsFitPlace
  <2> QED
    BY <1>1, <2>1 DEF Accepted, Item, IInv, JobsFitPlace
<1>3. E \in SUBSET Evidence
  BY <1>2, ScoringAssumption DEF EvidenceFor, Item, IInv, TypeOK
<1>4. c \in Card /\ c.account = a /\ c.used = Used(E, aged) /\ c.fit = FitScore(E, Identified(a))
  BY <1>2, <1>3, CardsAreCards DEF CardOf
<1>5. Lane(a, E, c, it.budget) \in Lanes
  BY DEF Lane, Lanes
<1>6. Lane(a, E, c, it.budget) = "ok" => Fits(c.used)
  <2> SUFFICES ASSUME Lane(a, E, c, it.budget) = "ok"
               PROVE  Fits(c.used)
    OBVIOUS
  <2> HIDE DEF c
  <2>1. Identified(a) /\ EvidencePasses(c.used) /\ c.fit >= 75
    BY DEF Lane
  <2>2. FitScore(E, Identified(a)) = FitScore(E, TRUE)
    BY <2>1 DEF FitScore
  <2>3. FitScore(Used(E, aged), TRUE) = FitScore(E, TRUE)
    BY FitScoreOfUsed
  <2> QED
    BY <1>4, <2>1, <2>2, <2>3 DEF Fits
<1> HIDE DEF c, E
<1>7. \A v \in Workers :
        /\ v # w => pc'[v] = pc[v] /\ card'[v] = card[v] /\ lane'[v] = lane[v]
        /\ v = w => pc'[v] = "scored" /\ card'[v] = c /\ lane'[v] = Lane(a, E, c, it.budget)
  BY <1>1 DEF IInv, TypeOK
<1>8. TypeOK'
  BY <1>1, <1>4, <1>5 DEF IInv, TypeOK, PcLabels
<1>9. JobsFitPlace'
  BY <1>1, <1>2, <1>4, <1>6, <1>7 DEF IInv, JobsFitPlace, Accepted, tables
<1>10. JobsAreNoticed' /\ JobsInPeaceAreFirst' /\ ScorecardsAreReported'
  BY <1>1, <1>7 DEF IInv, JobsAreNoticed, JobsInPeaceAreFirst, ScorecardsAreReported, Closed
<1>11. PromotionsAreEarned' /\ UndisturbedRowsTellTheTruth'
  BY <1>1 DEF IInv, PromotionsAreEarned, UndisturbedRowsTellTheTruth
<1> QED
  BY <1>8, <1>9, <1>10, <1>11 DEF IInv

LEMMA PersistInv ==
  ASSUME IInv, NEW w \in Workers, Persist(w)
  PROVE  IInv'
<1> DEFINE c == card[w]
           a == c.account
<1>1. /\ pc[w] = "scored" /\ pc' = [pc EXCEPT ![w] = "committed"]
      /\ cards' = {d \in cards : ~SameCard(c, d)} \cup {c}
      /\ IF lane[w] = "ok"
         THEN status' = [status EXCEPT ![a] = "target"] /\ people' = people \cup {<<a, c.used>>}
         ELSE UNCHANGED <<status, people>>
      /\ rated' = rated \cup {<<job[w], a>>}
      /\ UNCHANGED <<items, linked, registered, aged, events, job, card, lane, links, aborts,
                     disturbed>>
  BY DEF Persist, Advance
<1>2. /\ job[w] \in Items /\ Accepted(job[w]) /\ a = job[w].account
      /\ lane[w] = "ok" => Fits(c.used)
  BY <1>1 DEF IInv, JobsFitPlace
<1>3. a \in Accounts /\ c \in Card /\ c.used \subseteq Evidence
  <2>1. job[w].account \in Accounts
    BY <1>2, ScoringAssumption DEF Accepted, Item
  <2>2. c \in Card \cup {NoCard} /\ c # NoCard
    BY <1>2, <2>1, ScoringAssumption DEF IInv, TypeOK, NoCard
  <2> QED
    BY <1>2, <2>1, <2>2 DEF Card
<1> HIDE DEF c
<1>4. \A v \in Workers : /\ v # w => pc'[v] = pc[v]
                         /\ v = w => pc'[v] = "committed"
  BY <1>1 DEF IInv, TypeOK
<1>5. \A b \in Accounts : /\ status[b] = "target" => status'[b] = "target"
                          /\ lane[w] = "ok" /\ b = a => status'[b] = "target"
                          /\ lane[w] # "ok" \/ b # a => status'[b] = status[b]
  BY <1>1 DEF IInv, TypeOK
<1>6. TypeOK'
  BY <1>1, <1>2, <1>3 DEF IInv, TypeOK, PcLabels, Statuses
<1>7. JobsFitPlace'
  <2> SUFFICES ASSUME NEW v \in Workers
               PROVE  /\ pc'[v] # "idle" => job[v] \in Items
                      /\ pc'[v] = "scored" => /\ Accepted(job[v])' /\ card[v].account = job[v].account
                                              /\ lane[v] = "ok" => Fits(card[v].used)
                      /\ pc'[v] = "committed" =>
                            /\ <<job[v], job[v].account>> \in rated'
                            /\ lane[v] = "ok" => status'[job[v].account] = "target"
    BY <1>1 DEF JobsFitPlace
  <2>1. CASE v = w
    BY <1>1, <1>2, <1>3, <1>4, <1>5, <2>1
  <2>2. CASE v # w
    <3>1. /\ pc[v] # "idle" => job[v] \in Items
          /\ pc[v] = "scored" => /\ Accepted(job[v]) /\ card[v].account = job[v].account
                                 /\ lane[v] = "ok" => Fits(card[v].used)
          /\ pc[v] = "committed" =>
                /\ <<job[v], job[v].account>> \in rated
                /\ lane[v] = "ok" => status[job[v].account] = "target"
      BY DEF IInv, JobsFitPlace
    <3>2. pc[v] = "committed" => job[v].account \in Accounts
      BY <3>1 DEF IInv, TypeOK
    <3>3. pc[v] = "scored" => Accepted(job[v])'
      <4>1. pc[v] = "scored" => job[v] \in Item /\ job[v].account # NoAccount
        BY <3>1, ScoringAssumption DEF Accepted
      <4>2. pc[v] = "scored" => job[v].account \in Accounts
        BY <4>1 DEF Item
      <4> QED
        BY <1>1, <1>5, <3>1, <4>2 DEF Accepted, IInv, TypeOK
    <3> QED
      BY <1>1, <1>4, <1>5, <2>2, <3>1, <3>2, <3>3
  <2> QED
    BY <2>1, <2>2
<1>8. JobsAreNoticed'
  BY <1>1, <1>4 DEF IInv, JobsAreNoticed
<1>9. JobsInPeaceAreFirst'
  <2> SUFFICES ASSUME NEW v \in Workers, pc'[v] # "idle", job[v] \notin disturbed
               PROVE  /\ ~Closed(job[v])
                      /\ pc'[v] # "committed" => \A p \in rated' : p[1] # job[v]
    BY <1>1 DEF JobsInPeaceAreFirst, Closed
  <2>1. pc[v] # "idle"
    BY <1>1, <1>4
  <2>2. v # w => job[v] # job[w]
    BY <1>1, <2>1 DEF IInv, JobsAreNoticed
  <2> QED
    BY <1>1, <1>4, <2>1, <2>2 DEF IInv, JobsInPeaceAreFirst
<1>10. ScorecardsAreReported'
  BY <1>1, <1>2, <1>4 DEF IInv, ScorecardsAreReported, Closed
<1>11. PromotionsAreEarned'
  <2>1. ASSUME NEW b \in Accounts, status'[b] # Companies[b].status
        PROVE  /\ Companies[b].status = "candidate" /\ status'[b] = "target"
               /\ \E p \in people' : p[1] = b
    <3>1. status[b] # Companies[b].status =>
            /\ Companies[b].status = "candidate" /\ status[b] = "target"
            /\ \E p \in people : p[1] = b
      BY DEF IInv, PromotionsAreEarned
    <3>2. people \subseteq people'
      BY <1>1
    <3>3. CASE lane[w] = "ok" /\ b = a
      <4>1. <<a, c.used>> \in people' /\ <<a, c.used>>[1] = b
        BY <1>1, <3>3
      <4>2. status[b] \in {"candidate", "target"}
        BY <1>2, <3>3 DEF Accepted
      <4> QED
        BY <1>5, <2>1, <3>1, <3>3, <4>1, <4>2
    <3>4. CASE lane[w] # "ok" \/ b # a
      BY <1>5, <2>1, <3>1, <3>2, <3>4
    <3> QED
      BY <3>3, <3>4
  <2>2. ASSUME NEW p \in people
        PROVE  Fits(p[2]) /\ \E d \in cards' : d.account = p[1] /\ d.used = p[2]
    <3>1. PICK d \in cards : d.account = p[1] /\ d.used = p[2]
      BY DEF IInv, PromotionsAreEarned
    <3>2. Fits(p[2])
      BY DEF IInv, PromotionsAreEarned
    <3>3. CASE SameCard(c, d)
      BY <1>1, <3>1, <3>2, <3>3 DEF SameCard
    <3>4. CASE ~SameCard(c, d)
      BY <1>1, <3>1, <3>2, <3>4
    <3> QED
      BY <3>3, <3>4
  <2>3. lane[w] = "ok" => Fits(c.used) /\ \E d \in cards' : d.account = a /\ d.used = c.used
    BY <1>1, <1>2
  <2>4. \A p \in people' : Fits(p[2]) /\ \E d \in cards' : d.account = p[1] /\ d.used = p[2]
    BY <1>1, <2>2, <2>3
  <2> QED
    BY <2>1, <2>4 DEF PromotionsAreEarned
<1>12. UndisturbedRowsTellTheTruth'
  <2> SUFFICES ASSUME NEW e \in events, e[1] \notin disturbed
               PROVE  /\ \A f \in events : f[1] = e[1] => f = e
                      /\ (e[2] # "contract_error") <=> (\E p \in rated' : p[1] = e[1])
                      /\ e[2] = "ok" => status'[e[1].account] = "target"
    BY <1>1 DEF UndisturbedRowsTellTheTruth
  <2>1. /\ \A f \in events : f[1] = e[1] => f = e
        /\ (e[2] # "contract_error") <=> (\E p \in rated : p[1] = e[1])
        /\ e[2] = "ok" => status[e[1].account] = "target"
    BY DEF IInv, UndisturbedRowsTellTheTruth
  <2>2. e[1] # job[w]
    BY <1>1 DEF IInv, JobsInPeaceAreFirst, Closed
  <2>3. e[2] = "ok" => e[1].account \in Accounts
    BY <2>1 DEF IInv, TypeOK, ScorecardsAreReported
  <2>4. e[2] = "ok" => status'[e[1].account] = "target"
    BY <1>5, <2>1, <2>3
  <2> QED
    BY <1>1, <2>1, <2>2, <2>4
<1> QED
  BY <1>6, <1>7, <1>8, <1>9, <1>10, <1>11, <1>12 DEF IInv

LEMMA StepInv == IInv /\ [Next]_vars => IInv'
<1> SUFFICES ASSUME IInv, [Next]_vars
             PROVE  IInv'
  OBVIOUS
<1>1. CASE \E w \in Workers : WorkerStep(w)
  BY <1>1, CloseInv, ScoreInv, PersistInv DEF WorkerStep
<1>2. CASE \E w \in Workers : Abort(w)
  BY <1>2, AbortInv
<1>3. CASE \E w \in Workers : \E it \in items : Begin(w, it)
  BY <1>3, BeginInv
<1>4. CASE \/ \E a \in Accounts : Register(a) \/ \E e \in Evidence : Link(a, e)
           \/ \E e \in Evidence : Age(e)
  BY <1>4, EnvironmentInv
<1>5. CASE UNCHANGED vars
  <2>1. /\ linked' \in [Accounts -> SUBSET Evidence] /\ registered' \subseteq Accounts
        /\ aged' \subseteq Evidence /\ links' \in 0..MaxLinks
        /\ UNCHANGED <<items, status, cards, people, events, pc, job, card, lane, aborts, history>>
    BY <1>5 DEF vars, IInv, TypeOK
  <2> QED
    BY <2>1, OthersInv
<1> QED
  BY <1>1, <1>2, <1>3, <1>4, <1>5 DEF Next

-----------------------------------------------------------------------------
(***************************************************************************)
(* The theorems.                                                           *)
(***************************************************************************)

\* The inductive invariant holds of every behaviour of the stage.
THEOREM Inductive == Spec => []IInv
<1>1. Init => IInv
  BY InitInv
<1>2. IInv /\ [Next]_vars => IInv'
  BY StepInv
<1> QED
  BY <1>1, <1>2, PTL DEF Spec

\* Scores and confidences stay within 0..100 and every variable keeps its type, for any
\* accounts, evidence, rows and workers.
THEOREM TypeCorrect == Spec => []TypeOK
<1>1. IInv => TypeOK
  BY DEF IInv
<1> QED
  BY <1>1, Inductive, PTL

\* handle_intent_fit_scoring promotes on earned evidence alone, whatever is linked
\* meanwhile and however many jobs serve the account, and what it did not promote keeps
\* the status it was given.
THEOREM PromotionsEarned == Spec => []PromotionsAreEarned
<1>1. IInv => PromotionsAreEarned
  BY DEF IInv
<1> QED
  BY <1>1, Inductive, PTL

\* score_fit_intent gives the same scorecard for the evidence it used as for all of it.
THEOREM RescoringStable == Spec => []RescoringIsStable
<1>1. RescoringIsStable
  BY UsedEvidenceDecides DEF RescoringIsStable
<1> QED
  BY <1>1, PTL

\* The terminal event of a row served in peace is its only one and agrees with the tables.
THEOREM UndisturbedTruth == Spec => []UndisturbedRowsTellTheTruth
<1>1. IInv => UndisturbedRowsTellTheTruth
  BY DEF IInv
<1> QED
  BY <1>1, Inductive, PTL

=============================================================================
