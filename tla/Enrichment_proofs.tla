--------------------------- MODULE Enrichment_proofs ---------------------------
(***************************************************************************)
(* Proofs about Enrichment: type correctness, deliverable copies, grounded *)
(* outcomes, and what holds of contacts that no two jobs share.            *)
(***************************************************************************)
EXTENDS Enrichment, TLAPS

USE DEF tables, locals, history

LEMMA InitInv == Init => IInv
<1> SUFFICES ASSUME Init
             PROVE  IInv
  OBVIOUS
<1>1. TypeOK
  BY EnrichmentAssumption DEF Init, TypeOK, PcLabels, Levels, Outcomes
<1>2. LevelsAreEarned
  BY DEF Init, LevelsAreEarned, AtLeast, Rank, Levels
<1>3. UnsharedRowsPay
  BY EnrichmentAssumption DEF Init, UnsharedRowsPay
<1> QED
  BY <1>1, <1>2, <1>3 DEF Init, IInv, JobsFitPlace, RoutesAreGrounded, CopiesAreDeliverable,
     OutcomesAreGrounded, OverlapsAreNoticed, SoleJobsAreCurrent, ReadLabels, PaidLabels, MailLabels

\* Freeing a worker keeps whatever holds of the other workers' jobs.
LEMMA ReleaseInv ==
  ASSUME IInv, NEW w \in Workers, Release(w),
         UNCHANGED <<items, budget, level, profiles, copies, resolved, overlapped>>,
         lookups' \in [Items -> Nat], aborts' \in 0..MaxAborts,
         \A v \in Workers : v # w /\ pc[v] # "idle" /\ job[v].contact \notin overlapped
                              => lookups'[job[v]] = lookups[job[v]],
         events' \subseteq Items \X Outcomes, OutcomesAreGrounded', UnsharedRowsPay'
  PROVE  IInv'
<1>1. TypeOK'
  BY DEF IInv, TypeOK, Release, PcLabels, Levels, Outcomes
<1>2. \A v \in Workers : /\ v # w => pc'[v] = pc[v] /\ job'[v] = job[v] /\ loaded'[v] = loaded[v]
                                     /\ seen'[v] = seen[v] /\ verdict'[v] = verdict[v]
                                     /\ outcome'[v] = outcome[v]
                         /\ v = w => pc'[v] = "idle"
  BY DEF IInv, TypeOK, Release
<1>3. JobsFitPlace'
  BY <1>2 DEF IInv, JobsFitPlace, HasEmail, AtLeast, ReadLabels, MailLabels
<1>4. RoutesAreGrounded'
  BY <1>2 DEF IInv, RoutesAreGrounded, Copied
<1>5. LevelsAreEarned' /\ CopiesAreDeliverable'
  BY DEF IInv, LevelsAreEarned, AtLeast, CopiesAreDeliverable, HasEmail, Unclear
<1>6. OverlapsAreNoticed'
  BY <1>2 DEF IInv, OverlapsAreNoticed
<1>7. SoleJobsAreCurrent'
  <2> SUFFICES ASSUME NEW v \in Workers, job'[v].contact \notin overlapped'
               PROVE  /\ pc'[v] = "begun" => loaded'[v] = budget'[job'[v]]
                      /\ pc'[v] \in PaidLabels => lookups'[job'[v]] + budget'[job'[v]] < InitialBudget[job'[v]]
                      /\ pc'[v] \in ReadLabels => seen'[v] = level'[job'[v].contact]
    BY DEF SoleJobsAreCurrent
  <2>1. CASE v = w
    BY <2>1, <1>2 DEF PaidLabels, ReadLabels
  <2>2. CASE v # w
    BY <2>2, <1>2 DEF IInv, SoleJobsAreCurrent, PaidLabels, ReadLabels
  <2> QED
    BY <2>1, <2>2
<1> QED
  BY <1>1, <1>3, <1>4, <1>5, <1>6, <1>7 DEF IInv

LEMMA CloseInv ==
  ASSUME IInv, NEW w \in Workers, Refuse(w) \/ ParkExhausted(w) \/ Finish(w)
  PROVE  IInv'
<1>1. PICK code \in Outcomes : Close(w, code) /\ UNCHANGED <<tables, aborts, history>>
      /\ (code = "ok" => Copied(job[w].contact))
      /\ (code = "policy_blocked" => job[w].contact \in resolved /\ Traits[job[w].contact].blocked)
      /\ (code = "needs_human" => job[w].contact \in resolved /\ ~Traits[job[w].contact].blocked
                                  /\ Traits[job[w].contact].ambiguous)
      /\ (code = "contract_error" => job[w].contact \notin Stored)
  <2>1. CASE Refuse(w)
    BY <2>1, EnrichmentAssumption DEF Refuse, Outcomes
  <2>2. CASE ParkExhausted(w)
    BY <2>2 DEF ParkExhausted, Outcomes
  <2>3. CASE Finish(w)
    BY <2>3 DEF Finish, IInv, TypeOK, RoutesAreGrounded
  <2> QED
    BY <2>1, <2>2, <2>3
<1>2. job[w] \in Items
  BY DEF Refuse, ParkExhausted, Finish, IInv, JobsFitPlace
<1>3. /\ events' = events \cup {<<job[w], code>>} /\ Release(w)
      /\ UNCHANGED <<items, budget, level, profiles, copies, resolved, overlapped, lookups, aborts>>
  BY <1>1 DEF Close
<1>4. events' \subseteq Items \X Outcomes
  BY <1>2, <1>3 DEF IInv, TypeOK
<1>5. OutcomesAreGrounded'
  <2> SUFFICES ASSUME NEW e \in events'
               PROVE  /\ e[2] = "ok" => Copied(e[1].contact)'
                      /\ e[2] = "policy_blocked" => e[1].contact \in resolved' /\ Traits[e[1].contact].blocked
                      /\ e[2] = "needs_human" => e[1].contact \in resolved' /\ ~Traits[e[1].contact].blocked
                                                 /\ Traits[e[1].contact].ambiguous
                      /\ e[2] = "contract_error" => e[1].contact \notin Stored
    BY DEF OutcomesAreGrounded
  <2>1. CASE e \in events
    BY <2>1, <1>3 DEF IInv, OutcomesAreGrounded, Copied
  <2>2. CASE e = <<job[w], code>>
    BY <2>2, <1>1, <1>3 DEF Copied
  <2> QED
    BY <2>1, <2>2, <1>3
<1>6. UnsharedRowsPay'
  BY <1>3 DEF IInv, UnsharedRowsPay
<1> QED
  BY <1>3, <1>4, <1>5, <1>6, ReleaseInv DEF IInv, TypeOK

\* A lookup in vain: the row has paid for it.
LEMMA TimeOutInv ==
  ASSUME IInv, NEW w \in Workers, TimeOut(w)
  PROVE  IInv'
<1>1. /\ pc[w] = "probing" /\ job[w] \in Items
      /\ lookups' = [lookups EXCEPT ![job[w]] = @ + 1]
      /\ aborts' = aborts + 1 /\ aborts < MaxAborts
      /\ Release(w)
      /\ UNCHANGED <<items, budget, level, profiles, copies, events, resolved, overlapped>>
  BY DEF TimeOut, IInv, JobsFitPlace
<1>2. lookups' \in [Items -> Nat] /\ aborts' \in 0..MaxAborts
  BY <1>1, EnrichmentAssumption DEF IInv, TypeOK
<1>3. \A v \in Workers : v # w /\ pc[v] # "idle" /\ job[v].contact \notin overlapped
                            => lookups'[job[v]] = lookups[job[v]]
  BY <1>1 DEF IInv, TypeOK, OverlapsAreNoticed, JobsFitPlace
<1>4. UnsharedRowsPay'
  <2> SUFFICES ASSUME NEW it \in Items, it.contact \notin overlapped
               PROVE  lookups'[it] + budget[it] <= InitialBudget[it]
    BY <1>1 DEF UnsharedRowsPay
  <2>1. CASE it = job[w]
    <3>1. lookups[it] + budget[it] < InitialBudget[it]
      BY <1>1, <2>1 DEF IInv, SoleJobsAreCurrent, PaidLabels
    <3>2. lookups'[it] = lookups[it] + 1
      BY <1>1, <2>1 DEF IInv, TypeOK
    <3> QED
      BY <3>1, <3>2, EnrichmentAssumption DEF IInv, TypeOK
  <2>2. CASE it # job[w]
    BY <1>1, <2>2 DEF IInv, TypeOK, UnsharedRowsPay
  <2> QED
    BY <2>1, <2>2
<1>5. OutcomesAreGrounded'
  BY <1>1 DEF IInv, OutcomesAreGrounded, Copied
<1>6. UNCHANGED <<items, budget, level, profiles, copies, resolved, overlapped>> /\ events' \subseteq Items \X Outcomes
  BY <1>1 DEF IInv, TypeOK
<1> QED
  BY <1>1, <1>2, <1>3, <1>4, <1>5, <1>6, ReleaseInv

LEMMA AbortInv ==
  ASSUME IInv, NEW w \in Workers, Abort(w)
  PROVE  IInv'
<1>1. aborts' \in 0..MaxAborts
  BY EnrichmentAssumption DEF Abort, IInv, TypeOK
<1>2. OutcomesAreGrounded' /\ UnsharedRowsPay'
  BY DEF Abort, IInv, OutcomesAreGrounded, UnsharedRowsPay, Copied
<1> QED
  BY <1>1, <1>2, ReleaseInv DEF Abort, IInv, TypeOK

\* A job that begins beside another of its contact is noticed.
LEMMA BeginInv ==
  ASSUME IInv, NEW w \in Workers, NEW it \in items, Begin(w, it)
  PROVE  IInv'
<1>1. /\ pc[w] = "idle" /\ it \in Items
      /\ pc' = [pc EXCEPT ![w] = "begun"] /\ job' = [job EXCEPT ![w] = it]
      /\ loaded' = [loaded EXCEPT ![w] = budget[it]]
      /\ overlapped' = IF Busy(it.contact) THEN overlapped \cup {it.contact} ELSE overlapped
      /\ UNCHANGED <<items, budget, level, profiles, copies, events, seen, verdict, outcome,
                     aborts, resolved, lookups>>
  BY DEF Begin, Advance, IInv, TypeOK
<1>2. overlapped \subseteq overlapped'
  BY <1>1
<1>3. \A v \in Workers : /\ v # w => pc'[v] = pc[v] /\ job'[v] = job[v] /\ loaded'[v] = loaded[v]
                         /\ v = w => pc'[v] = "begun" /\ job'[v] = it /\ loaded'[v] = budget[it]
  BY <1>1 DEF IInv, TypeOK
<1>4. TypeOK'
  BY <1>1, EnrichmentAssumption DEF IInv, TypeOK, PcLabels, Item
<1>5. JobsFitPlace'
  BY <1>1, <1>3 DEF IInv, JobsFitPlace, HasEmail, AtLeast, ReadLabels, MailLabels
<1>6. RoutesAreGrounded'
  BY <1>1, <1>3 DEF IInv, RoutesAreGrounded, Copied
<1>7. LevelsAreEarned' /\ CopiesAreDeliverable' /\ OutcomesAreGrounded'
  BY <1>1 DEF IInv, LevelsAreEarned, AtLeast, CopiesAreDeliverable, HasEmail, Unclear,
     OutcomesAreGrounded, Copied
<1>8. OverlapsAreNoticed'
  BY <1>1, <1>2, <1>3 DEF IInv, OverlapsAreNoticed, Busy
<1>9. SoleJobsAreCurrent'
  BY <1>1, <1>2, <1>3 DEF IInv, SoleJobsAreCurrent, PaidLabels, ReadLabels
<1>10. UnsharedRowsPay'
  BY <1>1, <1>2 DEF IInv, UnsharedRowsPay
<1> QED
  BY <1>4, <1>5, <1>6, <1>7, <1>8, <1>9, <1>10 DEF IInv

LEMMA SpendInv ==
  ASSUME IInv, NEW w \in Workers, SpendAttempt(w)
  PROVE  IInv'
<1>1. /\ pc[w] = "begun" /\ job[w] \in Items /\ job[w].contact # NoContact /\ loaded[w] > 0
      /\ loaded[w] \in Nat
      /\ pc' = [pc EXCEPT ![w] = "spent"]
      /\ budget' = [budget EXCEPT ![job[w]] = loaded[w] - 1]
      /\ UNCHANGED <<items, level, profiles, copies, events, job, loaded, seen, verdict, outcome,
                     aborts, resolved, lookups, overlapped>>
  BY DEF SpendAttempt, Advance, IInv, TypeOK, JobsFitPlace
<1>2. TypeOK'
  BY <1>1 DEF IInv, TypeOK, PcLabels
<1>3. JobsFitPlace'
  BY <1>1 DEF IInv, TypeOK, JobsFitPlace, HasEmail, AtLeast, ReadLabels, MailLabels
<1>4. RoutesAreGrounded' /\ LevelsAreEarned' /\ CopiesAreDeliverable' /\ OutcomesAreGrounded'
  BY <1>1 DEF IInv, TypeOK, RoutesAreGrounded, LevelsAreEarned, AtLeast, CopiesAreDeliverable,
     HasEmail, Unclear, OutcomesAreGrounded, Copied
<1>5. OverlapsAreNoticed'
  BY <1>1 DEF IInv, TypeOK, OverlapsAreNoticed
<1>6. job[w].contact \notin overlapped => loaded[w] = budget[job[w]]
  BY <1>1 DEF IInv, SoleJobsAreCurrent
<1>7. UnsharedRowsPay'
  <2> SUFFICES ASSUME NEW it \in Items, it.contact \notin overlapped
               PROVE  lookups[it] + budget'[it] <= InitialBudget[it]
    BY <1>1 DEF UnsharedRowsPay
  <2>1. lookups[it] + budget[it] <= InitialBudget[it]
    BY DEF IInv, UnsharedRowsPay
  <2>2. budget'[it] = budget[it] \/ budget'[it] = budget[it] - 1
    BY <1>1, <1>6 DEF IInv, TypeOK
  <2> QED
    BY <2>1, <2>2, EnrichmentAssumption DEF IInv, TypeOK
<1>8. SoleJobsAreCurrent'
  <2> SUFFICES ASSUME NEW v \in Workers, job[v].contact \notin overlapped
               PROVE  /\ pc'[v] = "begun" => loaded[v] = budget'[job[v]]
                      /\ pc'[v] \in PaidLabels => lookups[job[v]] + budget'[job[v]] < InitialBudget[job[v]]
                      /\ pc'[v] \in ReadLabels => seen[v] = level[job[v].contact]
    BY <1>1 DEF SoleJobsAreCurrent
  <2>1. CASE v = w
    <3>1. lookups[job[w]] + budget[job[w]] <= InitialBudget[job[w]]
      BY <2>1, <1>1 DEF IInv, UnsharedRowsPay
    <3>2. pc'[v] = "spent" /\ budget'[job[w]] = budget[job[w]] - 1
      BY <2>1, <1>1, <1>6 DEF IInv, TypeOK
    <3>3. lookups[job[w]] \in Nat /\ budget[job[w]] \in Nat /\ InitialBudget[job[w]] \in Nat
      BY <1>1, EnrichmentAssumption DEF IInv, TypeOK
    <3> QED
      BY <2>1, <3>1, <3>2, <3>3 DEF ReadLabels
  <2>2. CASE v # w /\ pc[v] # "idle"
    <3>1. job[v] # job[w] /\ pc'[v] = pc[v] /\ budget'[job[v]] = budget[job[v]]
      BY <2>2, <1>1 DEF IInv, TypeOK, OverlapsAreNoticed, JobsFitPlace
    <3> QED
      BY <3>1 DEF IInv, SoleJobsAreCurrent
  <2>3. CASE v # w /\ pc[v] = "idle"
    BY <2>3, <1>1 DEF IInv, TypeOK, PaidLabels, ReadLabels
  <2> QED
    BY <2>1, <2>2, <2>3
<1> QED
  BY <1>2, <1>3, <1>4, <1>5, <1>7, <1>8 DEF IInv

\* Steps that only move a worker on, or set what it alone looks at.
LEMMA LocalStepInv ==
  ASSUME IInv, NEW w \in Workers,
         ReadContact(w) \/ StopShort(w) \/ FindEmail(w) \/ RejectSyntax(w)
  PROVE  IInv'
<1>1. /\ pc[w] # "idle" /\ pc[w] # "begun" /\ pc[w] # "routed" /\ job[w] \in Items
      /\ job[w].contact \in Stored
      /\ UNCHANGED <<items, budget, level, profiles, copies, events, job, loaded, aborts,
                     resolved, lookups, overlapped>>
  BY DEF ReadContact, StopShort, FindEmail, RejectSyntax, Advance, IInv, JobsFitPlace, ReadLabels
<1>2. /\ pc' = [pc EXCEPT ![w] = pc'[w]] /\ pc'[w] \in {"contact_read", "routed", "probing", "validated"}
      /\ pc'[w] \in PaidLabels => pc[w] \in PaidLabels
      /\ pc'[w] \in MailLabels => HasEmail(job[w].contact)
      /\ pc'[w] \in ReadLabels /\ pc'[w] # "contact_read" => pc[w] \in ReadLabels
  BY DEF ReadContact, StopShort, FindEmail, RejectSyntax, Advance, IInv, TypeOK, PcLabels,
     JobsFitPlace, PaidLabels, ReadLabels, MailLabels
<1>3. /\ seen' = [seen EXCEPT ![w] = seen'[w]]
      /\ seen'[w] \in Levels
      /\ pc'[w] = "contact_read" => seen'[w] = level[job[w].contact]
      /\ pc'[w] # "contact_read" => seen' = seen
  BY <1>1 DEF ReadContact, StopShort, FindEmail, RejectSyntax, Advance, IInv, TypeOK
<1>4. /\ outcome' = [outcome EXCEPT ![w] = outcome'[w]]
      /\ outcome'[w] \in Outcomes
      /\ pc'[w] = "routed" => outcome'[w] \in {"budget_exhausted", "no_signal"}
  BY DEF ReadContact, StopShort, FindEmail, RejectSyntax, Advance, IInv, TypeOK, Outcomes
<1>5. /\ verdict' = [verdict EXCEPT ![w] = verdict'[w]]
      /\ verdict'[w] \in Levels
      /\ pc'[w] = "validated" => verdict'[w] = "unverified"
  BY DEF ReadContact, StopShort, FindEmail, RejectSyntax, Advance, IInv, TypeOK, Levels
<1>6. TypeOK'
  BY <1>1, <1>2, <1>3, <1>4, <1>5 DEF IInv, TypeOK, PcLabels
<1>7. JobsFitPlace'
  <2>1. AtLeast(seen'[w], "domain_ok") /\ pc'[w] \in ReadLabels => job[w].contact \in resolved
    BY <1>1, <1>2, <1>3 DEF IInv, LevelsAreEarned, JobsFitPlace, AtLeast
  <2>2. pc'[w] = "validated" => ~AtLeast(verdict'[w], "domain_ok")
    BY <1>5 DEF AtLeast, Rank, Levels
  <2> QED
    BY <1>1, <1>2, <1>3, <1>5, <2>1, <2>2 DEF IInv, TypeOK, JobsFitPlace, HasEmail, AtLeast, ReadLabels, MailLabels
<1>8. RoutesAreGrounded'
  BY <1>1, <1>2, <1>4 DEF IInv, TypeOK, RoutesAreGrounded, Copied
<1>9. LevelsAreEarned' /\ CopiesAreDeliverable' /\ OutcomesAreGrounded' /\ UnsharedRowsPay'
  BY <1>1 DEF IInv, LevelsAreEarned, AtLeast, CopiesAreDeliverable, HasEmail, Unclear,
     OutcomesAreGrounded, Copied, UnsharedRowsPay
<1>10. OverlapsAreNoticed'
  BY <1>1, <1>2 DEF IInv, TypeOK, OverlapsAreNoticed
<1>11. SoleJobsAreCurrent'
  BY <1>1, <1>2, <1>3 DEF IInv, TypeOK, SoleJobsAreCurrent, PaidLabels, ReadLabels
<1> QED
  BY <1>6, <1>7, <1>8, <1>9, <1>10, <1>11 DEF IInv

LEMMA LookUpInv ==
  ASSUME IInv, NEW w \in Workers, LookUpDomain(w)
  PROVE  IInv'
<1> DEFINE it == job[w]
<1>1. /\ pc[w] = "probing" /\ it \in Items /\ it.contact \in Stored
      /\ pc' = [pc EXCEPT ![w] = "validated"]
      /\ lookups' = [lookups EXCEPT ![it] = @ + 1]
      /\ UNCHANGED <<items, budget, level, profiles, copies, events, job, loaded, seen, outcome,
                     aborts, overlapped>>
  BY DEF LookUpDomain, Advance, IInv, JobsFitPlace, ReadLabels
<1>2. /\ verdict' = [verdict EXCEPT ![w] = verdict'[w]] /\ verdict'[w] \in Levels
      /\ resolved \subseteq resolved' /\ resolved' \subseteq resolved \cup {it.contact}
      /\ AtLeast(verdict'[w], "domain_ok") => it.contact \in resolved'
  BY DEF LookUpDomain, IInv, TypeOK, Levels, AtLeast, Rank
<1>3. TypeOK'
  BY <1>1, <1>2 DEF IInv, TypeOK, PcLabels
<1>4. JobsFitPlace'
  BY <1>1, <1>2 DEF IInv, TypeOK, JobsFitPlace, HasEmail, AtLeast, ReadLabels, MailLabels
<1>5. RoutesAreGrounded'
  BY <1>1, <1>2 DEF IInv, TypeOK, RoutesAreGrounded, Copied
<1>6. LevelsAreEarned' /\ CopiesAreDeliverable' /\ OutcomesAreGrounded'
  BY <1>1, <1>2 DEF IInv, LevelsAreEarned, AtLeast, CopiesAreDeliverable, HasEmail, Unclear,
     OutcomesAreGrounded, Copied
<1>7. OverlapsAreNoticed'
  BY <1>1 DEF IInv, TypeOK, OverlapsAreNoticed
<1>8. \A v \in Workers : v # w /\ pc[v] # "idle" /\ job[v].contact \notin overlapped
                            => lookups'[job[v]] = lookups[job[v]]
  BY <1>1 DEF IInv, TypeOK, OverlapsAreNoticed, JobsFitPlace
<1>9. SoleJobsAreCurrent'
  BY <1>1, <1>8 DEF IInv, TypeOK, SoleJobsAreCurrent, PaidLabels, ReadLabels
<1>10. UnsharedRowsPay'
  <2> SUFFICES ASSUME NEW x \in Items, x.contact \notin overlapped
               PROVE  lookups'[x] + budget[x] <= InitialBudget[x]
    BY <1>1 DEF UnsharedRowsPay
  <2>1. CASE x = it
    <3>1. lookups[x] + budget[x] < InitialBudget[x]
      BY <1>1, <2>1 DEF IInv, SoleJobsAreCurrent, PaidLabels
    <3>2. lookups'[x] = lookups[x] + 1
      BY <1>1, <2>1 DEF IInv, TypeOK
    <3> QED
      BY <3>1, <3>2, EnrichmentAssumption DEF IInv, TypeOK
  <2>2. CASE x # it
    BY <1>1, <2>2 DEF IInv, TypeOK, UnsharedRowsPay
  <2> QED
    BY <2>1, <2>2
<1> QED
  BY <1>3, <1>4, <1>5, <1>6, <1>7, <1>9, <1>10 DEF IInv

\* Whichever level wins was earned.
LEMMA HigherIsOneOfThem ==
  ASSUME NEW a \in Levels, NEW b \in Levels
  PROVE  /\ HigherLevel(a, b) \in {a, b}
         /\ AtLeast(HigherLevel(a, b), a)
BY DEF HigherLevel, AtLeast, Rank, Levels

LEMMA RouteIsGrounded ==
  ASSUME NEW c \in Stored, NEW l \in Levels
  PROVE  /\ Route(c, l) \in {"ok", "no_signal", "policy_blocked", "needs_human"}
         /\ Route(c, l) # "no_signal" => AtLeast(l, "domain_ok")
         /\ Route(c, l) = "policy_blocked" => Traits[c].blocked
         /\ Route(c, l) = "needs_human" => ~Traits[c].blocked /\ Unclear(c)
         /\ Route(c, l) = "ok" => ~Traits[c].blocked /\ ~Unclear(c)
BY DEF Route

LEMMA PersistInv ==
  ASSUME IInv, NEW w \in Workers, PersistRoute(w)
  PROVE  IInv'
<1> DEFINE c == job[w].contact
           l == HigherLevel(seen[w], verdict[w])
           r == Route(c, l)
<1>1. /\ pc[w] = "validated" /\ job[w] \in Items /\ c \in Stored /\ HasEmail(c) /\ loaded[w] > 0
      /\ loaded[w] \in Nat
      /\ pc' = [pc EXCEPT ![w] = "routed"]
      /\ level' = [level EXCEPT ![c] = l]
      /\ outcome' = [outcome EXCEPT ![w] = r]
      /\ copies' = IF r = "ok" THEN EnqueueCopy(c, loaded[w]) ELSE copies
      /\ UNCHANGED <<items, budget, profiles, events, job, loaded, seen, verdict, aborts,
                     resolved, lookups, overlapped>>
  BY DEF PersistRoute, Advance, IInv, TypeOK, JobsFitPlace, ReadLabels, MailLabels
<1>2. l \in Levels /\ (AtLeast(l, "domain_ok") => c \in resolved)
  BY <1>1, HigherIsOneOfThem DEF IInv, TypeOK, JobsFitPlace, ReadLabels
<1>3. /\ r \in Outcomes /\ r # "contract_error"
      /\ r \in {"ok", "policy_blocked", "needs_human"} => c \in resolved
      /\ r = "policy_blocked" => Traits[c].blocked
      /\ r = "needs_human" => ~Traits[c].blocked /\ Traits[c].ambiguous
      /\ r = "ok" => ~Traits[c].blocked /\ ~Unclear(c)
  BY <1>1, <1>2, RouteIsGrounded DEF Outcomes, Unclear
<1>4. /\ copies' = copies \/ (r = "ok" /\ ~Copied(c) /\ copies' = copies \cup {[contact |-> c, budget |-> loaded[w]]})
      /\ r = "ok" => Copied(c)'
  <2>1. CASE r = "ok" /\ ~Copied(c)
    <3>1. copies' = copies \cup {[contact |-> c, budget |-> loaded[w]]}
      BY <1>1, <2>1 DEF EnqueueCopy
    <3>2. [contact |-> c, budget |-> loaded[w]].contact = c
      OBVIOUS
    <3>3. \E x \in copies' : x.contact = c
      BY <3>1, <3>2, Zenon
    <3> QED
      BY <2>1, <1>1, <3>1, <3>3 DEF Copied
  <2>2. CASE ~(r = "ok" /\ ~Copied(c))
    BY <1>1, <2>2 DEF EnqueueCopy, Copied
  <2> QED
    BY <2>1, <2>2
<1>5. \A d : Copied(d) => \E x \in copies' : x.contact = d
  BY <1>4 DEF Copied
<1>6. TypeOK'
  BY <1>1, <1>2, <1>3, <1>4 DEF IInv, TypeOK, PcLabels
<1>7. JobsFitPlace'
  BY <1>1 DEF IInv, TypeOK, JobsFitPlace, HasEmail, AtLeast, ReadLabels, MailLabels
<1>8. RoutesAreGrounded'
  <2> SUFFICES ASSUME NEW v \in Workers, pc'[v] = "routed"
               PROVE  /\ outcome'[v] = "ok" => \E x \in copies' : x.contact = job[v].contact
                      /\ outcome'[v] = "policy_blocked" => job[v].contact \in resolved /\ Traits[job[v].contact].blocked
                      /\ outcome'[v] = "needs_human" => job[v].contact \in resolved
                           /\ ~Traits[job[v].contact].blocked /\ Traits[job[v].contact].ambiguous
                      /\ outcome'[v] # "contract_error"
    BY <1>1 DEF RoutesAreGrounded, Copied
  <2>1. CASE v = w
    <3>1. outcome'[v] = r
      BY <1>1, <2>1 DEF IInv, TypeOK
    <3>2. r = "ok" => \E x \in copies' : x.contact = c
      BY <1>1, <1>4 DEF Copied
    <3> QED
      BY <2>1, <3>1, <3>2, <1>3
  <2>2. CASE v # w
    <3>1. pc[v] = "routed" /\ outcome'[v] = outcome[v]
      BY <1>1, <2>2 DEF IInv, TypeOK
    <3> QED
      BY <3>1, <1>5 DEF IInv, RoutesAreGrounded
  <2> QED
    BY <2>1, <2>2
<1>9. LevelsAreEarned'
  BY <1>1, <1>2 DEF IInv, TypeOK, LevelsAreEarned, AtLeast
<1>10. CopiesAreDeliverable'
  <2>1. CASE copies' = copies
    BY <2>1, <1>1 DEF IInv, CopiesAreDeliverable, HasEmail, Unclear
  <2>2. CASE r = "ok" /\ ~Copied(c) /\ copies' = copies \cup {[contact |-> c, budget |-> loaded[w]]}
    BY <2>2, <1>1, <1>3 DEF IInv, CopiesAreDeliverable, HasEmail, Unclear, Copied
  <2> QED
    BY <2>1, <2>2, <1>4
<1>11. OutcomesAreGrounded'
  BY <1>1, <1>5 DEF IInv, OutcomesAreGrounded, Copied
<1>12. OverlapsAreNoticed' /\ UnsharedRowsPay'
  BY <1>1 DEF IInv, TypeOK, OverlapsAreNoticed, UnsharedRowsPay
<1>13. SoleJobsAreCurrent'
  <2> SUFFICES ASSUME NEW v \in Workers, job[v].contact \notin overlapped
               PROVE  /\ pc'[v] = "begun" => loaded[v] = budget[job[v]]
                      /\ pc'[v] \in PaidLabels => lookups[job[v]] + budget[job[v]] < InitialBudget[job[v]]
                      /\ pc'[v] \in ReadLabels => seen[v] = level'[job[v].contact]
    BY <1>1 DEF SoleJobsAreCurrent
  <2>1. CASE v = w
    BY <2>1, <1>1 DEF IInv, TypeOK, PaidLabels, ReadLabels
  <2>2. CASE v # w
    <3>1. pc'[v] = pc[v]
      BY <2>2, <1>1 DEF IInv, TypeOK
    <3>2. pc[v] \in ReadLabels => level'[job[v].contact] = level[job[v].contact]
      BY <2>2, <1>1 DEF IInv, TypeOK, OverlapsAreNoticed, ReadLabels
    <3> QED
      BY <3>1, <3>2 DEF IInv, SoleJobsAreCurrent
  <2> QED
    BY <2>1, <2>2
<1> QED
  BY <1>6, <1>7, <1>8, <1>9, <1>10, <1>11, <1>12, <1>13 DEF IInv

LEMMA NextInv == IInv /\ [Next]_vars => IInv'
<1> SUFFICES ASSUME IInv, [Next]_vars
             PROVE  IInv'
  OBVIOUS
<1>1. ASSUME NEW w \in Workers, WorkerStep(w) \/ TimeOut(w) \/ Abort(w)
      PROVE  IInv'
  BY <1>1, CloseInv, SpendInv, LocalStepInv, LookUpInv, PersistInv, TimeOutInv, AbortInv DEF WorkerStep
<1>2. ASSUME NEW w \in Workers, NEW it \in items, Begin(w, it)
      PROVE  IInv'
  BY <1>2, BeginInv
<1>3. ASSUME NEW it \in Posted, PostItem(it)
      PROVE  IInv'
  BY <1>3, EnrichmentAssumption DEF PostItem, IInv, TypeOK, JobsFitPlace, RoutesAreGrounded,
     LevelsAreEarned, CopiesAreDeliverable, OutcomesAreGrounded, OverlapsAreNoticed,
     SoleJobsAreCurrent, UnsharedRowsPay, HasEmail, Unclear, Copied, AtLeast
<1>4. ASSUME NEW c \in Stored, FindProfile(c)
      PROVE  IInv'
  BY <1>4 DEF FindProfile, IInv, TypeOK, JobsFitPlace, RoutesAreGrounded,
     LevelsAreEarned, CopiesAreDeliverable, OutcomesAreGrounded, OverlapsAreNoticed,
     SoleJobsAreCurrent, UnsharedRowsPay, HasEmail, Unclear, Copied, AtLeast
<1>5. ASSUME UNCHANGED vars
      PROVE  IInv'
  BY <1>5 DEF vars, IInv, TypeOK, JobsFitPlace, RoutesAreGrounded,
     LevelsAreEarned, CopiesAreDeliverable, OutcomesAreGrounded, OverlapsAreNoticed,
     SoleJobsAreCurrent, UnsharedRowsPay, HasEmail, Unclear, Copied, AtLeast
<1> QED
  BY <1>1, <1>2, <1>3, <1>4, <1>5 DEF Next

LEMMA InvAlways == Spec => []IInv
BY InitInv, NextInv, PTL DEF Spec

\* Every variable stays within its type.
THEOREM TypeCorrect == Spec => []TypeOK
<1>1. IInv => TypeOK
  BY DEF IInv
<1> QED
  BY <1>1, InvAlways, PTL

(***************************************************************************)
(* Copy generation is asked for deliverable contacts only, once, with a    *)
(* budget left, for any traits, rows, workers and crashes.                 *)
(***************************************************************************)
THEOREM CopiesDeliverable == Spec => []CopiesAreDeliverable
<1>1. IInv => CopiesAreDeliverable
  BY DEF IInv
<1> QED
  BY <1>1, InvAlways, PTL

\* Terminal events tell the truth about contact and copy_generate row.
THEOREM OutcomesGrounded == Spec => []OutcomesAreGrounded
<1>1. IInv => OutcomesAreGrounded
  BY DEF IInv
<1> QED
  BY <1>1, InvAlways, PTL

\* A row that no second job shares pays for each of its DNS lookups beforehand.
THEOREM LookupsArePaid == Spec => []UnsharedRowsPay
<1>1. IInv => UnsharedRowsPay
  BY DEF IInv
<1> QED
  BY <1>1, InvAlways, PTL

\* A level falls only where two jobs are at work on one contact.
THEOREM SoleJobsKeepLevels == Spec => UnsharedLevelsNeverFall
<1>1. ASSUME IInv, [Next]_vars
      PROVE  [\A c \in Stored \ overlapped : AtLeast(level'[c], level[c])]_vars
  <2>0. ASSUME NEW l \in Levels
        PROVE  AtLeast(l, l)
    BY DEF AtLeast, Rank, Levels
  <2>1. CASE \E w \in Workers : PersistRoute(w)
    <3>1. PICK w \in Workers : PersistRoute(w)
      BY <2>1
    <3>2. /\ pc[w] = "validated" /\ job[w].contact \in Stored
          /\ level' = [level EXCEPT ![job[w].contact] = HigherLevel(seen[w], verdict[w])]
      BY <3>1, <1>1 DEF PersistRoute, Advance, IInv, JobsFitPlace, ReadLabels
    <3> SUFFICES ASSUME NEW c \in Stored \ overlapped
                 PROVE  AtLeast(level'[c], level[c])
      OBVIOUS
    <3>3. CASE c = job[w].contact
      <4>1. seen[w] = level[c] /\ seen[w] \in Levels /\ verdict[w] \in Levels
        BY <1>1, <3>2, <3>3 DEF IInv, TypeOK, SoleJobsAreCurrent, ReadLabels
      <4>2. level'[c] = HigherLevel(seen[w], verdict[w])
        BY <1>1, <3>2, <3>3 DEF IInv, TypeOK
      <4> QED
        BY <4>1, <4>2, HigherIsOneOfThem
    <3>4. CASE c # job[w].contact
      BY <1>1, <3>2, <3>4, <2>0 DEF IInv, TypeOK
    <3> QED
      BY <3>3, <3>4
  <2>2. CASE ~\E w \in Workers : PersistRoute(w)
    <3>1. level' = level
      BY <1>1, <2>2 DEF Next, WorkerStep, Refuse, ParkExhausted, SpendAttempt, ReadContact, StopShort,
         FindEmail, RejectSyntax, LookUpDomain, Finish, TimeOut, Abort, Begin, PostItem,
         FindProfile, vars
    <3> QED
      BY <1>1, <3>1, <2>0 DEF IInv, TypeOK
  <2> QED
    BY <2>1, <2>2
<1> QED
  BY <1>1, InvAlways, PTL DEF Spec, UnsharedLevelsNeverFall
=============================================================================
