-------------------------- MODULE ReviewSend_proofs --------------------------
(***************************************************************************)
(* Proofs about ReviewSend: type correctness, authorisation of every send, *)
(* the send caps as counted caps with the bound on their overshoot, and    *)
(* the implementation of SendLedger.                                       *)
(***************************************************************************)
EXTENDS ReviewSend, FiniteSetTheorems, TLAPS

\* What a job may find in the queue: its stage tells which table it is from.
LEMMA StageTellsTable ==
  ASSUME NEW row \in Row
  PROVE  /\ row.stage = "approval_request" => row \in Request
         /\ row.stage = "sending_dispatch" => row \in Dispatch
BY DEF Row, Request, Dispatch, ParkedStages

LEMMA KeysAreTyped ==
  ASSUME NEW rq \in Request
  PROVE  RequestKey(rq) \in RequestKeys
BY DEF Request, RequestKey, RequestKeys

-----------------------------------------------------------------------------
Inv1 == TypeOK /\ JobsFitPlace /\ DecidersHaveAuthority

LEMMA InitInv1 == Init => Inv1
BY ReviewSendAssumption DEF Init, Inv1, TypeOK, JobsFitPlace, DecidersHaveAuthority,
   PcLabels, RequestLabels, GrantedLabels, UnsentLabels

\* Freeing a worker keeps whatever holds of the other workers' jobs.
LEMMA ReleaseInv1 ==
  ASSUME Inv1, NEW w \in Workers, Release(w), UNCHANGED <<decisions, attempts>>
  PROVE  /\ pc' \in [Workers -> PcLabels]
         /\ job' \in [Workers -> Row \cup {NoJob}]
         /\ found' \in [Workers -> BOOLEAN]
         /\ JobsFitPlace'
         /\ DecidersHaveAuthority'
BY DEF Inv1, TypeOK, Release, PcLabels, JobsFitPlace, RequestLabels, GrantedLabels, UnsentLabels,
   DecidersHaveAuthority, Granted, Resolves, HasAttempt, MayDecide

\* Environment steps leave the workers alone and only add rows and jobs.
LEMMA EnvironmentInv1 ==
  ASSUME Inv1, Environment
  PROVE  Inv1'
<1> USE DEF Inv1
<1>1. ASSUME NEW d \in Drafts, NEW r \in Reviewers, NEW choice \in Choices,
             SubmitDecision(d, r, choice)
      PROVE  Inv1'
  <2> DEFINE rq == [stage |-> "approval_request", origin |-> "submit", draft |-> d,
                    reviewer |-> r, status |-> choice.status, role |-> choice.role,
                    override |-> choice.override, pack |-> "safe_v0_1",
                    budget |-> InitialBudget]
  <2>1. rq \in Request
    BY ReviewSendAssumption DEF Request
  <2>2. requests' \subseteq Request
    BY <1>1, <2>1 DEF SubmitDecision, TypeOK
  <2>3. queue' \in Seq(Row)
    <3>1. CASE UNCHANGED queue
      BY <3>1 DEF TypeOK
    <3>2. CASE ~UNCHANGED queue
      <4>1. PICK q \in Request : queue' = Append(queue, q)
        BY <1>1, <2>1, <3>2 DEF SubmitDecision, TypeOK
      <4> QED
        BY <4>1 DEF TypeOK, Row
    <3> QED
      BY <3>1, <3>2
  <2> QED
    BY <1>1, <2>2, <2>3 DEF SubmitDecision, TypeOK, JobsFitPlace, DecidersHaveAuthority,
       Granted, HasAttempt
<1>2. ASSUME NEW rq \in PostedRequests, PostRequest(rq)
      PROVE  Inv1'
  BY <1>2, ReviewSendAssumption DEF PostRequest, TypeOK, JobsFitPlace,
     DecidersHaveAuthority, Granted, HasAttempt
<1>3. ASSUME NEW di \in PostedDispatches, PostDispatch(di)
      PROVE  Inv1'
  BY <1>3, ReviewSendAssumption DEF PostDispatch, TypeOK, JobsFitPlace,
     DecidersHaveAuthority, Granted, HasAttempt
<1>4. ASSUME NEW row \in requests \cup dispatches, Deliver(row)
      PROVE  Inv1'
  <2>1. row \in Row
    BY <1>4 DEF TypeOK, Row
  <2>2. queue' \in Seq(Row)
    BY <1>4, <2>1 DEF Deliver, TypeOK
  <2> QED
    BY <1>4, <2>2 DEF Deliver, TypeOK, JobsFitPlace, DecidersHaveAuthority, Granted, HasAttempt
<1>5. ASSUME NEW d \in Suppressible, Suppress(d)
      PROVE  Inv1'
  BY <1>5, ReviewSendAssumption DEF Suppress, TypeOK, JobsFitPlace,
     DecidersHaveAuthority, Granted, HasAttempt
<1>6. ASSUME NEW a \in hour, HourPasses(a)
      PROVE  Inv1'
  BY <1>6 DEF HourPasses, TypeOK, JobsFitPlace, DecidersHaveAuthority, Granted, HasAttempt
<1>7. ASSUME NEW a \in day, DayPasses(a)
      PROVE  Inv1'
  BY <1>7 DEF DayPasses, TypeOK, JobsFitPlace, DecidersHaveAuthority, Granted, HasAttempt
<1> QED
  BY <1>1, <1>2, <1>3, <1>4, <1>5, <1>6, <1>7 DEF Environment

LEMMA RequestStepInv1 ==
  ASSUME Inv1, NEW w \in Workers, RequestStep(w)
  PROVE  Inv1'
<1> USE DEF Inv1
<1>1. CASE BeginRequest(w)
  <2>1. /\ Head(queue) \in Request
        /\ queue' \in Seq(Row)
    BY <1>1, StageTellsTable DEF BeginRequest, Take, TypeOK
  <2> QED
    BY <1>1, <2>1 DEF BeginRequest, Take, Advance, TypeOK, JobsFitPlace, PcLabels, Row,
       RequestLabels, GrantedLabels, UnsentLabels, DecidersHaveAuthority, Granted, HasAttempt
<1>2. CASE ParkForReviewer(w)
  <2>1. job[w] \in Row
    BY <1>2 DEF ParkForReviewer, JobsFitPlace, RequestLabels, Row
  <2> QED
    BY <1>2, <2>1, ReleaseInv1 DEF ParkForReviewer, Close, tables, TypeOK, EventType
<1>3. CASE RefuseRequest(w)
  <2>1. job[w] \in Row
    BY <1>3 DEF RefuseRequest, JobsFitPlace, RequestLabels, Row
  <2> QED
    BY <1>3, <2>1, ReleaseInv1 DEF RefuseRequest, Close, tables, TypeOK, EventType
<1>4. CASE RecordDecision(w)
  <2> DEFINE rq == job[w]
             dec == DecisionOf(rq)
  <2>1. rq \in Request /\ MayDecide(rq)
    BY <1>4 DEF RecordDecision, Advance, JobsFitPlace, RequestLabels
  <2>2. dec \in Decision /\ dec.role \in ReviewerRolesAllowed
    BY <2>1, KeysAreTyped DEF DecisionOf, Decision, DecisionKey, MayDecide, Request
  <2>3. decisions \subseteq decisions' /\ decisions' \subseteq decisions \cup {dec}
    BY <1>4 DEF RecordDecision
  <2>4. /\ pc' = [pc EXCEPT ![w] = "decision_recorded"]
        /\ pc[w] = "request_begun"
        /\ UNCHANGED <<requests, dispatches, attempts, hour, day, sinks, events,
                       suppressed, queue, job, found, aborts>>
    BY <1>4 DEF RecordDecision, Advance
  <2>5. \A di : Granted(di) => Granted(di)'
    BY <2>3 DEF Granted, Resolves, Grants
  <2>6. JobsFitPlace'
    BY <2>1, <2>4, <2>5 DEF JobsFitPlace, TypeOK, RequestLabels, GrantedLabels, UnsentLabels, HasAttempt,
       MayDecide
  <2> QED
    BY <2>2, <2>3, <2>4, <2>6 DEF TypeOK, PcLabels, DecidersHaveAuthority
<1>5. CASE EnqueueNextStage(w)
  <2> DEFINE rq == job[w]
             di == NextStageOf(rq)
  <2>1. rq \in Request /\ MayDecide(rq)
    BY <1>5 DEF EnqueueNextStage, Advance, JobsFitPlace, RequestLabels
  <2>2. di \in Dispatch
    BY <2>1, KeysAreTyped DEF NextStageOf, Dispatch, DecisionKey, MayDecide, Request, Routing,
       ParkedStages, DecisionStatuses
  <2>3. dispatches' \subseteq Dispatch
    BY <1>5, <2>2 DEF EnqueueNextStage, TypeOK
  <2> QED
    BY <1>5, <2>1, <2>3 DEF EnqueueNextStage, Advance, TypeOK, JobsFitPlace, PcLabels,
       RequestLabels, GrantedLabels, UnsentLabels, DecidersHaveAuthority, Granted, HasAttempt, MayDecide
<1>6. CASE FinishRequest(w)
  <2>1. job[w] \in Row
    BY <1>6 DEF FinishRequest, JobsFitPlace, RequestLabels, Row
  <2> QED
    BY <1>6, <2>1, ReleaseInv1 DEF FinishRequest, tables, TypeOK, EventType
<1> QED
  BY <1>1, <1>2, <1>3, <1>4, <1>5, <1>6 DEF RequestStep

LEMMA DispatchStepInv1 ==
  ASSUME Inv1, NEW w \in Workers, DispatchStep(w)
  PROVE  Inv1'
<1> USE DEF Inv1
<1>1. CASE BeginDispatch(w)
  <2>1. /\ Head(queue) \in Dispatch
        /\ queue' \in Seq(Row)
    BY <1>1, StageTellsTable DEF BeginDispatch, Take, TypeOK
  <2> QED
    BY <1>1, <2>1 DEF BeginDispatch, Take, Advance, TypeOK, JobsFitPlace, PcLabels, Row,
       RequestLabels, GrantedLabels, UnsentLabels, DecidersHaveAuthority, Granted, HasAttempt
<1>2. ASSUME pc[w] \in {"dispatch_begun"} \cup GrantedLabels,
             NEW type \in EventType, Close(w, type),
             UNCHANGED <<tables, hour, day, sinks, suppressed, queue, aborts>>
      PROVE  Inv1'
  <2>1. job[w] \in Row
    BY <1>2 DEF JobsFitPlace, Row
  <2> QED
    BY <1>2, <2>1, ReleaseInv1 DEF Close, tables, TypeOK
<1>3. CASE FailDispatch(w)
  BY <1>2, <1>3 DEF FailDispatch, EventType
<1>4. CASE ParkAtGate(w)
  BY <1>2, <1>4 DEF ParkAtGate, EventType
<1>5. CASE ClearGates(w)
  BY <1>5 DEF ClearGates, Advance, TypeOK, JobsFitPlace, PcLabels, RequestLabels,
     GrantedLabels, UnsentLabels, DecidersHaveAuthority, Granted, HasAttempt
<1>6. CASE ParkByPolicy(w)
  BY <1>2, <1>6 DEF ParkByPolicy, EventType, GrantedLabels, UnsentLabels
<1>7. CASE ClearRecipient(w) \/ PassPolicy(w)
  BY <1>7 DEF ClearRecipient, PassPolicy, Advance, TypeOK, JobsFitPlace, PcLabels, RequestLabels,
     GrantedLabels, UnsentLabels, DecidersHaveAuthority, Granted, HasAttempt
<1>8. CASE LookUpAttempt(w)
  BY <1>8 DEF LookUpAttempt, Advance, TypeOK, JobsFitPlace, PcLabels, RequestLabels,
     GrantedLabels, UnsentLabels, DecidersHaveAuthority, Granted, HasAttempt
<1>9. CASE WriteAttemptAndSink(w)
  <2> DEFINE d == job[w].draft
             new == IF HasAttempt(d) THEN {} ELSE {[draft |-> d, decision |-> job[w].decision]}
  <2>1. job[w] \in Dispatch /\ Granted(job[w]) /\ found[w] \in BOOLEAN
    BY <1>9 DEF WriteAttemptAndSink, Advance, JobsFitPlace, GrantedLabels, UnsentLabels, TypeOK
  <2>2. new \subseteq Attempt
    BY <2>1 DEF Granted, Resolves, Dispatch, Attempt
  <2>3. /\ attempts' = attempts \cup new /\ hour' = hour \cup new /\ day' = day \cup new
        /\ sinks' = sinks \cup {[row |-> job[w], reused |-> found[w]]}
        /\ pc' = [pc EXCEPT ![w] = "sink_logged"] /\ pc[w] = "looked_up"
        /\ UNCHANGED <<requests, dispatches, decisions, events, suppressed, queue,
                       job, found, aborts>>
    BY <1>9 DEF WriteAttemptAndSink, Advance
  <2>4. TypeOK'
    BY <2>1, <2>2, <2>3 DEF TypeOK, PcLabels
  <2>5. \A e : HasAttempt(e) => HasAttempt(e)'
    BY <2>3 DEF HasAttempt
  <2>6. JobsFitPlace'
    BY <2>3, <2>5 DEF JobsFitPlace, TypeOK, RequestLabels, GrantedLabels, UnsentLabels, Granted, MayDecide
  <2> QED
    BY <2>3, <2>4, <2>6 DEF DecidersHaveAuthority
<1>10. CASE FinishDispatch(w)
  BY <1>2, <1>10 DEF FinishDispatch, EventType, GrantedLabels, UnsentLabels
<1> QED
  BY <1>1, <1>3, <1>4, <1>5, <1>6, <1>7, <1>8, <1>9, <1>10 DEF DispatchStep

LEMMA NextInv1 == Inv1 /\ [Next]_vars => Inv1'
<1> SUFFICES ASSUME Inv1, [Next]_vars
             PROVE  Inv1'
  OBVIOUS
<1>1. ASSUME NEW w \in Workers, DropParked(w)
      PROVE  Inv1'
  <2>1. queue' \in Seq(Row)
    BY <1>1 DEF DropParked, Inv1, TypeOK
  <2> QED
    BY <1>1, <2>1 DEF DropParked, Inv1, TypeOK, JobsFitPlace, DecidersHaveAuthority,
       Granted, HasAttempt
<1>2. ASSUME NEW w \in Workers, Abort(w)
      PROVE  Inv1'
  <2>1. aborts' \in 0..MaxAborts
    BY <1>2, ReviewSendAssumption DEF Abort, Inv1, TypeOK
  <2> QED
    BY <1>2, <2>1, ReleaseInv1 DEF Abort, Inv1, TypeOK
<1>3. CASE UNCHANGED vars
  BY <1>3 DEF vars, Inv1, TypeOK, JobsFitPlace, DecidersHaveAuthority, Granted, HasAttempt
<1> QED
  BY <1>1, <1>2, <1>3, EnvironmentInv1, RequestStepInv1, DispatchStepInv1
  DEF Next, WorkerStep

(***************************************************************************)
(* The tables, the queue and every worker's job keep their types.          *)
(***************************************************************************)
THEOREM TypeCorrect == Spec => []TypeOK
<1>1. Inv1 => TypeOK
  BY DEF Inv1
<1> QED
  BY <1>1, InitInv1, NextInv1, PTL DEF Spec

LEMMA Inv1Always == Spec => []Inv1
BY InitInv1, NextInv1, PTL DEF Spec

-----------------------------------------------------------------------------
\* Two handlers' commits are the only steps that write a decision or an attempt.
LEMMA WhoWrites ==
  ASSUME [Next]_vars
  PROVE  \/ UNCHANGED <<decisions, attempts>>
         \/ \E w \in Workers : RecordDecision(w) /\ UNCHANGED attempts
         \/ \E w \in Workers : WriteAttemptAndSink(w) /\ UNCHANGED decisions
<1>1. CASE Environment
  BY <1>1 DEF Environment, SubmitDecision, PostRequest, PostDispatch, Deliver, Suppress,
     HourPasses, DayPasses
<1>2. ASSUME NEW w \in Workers, RequestStep(w)
      PROVE  UNCHANGED <<decisions, attempts>> \/ (RecordDecision(w) /\ UNCHANGED attempts)
  BY <1>2 DEF RequestStep, BeginRequest, Take, ParkForReviewer, RefuseRequest, RecordDecision,
     EnqueueNextStage, FinishRequest, tables
<1>3. ASSUME NEW w \in Workers, DispatchStep(w)
      PROVE  UNCHANGED <<decisions, attempts>> \/ (WriteAttemptAndSink(w) /\ UNCHANGED decisions)
  BY <1>3 DEF DispatchStep, BeginDispatch, Take, FailDispatch, ParkAtGate, ClearGates,
     ClearRecipient, PassPolicy, ParkByPolicy, LookUpAttempt, WriteAttemptAndSink, FinishDispatch, tables
<1>4. ASSUME NEW w \in Workers, DropParked(w) \/ Abort(w)
      PROVE  UNCHANGED <<decisions, attempts>>
  BY <1>4 DEF DropParked, Abort
<1>5. CASE UNCHANGED vars
  BY <1>5 DEF vars
<1> QED
  BY <1>1, <1>2, <1>3, <1>4, <1>5 DEF Next, WorkerStep

\* A worker about to insert holds a row that a decision with authority approves.
LEMMA WriterIsAuthorized ==
  ASSUME Inv1, NEW w \in Workers, pc[w] = "looked_up"
  PROVE  \E dec \in decisions :
           dec.key = job[w].decision /\ dec.draft = job[w].draft /\ Authorizes(dec)
BY DEF Inv1, JobsFitPlace, GrantedLabels, UnsentLabels, Granted, Resolves, Grants, Authorizes,
   DecidersHaveAuthority

(***************************************************************************)
(* Every send attempt stands on an approval on record for its own draft,   *)
(* for any number of drafts, reviewers and workers, any rows posted to     *)
(* /work-items and any redelivery or abort of jobs.                        *)
(***************************************************************************)
THEOREM EverySendIsAuthorized == Spec => []SendsAreAuthorized
<1>1. Init => SendsAreAuthorized
  BY DEF Init, SendsAreAuthorized
<1>2. Inv1 /\ SendsAreAuthorized /\ [Next]_vars => SendsAreAuthorized'
  <2> SUFFICES ASSUME Inv1, SendsAreAuthorized, [Next]_vars
               PROVE  SendsAreAuthorized'
    OBVIOUS
  <2>1. CASE UNCHANGED <<decisions, attempts>>
    BY <2>1 DEF SendsAreAuthorized, Authorizes, Grants
  <2>2. ASSUME NEW w \in Workers, RecordDecision(w), UNCHANGED attempts
        PROVE  SendsAreAuthorized'
    <3>1. decisions \subseteq decisions'
      BY <2>2 DEF RecordDecision
    <3> QED
      BY <2>2, <3>1 DEF SendsAreAuthorized, Authorizes, Grants
  <2>3. ASSUME NEW w \in Workers, WriteAttemptAndSink(w), UNCHANGED decisions
        PROVE  SendsAreAuthorized'
    <3>1. \A a \in attempts' \ attempts :
             a.draft = job[w].draft /\ a.decision = job[w].decision
      BY <2>3 DEF WriteAttemptAndSink
    <3>2. pc[w] = "looked_up"
      BY <2>3 DEF WriteAttemptAndSink, Advance
    <3> QED
      BY <2>3, <3>1, <3>2, WriterIsAuthorized DEF SendsAreAuthorized, Authorizes, Grants
  <2> QED
    BY <2>1, <2>2, <2>3, WhoWrites
<1> QED
  BY <1>1, <1>2, Inv1Always, PTL DEF Spec

-----------------------------------------------------------------------------
Approvals == {<<dec.draft, dec.key>> : dec \in {x \in decisions : Authorizes(x)}}

\* Recording a decision approves one draft in the ledger, or nothing.
LEMMA RecordRefines ==
  ASSUME Inv1, NEW w \in Workers, RecordDecision(w), UNCHANGED attempts
  PROVE  [Ledger!Next]_<<Approvals, attempts>>
<1> DEFINE rq == job[w]
           dec == DecisionOf(rq)
<1>1. rq \in Request /\ MayDecide(rq)
  BY DEF RecordDecision, Advance, Inv1, JobsFitPlace, RequestLabels
<1>2. dec.draft \in Drafts /\ dec.key \in RequestKeys
  BY <1>1, KeysAreTyped DEF DecisionOf, DecisionKey, MayDecide, Request
<1>3. decisions' = decisions \/ decisions' = decisions \cup {dec}
  BY DEF RecordDecision
<1>4. CASE decisions' = decisions \/ ~Authorizes(dec)
  <2>1. Approvals' = Approvals
    BY <1>3, <1>4 DEF Approvals, Authorizes, Grants
  <2> QED
    BY <2>1
<1>5. CASE decisions' = decisions \cup {dec} /\ Authorizes(dec)
  <2>1. Approvals' = Approvals \cup {<<dec.draft, dec.key>>}
    BY <1>5 DEF Approvals, Authorizes, Grants
  <2> QED
    BY <1>2, <2>1 DEF Ledger!Next, Ledger!Approve, Approvals
<1> QED
  BY <1>3, <1>4, <1>5

\* The dispatch handler's insert is a send of the ledger, or reuses one.
LEMMA WriteRefines ==
  ASSUME Inv1, NEW w \in Workers, WriteAttemptAndSink(w), UNCHANGED decisions
  PROVE  [Ledger!Next]_<<Approvals, attempts>>
<1> DEFINE d == job[w].draft
           key == job[w].decision
<1>1. pc[w] = "looked_up"
  BY DEF WriteAttemptAndSink, Advance
<1>2. PICK dec \in decisions : dec.key = key /\ dec.draft = d /\ Authorizes(dec)
  BY <1>1, WriterIsAuthorized
<1>3. <<d, key>> \in Approvals
  BY <1>2 DEF Approvals
<1>4. d \in Drafts /\ key \in RequestKeys
  BY <1>2 DEF Inv1, TypeOK, Decision
<1>5. Approvals' = Approvals
  BY DEF Approvals, Authorizes, Grants
<1>6. CASE HasAttempt(d)
  BY <1>5, <1>6 DEF WriteAttemptAndSink
<1>7. CASE ~HasAttempt(d)
  <2>1. attempts' = attempts \cup {[draft |-> d, decision |-> key]}
    BY <1>7 DEF WriteAttemptAndSink
  <2> QED
    BY <1>3, <1>4, <1>5, <1>7, <2>1 DEF HasAttempt, Ledger!Next, Ledger!Send, Approvals
<1> QED
  BY <1>6, <1>7

(***************************************************************************)
(* The approval and dispatch handlers implement the ledger of sends: at    *)
(* most one send per draft, only under an earlier approval, nothing taken  *)
(* back.                                                                   *)
(***************************************************************************)
THEOREM ReviewSendImplementsLedger == Spec => ImplementsSendLedger
<1>1. Init => Ledger!Init
  BY DEF Init, Ledger!Init
<1>2. Inv1 /\ [Next]_vars => [Ledger!Next]_<<Approvals, attempts>>
  <2> SUFFICES ASSUME Inv1, [Next]_vars
               PROVE  [Ledger!Next]_<<Approvals, attempts>>
    OBVIOUS
  <2>1. CASE UNCHANGED <<decisions, attempts>>
    BY <2>1 DEF Approvals, Authorizes, Grants
  <2> QED
    BY <2>1, WhoWrites, RecordRefines, WriteRefines
<1> QED
  BY <1>1, <1>2, Inv1Always, PTL DEF Spec, ImplementsSendLedger, Ledger!Spec, Approvals
-----------------------------------------------------------------------------
(***************************************************************************)
(* The caps as counted caps.                                               *)
(***************************************************************************)
HourProofs == INSTANCE CountedCap_proofs WITH
  Keys <- {"hour"}, Cap <- MaxSendsPerHour, MaxGrant <- 1,
  members <- HourMembers, granted <- HourGrants

DayProofs == INSTANCE CountedCap_proofs WITH
  Keys <- {"day"}, Cap <- MaxSendsPerDay, MaxGrant <- 1,
  members <- DayMembers, granted <- DayGrants

DomainProofs == INSTANCE CountedCap_proofs WITH
  Keys <- RecipientDomains, Cap <- MaxSendsPerTargetDomain, MaxGrant <- 1,
  members <- DomainMembers, granted <- DomainGrants

\* Each instance has definitions of its own of what finite sets are, and they are the same.
LEMMA SameCardinality ==
  \A S : /\ HourCap!Cardinality(S) = Cardinality(S)
         /\ DayCap!Cardinality(S) = Cardinality(S)
         /\ DomainCap!Cardinality(S) = Cardinality(S)
         /\ HourCap!IsFiniteSet(S) <=> IsFiniteSet(S)
         /\ DayCap!IsFiniteSet(S) <=> IsFiniteSet(S)
         /\ DomainCap!IsFiniteSet(S) <=> IsFiniteSet(S)
BY DEF HourCap!Cardinality, DayCap!Cardinality, DomainCap!Cardinality, Cardinality,
   HourCap!IsFiniteSet, DayCap!IsFiniteSet, DomainCap!IsFiniteSet, IsFiniteSet

LEMMA SameCardinalityInProofs ==
  \A S : /\ HourProofs!Cardinality(S) = Cardinality(S)
         /\ DayProofs!Cardinality(S) = Cardinality(S)
         /\ DomainProofs!Cardinality(S) = Cardinality(S)
         /\ HourProofs!IsFiniteSet(S) <=> IsFiniteSet(S)
         /\ DayProofs!IsFiniteSet(S) <=> IsFiniteSet(S)
         /\ DomainProofs!IsFiniteSet(S) <=> IsFiniteSet(S)
BY DEF HourProofs!Cardinality, DayProofs!Cardinality, DomainProofs!Cardinality, Cardinality,
   HourProofs!IsFiniteSet, DayProofs!IsFiniteSet, DomainProofs!IsFiniteSet, IsFiniteSet

\* What steps do to attempts and allowances: nothing, time passes, a worker is let through by
\* the caps, or it inserts the attempt it was let through for, or it gives that up.
Sent == <<attempts, hour, day>>
Allowed(w, n) == \A doms : Allowances(doms)' =
  [Allowances(doms) EXCEPT ![w] = IF n = 1 /\ RecipientDomain[job[w].draft] \in doms THEN 1 ELSE 0]

NothingSent == UNCHANGED Sent /\ \A doms : Allowances(doms)' = Allowances(doms)
TimePasses ==
  /\ attempts' = attempts /\ \A doms : Allowances(doms)' = Allowances(doms)
  /\ \/ hour' \subseteq hour /\ day' = day
     \/ hour' = hour /\ \E a : day' = day \ {a}
TakesOff(w) ==
  /\ UNCHANGED Sent /\ Allowed(w, 1)
  /\ job[w].draft \in Drafts /\ UnderCaps(job[w].draft)
Lands(w) ==
  /\ MayInsert(w) /\ Allowed(w, 0)
  /\ job[w].draft \in Drafts
  /\ \E a : /\ a.draft = job[w].draft
            /\ attempts' = attempts \cup {a} /\ hour' = hour \cup {a} /\ day' = day \cup {a}
GivesUp(w) == MayInsert(w) /\ job[w].draft \in Drafts /\ UNCHANGED Sent /\ Allowed(w, 0)

\* Who is not past the caps has no allowance, and neither has who has lost it.
LEMMA WhoIsAllowed ==
  ASSUME Inv1, NEW w \in Workers,
         \A v \in Workers \ {w} : pc'[v] = pc[v] /\ job'[v] = job[v] /\ found'[v] = found[v]
  PROVE  /\ ~MayInsert(w)' => Allowed(w, 0)
         /\ MayInsert(w)' /\ job'[w] = job[w] => Allowed(w, 1)
         /\ MayInsert(w)' /\ MayInsert(w) /\ job'[w] = job[w] =>
              \A doms : Allowances(doms)' = Allowances(doms)
         /\ ~MayInsert(w)' /\ ~MayInsert(w) => \A doms : Allowances(doms)' = Allowances(doms)
BY DEF Allowed, Allowances, MayInsert

LEMMA DraftsOfJobs ==
  ASSUME Inv1, NEW w \in Workers, pc[w] \in GrantedLabels
  PROVE  job[w].draft \in Drafts
BY DEF Inv1, JobsFitPlace, Granted, Resolves, Dispatch

LEMMA HowSendsChange ==
  ASSUME Inv1, [Next]_vars
  PROVE  NothingSent \/ TimePasses \/ \E w \in Workers : TakesOff(w) \/ Lands(w) \/ GivesUp(w)
<1> DEFINE Others(w) == \A v \in Workers \ {w} :
             pc'[v] = pc[v] /\ job'[v] = job[v] /\ found'[v] = found[v]
<1>1. CASE Environment \/ UNCHANGED vars
  <2>1. \A doms : Allowances(doms)' = Allowances(doms)
    BY <1>1 DEF Allowances, MayInsert, Environment, SubmitDecision, PostRequest, PostDispatch,
       Deliver, Suppress, HourPasses, DayPasses, vars
  <2> QED
    BY <1>1, <2>1 DEF NothingSent, Sent, TimePasses, Environment, SubmitDecision, PostRequest,
       PostDispatch, Deliver, Suppress, HourPasses, DayPasses, vars
<1>2. ASSUME NEW w \in Workers, UNCHANGED Sent, Others(w), ~MayInsert(w)'
      PROVE  NothingSent \/ GivesUp(w)
  <2>1. CASE MayInsert(w)
    <3>1. job[w].draft \in Drafts
      BY <2>1, DraftsOfJobs DEF MayInsert, GrantedLabels, UnsentLabels
    <3> QED
      BY <1>2, <2>1, <3>1, WhoIsAllowed DEF GivesUp
  <2>2. CASE ~MayInsert(w)
    BY <1>2, <2>2, WhoIsAllowed DEF NothingSent
  <2> QED
    BY <2>1, <2>2
<1>3. ASSUME NEW w \in Workers, RequestStep(w) \/ DropParked(w) \/ Abort(w)
      PROVE  NothingSent \/ GivesUp(w)
  <2>1. UNCHANGED Sent /\ Others(w) /\ ~MayInsert(w)'
    BY <1>3 DEF Inv1, TypeOK, Sent, MayInsert, RequestStep, BeginRequest, Take, ParkForReviewer,
       RefuseRequest, RecordDecision, EnqueueNextStage, FinishRequest, tables, Close, Release,
       Advance, DropParked, Abort
  <2> QED
    BY <1>2, <2>1
<1>4. ASSUME NEW w \in Workers, DispatchStep(w),
             ~PassPolicy(w), ~LookUpAttempt(w), ~WriteAttemptAndSink(w)
      PROVE  NothingSent \/ GivesUp(w)
  <2>1. UNCHANGED Sent /\ Others(w) /\ ~MayInsert(w)'
    BY <1>4 DEF Inv1, TypeOK, Sent, MayInsert, DispatchStep, BeginDispatch, Take, FailDispatch,
       ParkAtGate, ClearGates, ClearRecipient, ParkByPolicy, FinishDispatch, tables, Close,
       Release, Advance
  <2> QED
    BY <1>2, <2>1
<1>5. ASSUME NEW w \in Workers, PassPolicy(w)
      PROVE  NothingSent \/ TakesOff(w)
  <2>1. /\ UNCHANGED Sent /\ Others(w) /\ found' = found /\ job' = job
        /\ pc[w] = "recipient_clear" /\ pc'[w] = "policy_clear"
    BY <1>5 DEF Inv1, TypeOK, Sent, PassPolicy, Advance
  <2>2. CASE found[w]
    BY <2>1, <2>2, WhoIsAllowed DEF NothingSent, MayInsert
  <2>3. CASE ~found[w]
    <3>1. UnderCaps(job[w].draft) /\ job[w].draft \in Drafts
      BY <1>5, <2>1, <2>3, DraftsOfJobs DEF PassPolicy, PolicyPasses, GrantedLabels, UnsentLabels
    <3>2. Allowed(w, 1)
      BY <2>1, <2>3, WhoIsAllowed DEF MayInsert
    <3> QED
      BY <2>1, <3>1, <3>2 DEF TakesOff
  <2> QED
    BY <2>2, <2>3
<1>6. ASSUME NEW w \in Workers, LookUpAttempt(w)
      PROVE  NothingSent \/ GivesUp(w)
  <2>1. /\ UNCHANGED Sent /\ Others(w) /\ job' = job
        /\ pc[w] = "policy_clear" /\ pc'[w] = "looked_up"
        /\ found'[w] = HasAttempt(job[w].draft)
    BY <1>6 DEF Inv1, TypeOK, Sent, LookUpAttempt, Advance
  <2>2. CASE found'[w]
    BY <1>2, <2>1, <2>2 DEF MayInsert
  <2>3. CASE ~found'[w]
    <3>1. ~found[w]
      BY <2>1, <2>3 DEF Inv1, JobsFitPlace, UnsentLabels
    <3> QED
      BY <2>1, <2>3, <3>1, WhoIsAllowed DEF NothingSent, MayInsert
  <2> QED
    BY <2>2, <2>3
<1>7. ASSUME NEW w \in Workers, WriteAttemptAndSink(w)
      PROVE  NothingSent \/ GivesUp(w) \/ Lands(w)
  <2>1. /\ Others(w) /\ ~MayInsert(w)' /\ pc[w] = "looked_up"
    BY <1>7 DEF Inv1, TypeOK, WriteAttemptAndSink, Advance, MayInsert
  <2>2. CASE HasAttempt(job[w].draft)
    <3>1. UNCHANGED Sent
      BY <1>7, <2>2 DEF WriteAttemptAndSink, Sent
    <3> QED
      BY <1>2, <2>1, <3>1
  <2>3. CASE ~HasAttempt(job[w].draft)
    <3> DEFINE a == [draft |-> job[w].draft, decision |-> job[w].decision]
    <3>1. a.draft = job[w].draft /\ attempts' = attempts \cup {a} /\ hour' = hour \cup {a}
          /\ day' = day \cup {a}
      BY <1>7, <2>3 DEF WriteAttemptAndSink
    <3>2. MayInsert(w)
      BY <2>1, <2>3 DEF MayInsert, Inv1, JobsFitPlace, UnsentLabels
    <3>3. job[w].draft \in Drafts
      BY <2>1, DraftsOfJobs DEF GrantedLabels, UnsentLabels
    <3>4. Allowed(w, 0)
      BY <2>1, WhoIsAllowed
    <3> HIDE DEF a
    <3> QED
      BY <3>1, <3>2, <3>3, <3>4 DEF Lands
  <2> QED
    BY <2>2, <2>3
<1> QED
  BY <1>1, <1>3, <1>4, <1>5, <1>6, <1>7 DEF Next, WorkerStep, DispatchStep

LEMMA AtMostOne ==
  ASSUME NEW S, NEW a, S \subseteq {a}
  PROVE  Cardinality(S) <= 1
<1>1. IsFiniteSet({a}) /\ Cardinality({a}) = 1
  BY FS_Singleton
<1>2. Cardinality(S) \in Nat /\ Cardinality(S) <= Cardinality({a})
  BY <1>1, FS_Subset, FS_CardinalityType
<1> QED
  BY <1>1, <1>2

LEMMA WindowsAreFinite ==
  ASSUME TypeOK, IsFiniteSet(attempts)
  PROVE  /\ IsFiniteSet(day) /\ IsFiniteSet(hour)
         /\ \A dom : IsFiniteSet(InDomain(dom))
BY FS_Subset DEF TypeOK, InDomain

\* Attempts are made one at a time.
FiniteSends == IsFiniteSet(attempts)

LEMMA AttemptsStayFinite == Inv1 /\ FiniteSends /\ [Next]_vars => FiniteSends'
<1> SUFFICES ASSUME Inv1, FiniteSends, [Next]_vars
             PROVE  FiniteSends'
  OBVIOUS
<1>1. attempts' = attempts \/ \E a : attempts' = attempts \cup {a}
  BY HowSendsChange DEF NothingSent, TimePasses, TakesOff, Lands, GivesUp, Sent
<1> QED
  BY <1>1, FS_AddElement DEF FiniteSends

LEMMA SendsStayFinite ==
  ASSUME Inv1, IsFiniteSet(attempts), [Next]_vars
  PROVE  /\ IsFiniteSet(day') /\ IsFiniteSet(hour')
         /\ \A dom : IsFiniteSet(InDomain(dom)')
<1>1. TypeOK' /\ IsFiniteSet(attempts')
  BY NextInv1, AttemptsStayFinite DEF Inv1, FiniteSends
<1>2. day' \subseteq attempts' /\ hour' \subseteq attempts' /\ \A dom : InDomain(dom)' \subseteq attempts'
  BY <1>1 DEF TypeOK, InDomain
<1> QED
  BY <1>1, <1>2, FS_Subset

LEMMA HourCapSteps ==
  ASSUME Inv1, IsFiniteSet(attempts), [Next]_vars
  PROVE  \/ HourCap!WindowNext
         \/ UNCHANGED <<HourMembers, HourGrants>>
<1> DEFINE M == HourMembers
           G == HourGrants
<1> USE DEF HourMembers, HourGrants
<1>1. IsFiniteSet(hour) /\ IsFiniteSet(hour') /\ Cardinality(hour) \in Nat
  BY WindowsAreFinite, SendsStayFinite, FS_CardinalityType DEF Inv1
<1>2. CASE NothingSent
  BY <1>2 DEF NothingSent, Sent
<1>3. CASE TimePasses
  <2>1. hour' \subseteq hour /\ G' = G
    BY <1>3 DEF TimePasses
  <2>2. HourCap!Leave("hour")
    BY <2>1 DEF HourCap!Leave
  <2> QED
    BY <2>2 DEF HourCap!WindowNext
<1>4. ASSUME NEW w \in Workers, TakesOff(w)
      PROVE  HourCap!WindowNext
  <2>1. M' = M /\ Cardinality(hour) + 1 <= MaxSendsPerHour
    BY <1>1, <1>4, ReviewSendAssumption DEF TakesOff, Sent, UnderCaps
  <2>2. G' = [G EXCEPT !["hour"][w] = 1]
    BY <1>4, ReviewSendAssumption DEF TakesOff, Allowed
  <2>3. HourCap!Count("hour", w)
    <3>1. 1 \in 1..1 /\ HourCap!Cardinality(M["hour"]) + 1 <= MaxSendsPerHour
      BY <2>1, SameCardinality
    <3> QED
      BY <2>1, <2>2, <3>1 DEF HourCap!Count
  <2> QED
    BY <2>3 DEF HourCap!WindowNext, HourCap!Next
<1>5. ASSUME NEW w \in Workers, Lands(w) \/ GivesUp(w)
      PROVE  HourCap!WindowNext
  <2>1. G' = [G EXCEPT !["hour"][w] = 0] /\ G["hour"][w] = 1
    <3>1. RecipientDomain[job[w].draft] \in RecipientDomains /\ MayInsert(w) /\ Allowed(w, 0)
      BY <1>5, ReviewSendAssumption DEF Lands, GivesUp
    <3>2. Allowances(RecipientDomains)' = [Allowances(RecipientDomains) EXCEPT ![w] = 0]
      BY <3>1 DEF Allowed
    <3> QED
      BY <3>1, <3>2 DEF Allowances
  <2>2. hour \subseteq hour' /\ \E a : hour' \ hour \subseteq {a}
    BY <1>5 DEF Lands, GivesUp, Sent
  <2>3. HourCap!Cardinality(M'["hour"] \ M["hour"]) <= 1
    BY <2>2, AtMostOne, SameCardinality
  <2>4. HourCap!Spend("hour", w)
    <3>1. M["hour"] \subseteq M'["hour"] /\ HourCap!IsFiniteSet(M'["hour"])
      BY <1>1, <2>2, SameCardinality
    <3>2. M' = [M EXCEPT !["hour"] = M'["hour"]]
      OBVIOUS
    <3> QED
      BY <2>1, <2>3, <3>1, <3>2 DEF HourCap!Spend
  <2> QED
    BY <2>4 DEF HourCap!WindowNext, HourCap!Next
<1> QED
  BY <1>2, <1>3, <1>4, <1>5, HowSendsChange

LEMMA DayCapSteps ==
  ASSUME Inv1, IsFiniteSet(attempts), [Next]_vars
  PROVE  \/ DayCap!WindowNext
         \/ UNCHANGED <<DayMembers, DayGrants>>
<1> DEFINE M == DayMembers
           G == DayGrants
<1> USE DEF DayMembers, DayGrants
<1>1. IsFiniteSet(day) /\ IsFiniteSet(day') /\ Cardinality(day) \in Nat
  BY WindowsAreFinite, SendsStayFinite, FS_CardinalityType DEF Inv1
<1>2. CASE NothingSent
  BY <1>2 DEF NothingSent, Sent
<1>3. CASE TimePasses
  <2>1. day' \subseteq day /\ G' = G
    BY <1>3 DEF TimePasses
  <2>2. DayCap!Leave("day")
    BY <2>1 DEF DayCap!Leave
  <2> QED
    BY <2>2 DEF DayCap!WindowNext
<1>4. ASSUME NEW w \in Workers, TakesOff(w)
      PROVE  DayCap!WindowNext
  <2>1. M' = M /\ Cardinality(day) + 1 <= MaxSendsPerDay
    BY <1>1, <1>4, ReviewSendAssumption DEF TakesOff, Sent, UnderCaps
  <2>2. G' = [G EXCEPT !["day"][w] = 1]
    BY <1>4, ReviewSendAssumption DEF TakesOff, Allowed
  <2>3. DayCap!Count("day", w)
    <3>1. 1 \in 1..1 /\ DayCap!Cardinality(M["day"]) + 1 <= MaxSendsPerDay
      BY <2>1, SameCardinality
    <3> QED
      BY <2>1, <2>2, <3>1 DEF DayCap!Count
  <2> QED
    BY <2>3 DEF DayCap!WindowNext, DayCap!Next
<1>5. ASSUME NEW w \in Workers, Lands(w) \/ GivesUp(w)
      PROVE  DayCap!WindowNext
  <2>1. G' = [G EXCEPT !["day"][w] = 0] /\ G["day"][w] = 1
    <3>1. RecipientDomain[job[w].draft] \in RecipientDomains /\ MayInsert(w) /\ Allowed(w, 0)
      BY <1>5, ReviewSendAssumption DEF Lands, GivesUp
    <3>2. Allowances(RecipientDomains)' = [Allowances(RecipientDomains) EXCEPT ![w] = 0]
      BY <3>1 DEF Allowed
    <3> QED
      BY <3>1, <3>2 DEF Allowances
  <2>2. day \subseteq day' /\ \E a : day' \ day \subseteq {a}
    BY <1>5 DEF Lands, GivesUp, Sent
  <2>3. DayCap!Cardinality(M'["day"] \ M["day"]) <= 1
    BY <2>2, AtMostOne, SameCardinality
  <2>4. DayCap!Spend("day", w)
    <3>1. M["day"] \subseteq M'["day"] /\ DayCap!IsFiniteSet(M'["day"])
      BY <1>1, <2>2, SameCardinality
    <3>2. M' = [M EXCEPT !["day"] = M'["day"]]
      OBVIOUS
    <3> QED
      BY <2>1, <2>3, <3>1, <3>2 DEF DayCap!Spend
  <2> QED
    BY <2>4 DEF DayCap!WindowNext, DayCap!Next
<1> QED
  BY <1>2, <1>3, <1>4, <1>5, HowSendsChange

LEMMA DomainCapSteps ==
  ASSUME Inv1, IsFiniteSet(attempts), [Next]_vars
  PROVE  \/ DomainCap!WindowNext
         \/ UNCHANGED <<DomainMembers, DomainGrants>>
<1> DEFINE M == DomainMembers
           G == DomainGrants
<1> USE DEF DomainMembers, DomainGrants
<1>1. \A dom : IsFiniteSet(InDomain(dom)) /\ IsFiniteSet(InDomain(dom)') /\ Cardinality(InDomain(dom)) \in Nat
  BY WindowsAreFinite, SendsStayFinite, FS_CardinalityType DEF Inv1
<1>2. CASE NothingSent
  BY <1>2 DEF NothingSent, Sent, InDomain
<1>3. CASE TimePasses
  <2>1. G' = G
    BY <1>3 DEF TimePasses
  <2>2. CASE day' = day
    BY <2>1, <2>2 DEF InDomain
  <2>3. ASSUME NEW a, day' = day \ {a}
        PROVE  DomainCap!WindowNext \/ UNCHANGED <<M, G>>
    <3> DEFINE d == RecipientDomain[a.draft]
    <3>1. \A dom : InDomain(dom)' = IF dom = d THEN InDomain(dom) \ {a} ELSE InDomain(dom)
      BY <2>3 DEF InDomain
    <3>2. CASE d \in RecipientDomains
      <4>1. M'[d] \subseteq M[d] /\ M' = [M EXCEPT ![d] = M'[d]]
        BY <3>1, <3>2
      <4>2. DomainCap!Leave(d)
        BY <2>1, <4>1 DEF DomainCap!Leave
      <4> QED
        BY <3>2, <4>2 DEF DomainCap!WindowNext
    <3>3. CASE d \notin RecipientDomains
      BY <2>1, <3>1, <3>3
    <3> QED
      BY <3>2, <3>3
  <2> QED
    BY <1>3, <2>2, <2>3 DEF TimePasses
<1>4. ASSUME NEW w \in Workers, TakesOff(w)
      PROVE  DomainCap!WindowNext
  <2> DEFINE d == RecipientDomain[job[w].draft]
  <2>1. d \in RecipientDomains /\ M' = M /\ Cardinality(InDomain(d)) + 1 <= MaxSendsPerTargetDomain
    <3>1. d \in RecipientDomains /\ \A dom : InDomain(dom)' = InDomain(dom)
      BY <1>4, ReviewSendAssumption DEF TakesOff, Sent, InDomain
    <3>2. Cardinality(InDomain(d)) < MaxSendsPerTargetDomain
      BY <1>4 DEF TakesOff, UnderCaps
    <3> QED
      BY <1>1, <3>1, <3>2, ReviewSendAssumption
  <2>2. \A dom : Allowances({dom})' = [Allowances({dom}) EXCEPT ![w] = IF dom = d THEN 1 ELSE 0]
    BY <1>4 DEF TakesOff, Allowed
  <2>3. \A dom : dom # d => Allowances({dom})[w] = 0
    BY DEF Allowances
  <2>4. ASSUME NEW dom, dom # d
        PROVE  Allowances({dom})' = Allowances({dom})
    <3>1. Allowances({dom}) = [v \in Workers |-> Allowances({dom})[v]]
      BY DEF Allowances
    <3> QED
      BY <2>2, <2>3, <2>4, <3>1
  <2>5. G' = [G EXCEPT ![d][w] = 1]
    BY <2>1, <2>2, <2>4
  <2>6. DomainCap!Count(d, w)
    <3>1. 1 \in 1..1 /\ DomainCap!Cardinality(M[d]) + 1 <= MaxSendsPerTargetDomain
      BY <2>1, SameCardinality
    <3> QED
      BY <2>1, <2>5, <3>1 DEF DomainCap!Count
  <2> QED
    BY <2>1, <2>6 DEF DomainCap!WindowNext, DomainCap!Next
<1>5. ASSUME NEW w \in Workers, Lands(w) \/ GivesUp(w), NEW d, d = RecipientDomain[job[w].draft]
      PROVE  DomainCap!WindowNext
  <2>1. d \in RecipientDomains /\ MayInsert(w) /\ Allowed(w, 0)
    BY <1>5, ReviewSendAssumption DEF Lands, GivesUp
  <2>2. \A dom : Allowances({dom})' = [Allowances({dom}) EXCEPT ![w] = 0]
    BY <2>1 DEF Allowed
  <2>3. \A dom : Allowances({dom})[w] = IF dom = d THEN 1 ELSE 0
    BY <1>5, <2>1 DEF Allowances
  <2>4. ASSUME NEW dom, dom # d
        PROVE  Allowances({dom})' = Allowances({dom})
    <3>1. Allowances({dom}) = [v \in Workers |-> Allowances({dom})[v]]
      BY DEF Allowances
    <3> QED
      BY <2>2, <2>3, <2>4, <3>1
  <2>5. G' = [G EXCEPT ![d][w] = 0] /\ G[d][w] = 1
    BY <2>1, <2>2, <2>3, <2>4
  <2>6. /\ InDomain(d) \subseteq InDomain(d)' /\ \E a : InDomain(d)' \ InDomain(d) \subseteq {a}
        /\ \A dom : dom # d => InDomain(dom)' = InDomain(dom)
    <3>1. CASE UNCHANGED day
      BY <3>1 DEF InDomain
    <3>2. ASSUME NEW a, RecipientDomain[a.draft] = d, day' = day \cup {a}
          PROVE  \A dom : InDomain(dom)' = IF dom = d THEN InDomain(dom) \cup {a} ELSE InDomain(dom)
      BY <3>2 DEF InDomain
    <3> QED
      BY <1>5, <3>1, <3>2 DEF Lands, GivesUp, Sent
  <2>7. DomainCap!Cardinality(M'[d] \ M[d]) <= 1
    <3>1. PICK a : InDomain(d)' \ InDomain(d) \subseteq {a}
      BY <2>6
    <3>2. M'[d] \ M[d] \subseteq {a}
      BY <2>1, <3>1
    <3> QED
      BY <3>2, AtMostOne, SameCardinality
  <2>8. DomainCap!Spend(d, w)
    <3>1. M[d] \subseteq M'[d] /\ DomainCap!IsFiniteSet(M'[d])
      <4>1. M[d] = InDomain(d) /\ M'[d] = InDomain(d)'
        BY <2>1
      <4> QED
        BY <1>1, <2>6, <4>1, SameCardinality
    <3>2. M' = [M EXCEPT ![d] = M'[d]]
      BY <2>1, <2>6
    <3> QED
      BY <2>5, <2>7, <3>1, <3>2 DEF DomainCap!Spend
  <2> QED
    BY <2>1, <2>8 DEF DomainCap!WindowNext, DomainCap!Next
<1> QED
  BY <1>2, <1>3, <1>4, <1>5, HowSendsChange

LEMMA InitSends == Init => HourCap!Init /\ DayCap!Init /\ DomainCap!Init /\ FiniteSends
<1> SUFFICES ASSUME Init
             PROVE  HourCap!Init /\ DayCap!Init /\ DomainCap!Init /\ FiniteSends
  OBVIOUS
<1>1. hour = {} /\ day = {} /\ attempts = {} /\ \A dom : InDomain(dom) = {}
  BY DEF Init, InDomain
<1>2. \A doms : Allowances(doms) = [w \in Workers |-> 0]
  BY DEF Init, Allowances, MayInsert
<1> QED
  BY <1>1, <1>2, FS_EmptySet DEF HourCap!Init, DayCap!Init, DomainCap!Init, HourMembers, HourGrants,
  DayMembers, DayGrants, DomainMembers, DomainGrants, FiniteSends

(***************************************************************************)
(* Each send cap is a counted cap on a sliding window: what the policy     *)
(* check of a job finds room for, only this job's own attempt uses, once.  *)
(***************************************************************************)
THEOREM ReviewSendImplementsCountedCaps == Spec => ImplementsSendCaps
<1>1. Inv1 /\ FiniteSends /\ [Next]_vars => FiniteSends'
  BY AttemptsStayFinite
<1>2. Inv1 /\ FiniteSends /\ [Next]_vars => [HourCap!WindowNext]_<<HourMembers, HourGrants>>
  BY HourCapSteps DEF FiniteSends
<1>3. Inv1 /\ FiniteSends /\ [Next]_vars => [DayCap!WindowNext]_<<DayMembers, DayGrants>>
  BY DayCapSteps DEF FiniteSends
<1>4. Inv1 /\ FiniteSends /\ [Next]_vars => [DomainCap!WindowNext]_<<DomainMembers, DomainGrants>>
  BY DomainCapSteps DEF FiniteSends
<1> QED
  BY <1>1, <1>2, <1>3, <1>4, InitSends, Inv1Always, PTL
  DEF Spec, ImplementsSendCaps, HourCap!WindowSpec, DayCap!WindowSpec, DomainCap!WindowSpec

LEMMA HourCapOvershoot == HourCap!WindowSpec => []HourProofs!OvershootBounded
<1>1. HourProofs!CapAssumption
  BY ReviewSendAssumption, SameCardinalityInProofs DEF HourProofs!CapAssumption
<1>2. HourCap!Init => HourProofs!Init
  BY DEF HourCap!Init, HourProofs!Init
<1>3. [HourCap!WindowNext]_<<HourMembers, HourGrants>> => [HourProofs!WindowNext]_<<HourMembers, HourGrants>>
  BY SameCardinality, SameCardinalityInProofs DEF HourCap!WindowNext, HourCap!Next, HourCap!Count,
     HourCap!Spend, HourCap!Leave, HourProofs!WindowNext, HourProofs!Next, HourProofs!Count,
     HourProofs!Spend, HourProofs!Leave
<1>4. HourProofs!WindowSpec => []HourProofs!OvershootBounded
  BY <1>1, HourProofs!WindowsBoundOvershoot
<1> QED
  BY <1>2, <1>3, <1>4, PTL DEF HourCap!WindowSpec, HourProofs!WindowSpec

LEMMA DayCapOvershoot == DayCap!WindowSpec => []DayProofs!OvershootBounded
<1>1. DayProofs!CapAssumption
  BY ReviewSendAssumption, SameCardinalityInProofs DEF DayProofs!CapAssumption
<1>2. DayCap!Init => DayProofs!Init
  BY DEF DayCap!Init, DayProofs!Init
<1>3. [DayCap!WindowNext]_<<DayMembers, DayGrants>> => [DayProofs!WindowNext]_<<DayMembers, DayGrants>>
  BY SameCardinality, SameCardinalityInProofs DEF DayCap!WindowNext, DayCap!Next, DayCap!Count,
     DayCap!Spend, DayCap!Leave, DayProofs!WindowNext, DayProofs!Next, DayProofs!Count,
     DayProofs!Spend, DayProofs!Leave
<1>4. DayProofs!WindowSpec => []DayProofs!OvershootBounded
  BY <1>1, DayProofs!WindowsBoundOvershoot
<1> QED
  BY <1>2, <1>3, <1>4, PTL DEF DayCap!WindowSpec, DayProofs!WindowSpec

LEMMA DomainCapOvershoot == DomainCap!WindowSpec => []DomainProofs!OvershootBounded
<1>1. DomainProofs!CapAssumption
  BY ReviewSendAssumption, SameCardinalityInProofs DEF DomainProofs!CapAssumption
<1>2. DomainCap!Init => DomainProofs!Init
  BY DEF DomainCap!Init, DomainProofs!Init
<1>3. [DomainCap!WindowNext]_<<DomainMembers, DomainGrants>> => [DomainProofs!WindowNext]_<<DomainMembers, DomainGrants>>
  BY SameCardinality, SameCardinalityInProofs DEF DomainCap!WindowNext, DomainCap!Next, DomainCap!Count,
     DomainCap!Spend, DomainCap!Leave, DomainProofs!WindowNext, DomainProofs!Next, DomainProofs!Count,
     DomainProofs!Spend, DomainProofs!Leave
<1>4. DomainProofs!WindowSpec => []DomainProofs!OvershootBounded
  BY <1>1, DomainProofs!WindowsBoundOvershoot
<1> QED
  BY <1>2, <1>3, <1>4, PTL DEF DomainCap!WindowSpec, DomainProofs!WindowSpec

(***************************************************************************)
(* Racing workers never exceed a send cap by a whole send per worker: the  *)
(* bound holds for any number of workers, any caps and any recipients.     *)
(***************************************************************************)
THEOREM OvershootIsBounded == Spec => []CapsOvershootBounded
<1>1. ASSUME Inv1, FiniteSends, HourProofs!OvershootBounded, DayProofs!OvershootBounded,
             DomainProofs!OvershootBounded
      PROVE  CapsOvershootBounded
  <2>1. Cardinality(Workers) \in Nat
    BY FS_CardinalityType, ReviewSendAssumption
  <2>2. /\ Cardinality(hour) \in Nat /\ Cardinality(day) \in Nat
        /\ \A dom : Cardinality(InDomain(dom)) \in Nat
    BY <1>1, WindowsAreFinite, FS_CardinalityType DEF Inv1, FiniteSends
  <2>3. Cardinality(hour) <= MaxSendsPerHour + 1 * (Cardinality(Workers) - 1)
    BY <1>1, SameCardinalityInProofs DEF HourProofs!OvershootBounded, HourMembers
  <2>4. Cardinality(day) <= MaxSendsPerDay + 1 * (Cardinality(Workers) - 1)
    BY <1>1, SameCardinalityInProofs DEF DayProofs!OvershootBounded, DayMembers
  <2>5. \A dom \in RecipientDomains :
          Cardinality(InDomain(dom)) <= MaxSendsPerTargetDomain + 1 * (Cardinality(Workers) - 1)
    BY <1>1, SameCardinalityInProofs DEF DomainProofs!OvershootBounded, DomainMembers
  <2> QED
    BY <2>1, <2>2, <2>3, <2>4, <2>5, ReviewSendAssumption DEF CapsOvershootBounded
<1>2. Spec => []FiniteSends
  BY InitSends, AttemptsStayFinite, Inv1Always, PTL DEF Spec
<1> QED
  BY <1>1, <1>2, Inv1Always, HourCapOvershoot, DayCapOvershoot, DomainCapOvershoot,
     ReviewSendImplementsCountedCaps, PTL DEF ImplementsSendCaps

-----------------------------------------------------------------------------
Inv2 == OneRequestPerKey /\ QueuedRequestsExist /\ DecisionsFollowRequests

\* Steps that touch no table of requests or decisions, take nothing but the head of
\* the queue, and at most free a worker.
LEMMA BystandersKeepInv2 ==
  ASSUME Inv1, Inv2, UNCHANGED <<requests, decisions>>,
         UNCHANGED queue \/ (queue # <<>> /\ queue' = Tail(queue)),
         \A w \in Workers : pc'[w] \in RequestLabels => pc[w] = pc'[w] /\ job'[w] = job[w]
  PROVE  Inv2'
<1>1. QueuedRequestsExist'
  <2>1. CASE UNCHANGED queue
    BY <2>1 DEF Inv2, QueuedRequestsExist
  <2>2. CASE queue # <<>> /\ queue' = Tail(queue)
    BY <2>2 DEF Inv1, TypeOK, Inv2, QueuedRequestsExist
  <2> QED
    BY <2>1, <2>2
<1> QED
  BY <1>1 DEF Inv2, OneRequestPerKey, DecisionsFollowRequests, RequestLabels, HasDecision

LEMMA EnvironmentInv2 ==
  ASSUME Inv1, Inv2, Environment
  PROVE  Inv2'
<1>1. ASSUME UNCHANGED <<pc, job, decisions>>, requests \subseteq requests'
      PROVE  DecisionsFollowRequests'
  BY <1>1 DEF Inv2, DecisionsFollowRequests, HasDecision
<1>2. ASSUME NEW d \in Drafts, NEW r \in Reviewers, NEW choice \in Choices,
             SubmitDecision(d, r, choice)
      PROVE  Inv2'
  <2> DEFINE rq == [stage |-> "approval_request", origin |-> "submit", draft |-> d,
                    reviewer |-> r, status |-> choice.status, role |-> choice.role,
                    override |-> choice.override, pack |-> "safe_v0_1",
                    budget |-> InitialBudget]
             same == {q \in requests : RequestKey(q) = RequestKey(rq)}
  <2>1. requests' = IF same = {} THEN requests \cup {rq} ELSE requests
    BY <1>2 DEF SubmitDecision
  <2>2. UNCHANGED queue \/ \E q \in requests' : q \in Row /\ queue' = Append(queue, q)
    <3>1. \A q \in requests' : q \in Row
      <4>1. rq \in Request
        BY ReviewSendAssumption DEF Request
      <4> QED
        BY <2>1, <4>1 DEF Inv1, TypeOK, Row
    <3> QED
      BY <1>2, <2>1, <3>1 DEF SubmitDecision
  <2>3. OneRequestPerKey'
    BY <2>1 DEF Inv2, OneRequestPerKey
  <2>4. QueuedRequestsExist'
    BY <2>1, <2>2 DEF Inv1, TypeOK, Inv2, QueuedRequestsExist
  <2>5. DecisionsFollowRequests'
    BY <1>1, <1>2, <2>1 DEF SubmitDecision
  <2> QED
    BY <2>3, <2>4, <2>5 DEF Inv2
<1>3. ASSUME NEW rq \in PostedRequests, PostRequest(rq)
      PROVE  Inv2'
  BY <1>1, <1>3 DEF PostRequest, Inv2, OneRequestPerKey, QueuedRequestsExist
<1>4. ASSUME NEW row \in requests \cup dispatches, Deliver(row)
      PROVE  Inv2'
  <2>1. row \in Row /\ (row.stage = "approval_request" => row \in requests)
    BY <1>4 DEF Inv1, TypeOK, Row, Dispatch, ParkedStages
  <2>2. QueuedRequestsExist'
    BY <1>4, <2>1 DEF Deliver, Inv1, TypeOK, Inv2, QueuedRequestsExist
  <2> QED
    BY <1>1, <1>4, <2>2 DEF Deliver, Inv2, OneRequestPerKey
<1>5. CASE UNCHANGED <<requests, decisions, queue, pc, job>>
  BY <1>5, BystandersKeepInv2
<1> QED
  BY <1>2, <1>3, <1>4, <1>5 DEF Environment, PostDispatch, Suppress, HourPasses, DayPasses

LEMMA NextInv2 == Inv1 /\ Inv2 /\ [Next]_vars => Inv2'
<1> SUFFICES ASSUME Inv1, Inv2, [Next]_vars
             PROVE  Inv2'
  OBVIOUS
<1>1. ASSUME NEW w \in Workers, BeginRequest(w)
      PROVE  Inv2'
  <2>1. /\ Head(queue) \in requests /\ queue # <<>> /\ queue' = Tail(queue)
        /\ UNCHANGED <<requests, decisions>>
        /\ job' = [job EXCEPT ![w] = Head(queue)]
        /\ pc' = [pc EXCEPT ![w] = "request_begun"]
    BY <1>1 DEF BeginRequest, Take, Advance, Inv1, TypeOK, Inv2, QueuedRequestsExist
  <2>2. QueuedRequestsExist'
    BY <2>1 DEF Inv1, TypeOK, Inv2, QueuedRequestsExist
  <2>3. DecisionsFollowRequests'
    BY <2>1 DEF Inv1, TypeOK, Inv2, DecisionsFollowRequests, HasDecision
  <2> QED
    BY <2>1, <2>2, <2>3 DEF Inv2, OneRequestPerKey
<1>2. ASSUME NEW w \in Workers, RecordDecision(w)
      PROVE  Inv2'
  <2>1. /\ UNCHANGED <<requests, queue, job>>
        /\ pc' = [pc EXCEPT ![w] = "decision_recorded"] /\ pc[w] = "request_begun"
        /\ job[w] \in requests
        /\ decisions \subseteq decisions'
        /\ decisions' \subseteq decisions \cup {DecisionOf(job[w])}
    BY <1>2 DEF RecordDecision, Advance, Inv2, DecisionsFollowRequests, RequestLabels
  <2>2. HasDecision(RequestKey(job[w]))'
    <3>1. HasDecision(DecisionKey(job[w]))'
      BY <1>2, <2>1 DEF RecordDecision, HasDecision, DecisionOf
    <3> QED
      BY <2>1, <3>1 DEF DecisionKey, HasDecision, RequestKey
  <2>3. DecisionsFollowRequests'
    BY <2>1, <2>2 DEF Inv1, TypeOK, Inv2, DecisionsFollowRequests, RequestLabels, HasDecision,
       DecisionOf
  <2> QED
    BY <2>1, <2>3 DEF Inv2, OneRequestPerKey, QueuedRequestsExist
<1>3. ASSUME NEW w \in Workers, EnqueueNextStage(w)
      PROVE  Inv2'
  BY <1>3 DEF EnqueueNextStage, Advance, Inv1, TypeOK, Inv2, OneRequestPerKey,
     QueuedRequestsExist, DecisionsFollowRequests, RequestLabels, HasDecision
<1>4. ASSUME NEW w \in Workers, ParkForReviewer(w) \/ RefuseRequest(w) \/ FinishRequest(w)
      PROVE  Inv2'
  BY <1>4, BystandersKeepInv2 DEF ParkForReviewer, RefuseRequest, FinishRequest, tables, Close,
     Release, Inv1, TypeOK, RequestLabels
<1>5. ASSUME NEW w \in Workers, DispatchStep(w)
      PROVE  Inv2'
  BY <1>5, BystandersKeepInv2 DEF DispatchStep, BeginDispatch, Take, FailDispatch, ParkAtGate,
     ClearGates, ClearRecipient, PassPolicy, ParkByPolicy, LookUpAttempt, WriteAttemptAndSink,
     FinishDispatch, tables, Close, Release, Advance, Inv1, TypeOK, RequestLabels
<1>6. ASSUME NEW w \in Workers, DropParked(w) \/ Abort(w)
      PROVE  Inv2'
  BY <1>6, BystandersKeepInv2 DEF DropParked, Abort, Release, Inv1, TypeOK, RequestLabels
<1>7. CASE UNCHANGED vars
  BY <1>7, BystandersKeepInv2 DEF vars
<1> QED
  BY <1>1, <1>2, <1>3, <1>4, <1>5, <1>6, <1>7, EnvironmentInv2
  DEF Next, WorkerStep, RequestStep

LEMMA InitInv2 == Init => Inv2
BY DEF Init, Inv2, OneRequestPerKey, QueuedRequestsExist, DecisionsFollowRequests, RequestLabels

LEMMA Inv2Always == Spec => []Inv2
BY InitInv2, NextInv2, Inv1Always, PTL DEF Spec

(***************************************************************************)
(* The first decision a reviewer submits for a draft is the only one, for  *)
(* any number of reviewers, resubmissions, redeliveries and aborts.        *)
(***************************************************************************)
THEOREM OneDecisionPerReviewer == Spec => []ReviewerDecidesOnce
<1>1. Inv2 => ReviewerDecidesOnce
  BY DEF Inv2, OneRequestPerKey, DecisionsFollowRequests, ReviewerDecidesOnce, DecisionOf,
     DecisionKey, RequestKey
<1> QED
  BY <1>1, Inv2Always, PTL

(***************************************************************************)
(* Work items enqueued by approval handlers carry the decision on record.  *)
(***************************************************************************)
THEOREM RoutingIsFaithful == Spec => []RoutingFollowsRecord
<1>1. Init => RoutingFollowsRecord
  BY DEF Init, RoutingFollowsRecord
<1>2. Inv1 /\ Inv2 /\ RoutingFollowsRecord /\ [Next]_vars => RoutingFollowsRecord'
  <2> SUFFICES ASSUME Inv1, Inv2, RoutingFollowsRecord, [Next]_vars
               PROVE  RoutingFollowsRecord'
    OBVIOUS
  <2>1. ASSUME decisions \subseteq decisions',
               \A di \in dispatches' \ dispatches : di.origin = "approval_request" =>
                 \E dec \in decisions : /\ dec.key = di.decision /\ dec.draft = di.draft
                                        /\ di.stage = Routing[dec.status]
        PROVE  RoutingFollowsRecord'
    BY <2>1 DEF RoutingFollowsRecord
  <2>2. decisions \subseteq decisions'
    BY WhoWrites DEF RecordDecision
  <2>3. CASE dispatches' = dispatches
    BY <2>1, <2>2, <2>3
  <2>4. ASSUME NEW di \in PostedDispatches, PostDispatch(di)
        PROVE  RoutingFollowsRecord'
    BY <2>1, <2>2, <2>4, ReviewSendAssumption DEF PostDispatch
  <2>5. ASSUME NEW w \in Workers, EnqueueNextStage(w)
        PROVE  RoutingFollowsRecord'
    <3>1. job[w] \in requests /\ HasDecision(RequestKey(job[w]))
      BY <2>5 DEF EnqueueNextStage, Advance, Inv2, DecisionsFollowRequests, RequestLabels
    <3>2. PICK dec \in decisions : dec.key = RequestKey(job[w])
      BY <3>1 DEF HasDecision
    <3>3. dec = DecisionOf(job[w])
      BY <3>1, <3>2 DEF Inv2, OneRequestPerKey, DecisionsFollowRequests, DecisionOf, DecisionKey
    <3>4. dispatches' \subseteq dispatches \cup {NextStageOf(job[w])}
      BY <2>5 DEF EnqueueNextStage
    <3> QED
      BY <2>1, <2>2, <3>3, <3>4 DEF NextStageOf, DecisionOf
  <2>6. CASE Environment
    BY <2>3, <2>4, <2>6 DEF Environment, SubmitDecision, PostRequest, Deliver, Suppress,
       HourPasses, DayPasses
  <2>7. ASSUME NEW w \in Workers, WorkerStep(w) \/ Abort(w), ~EnqueueNextStage(w)
        PROVE  dispatches' = dispatches
    BY <2>7 DEF WorkerStep, RequestStep, DispatchStep, BeginRequest, BeginDispatch, Take,
       ParkForReviewer, RefuseRequest, RecordDecision, FinishRequest, FailDispatch, ParkAtGate,
       ClearGates, ClearRecipient, PassPolicy, ParkByPolicy, LookUpAttempt,
       WriteAttemptAndSink, FinishDispatch, DropParked, Abort, tables
  <2>8. CASE UNCHANGED vars
    BY <2>3, <2>8 DEF vars
  <2> QED
    BY <2>3, <2>5, <2>6, <2>7, <2>8 DEF Next
<1> QED
  BY <1>1, <1>2, Inv1Always, Inv2Always, PTL DEF Spec

(***************************************************************************)
(* A suppressed recipient of an unsent draft stays out of reach of every   *)
(* step of every worker.                                                   *)
(***************************************************************************)
THEOREM QuarantineHolds == Spec => QuarantineIsPermanent
<1>1. Inv1 /\ [Next]_vars => \A d \in Drafts : Quarantined(d) => Quarantined(d)'
  <2> SUFFICES ASSUME Inv1, [Next]_vars, NEW d \in Drafts, Quarantined(d)
               PROVE  Quarantined(d)'
    OBVIOUS
  <2> DEFINE Past == {"recipient_clear", "policy_clear", "looked_up"}
  <2>1. ASSUME d \in suppressed', attempts' = attempts,
               \A w \in Workers : pc'[w] \in Past => pc[w] \in Past /\ job'[w] = job[w]
        PROVE  Quarantined(d)'
    BY <2>1 DEF Quarantined, HasAttempt
  <2>2. CASE Environment \/ UNCHANGED vars
    BY <2>1, <2>2 DEF Quarantined, Environment, SubmitDecision, PostRequest, PostDispatch,
       Deliver, Suppress, HourPasses, DayPasses, vars
  <2>3. ASSUME NEW w \in Workers, RequestStep(w) \/ DropParked(w) \/ Abort(w)
        PROVE  Quarantined(d)'
    BY <2>1, <2>3 DEF Quarantined, Inv1, TypeOK, RequestStep, BeginRequest, Take, Advance,
       ParkForReviewer, RefuseRequest, RecordDecision, EnqueueNextStage, FinishRequest, tables,
       Close, Release, DropParked, Abort
  <2>4. ASSUME NEW w \in Workers, DispatchStep(w), ~ClearRecipient(w), ~WriteAttemptAndSink(w)
        PROVE  Quarantined(d)'
    BY <2>1, <2>4 DEF Quarantined, Inv1, TypeOK, DispatchStep, BeginDispatch, Take, Advance,
       FailDispatch, ParkAtGate, ClearGates, PassPolicy, ParkByPolicy, LookUpAttempt,
       FinishDispatch, tables, Close, Release
  <2>5. ASSUME NEW w \in Workers, ClearRecipient(w)
        PROVE  Quarantined(d)'
    <3>1. job[w].draft # d
      BY <2>5 DEF ClearRecipient, RecipientAllowed, Advance, Quarantined, Inv1, JobsFitPlace,
         UnsentLabels
    <3> QED
      BY <2>5, <3>1 DEF ClearRecipient, Advance, Quarantined, HasAttempt, Inv1, TypeOK
  <2>6. ASSUME NEW w \in Workers, WriteAttemptAndSink(w)
        PROVE  Quarantined(d)'
    <3>1. job[w].draft # d
      BY <2>6 DEF WriteAttemptAndSink, Advance, Quarantined
    <3>2. ~HasAttempt(d)'
      BY <2>6, <3>1 DEF WriteAttemptAndSink, Quarantined, HasAttempt
    <3> QED
      BY <2>6, <3>2 DEF WriteAttemptAndSink, Advance, Quarantined, Inv1, TypeOK
  <2> QED
    BY <2>2, <2>3, <2>4, <2>5, <2>6 DEF Next, WorkerStep
<1> QED
  BY <1>1, Inv1Always, PTL DEF Spec, QuarantineIsPermanent

-----------------------------------------------------------------------------
\* No step takes an attempt or a sink record back; who completes a dispatch, and which job
\* comes to be past its sink record.
LEMMA HowLogsGrow ==
  ASSUME Inv1, [Next]_vars
  PROVE  /\ attempts \subseteq attempts' /\ sinks \subseteq sinks'
         /\ \A di \in Dispatch : <<di, "work_item_completed">> \in events' =>
              \/ <<di, "work_item_completed">> \in events
              \/ \E w \in Workers : pc[w] = "sink_logged" /\ job[w] = di
         /\ \A w \in Workers : pc'[w] = "sink_logged" =>
              \/ pc[w] = "sink_logged" /\ job'[w] = job[w]
              \/ WriteAttemptAndSink(w)
<1> DEFINE Grown == /\ attempts \subseteq attempts' /\ sinks \subseteq sinks'
                    /\ \A di \in Dispatch : <<di, "work_item_completed">> \in events' =>
                         \/ <<di, "work_item_completed">> \in events
                         \/ \E w \in Workers : pc[w] = "sink_logged" /\ job[w] = di
                    /\ \A w \in Workers : pc'[w] = "sink_logged" =>
                         \/ pc[w] = "sink_logged" /\ job'[w] = job[w]
                         \/ WriteAttemptAndSink(w)
<1>1. CASE Environment
  BY <1>1 DEF Environment, SubmitDecision, PostRequest, PostDispatch, Deliver, Suppress,
     HourPasses, DayPasses
<1>2. CASE UNCHANGED vars
  BY <1>2 DEF vars
<1>3. ASSUME NEW w \in Workers, UNCHANGED <<attempts, sinks>>,
             pc' = [pc EXCEPT ![w] = pc'[w]], pc'[w] # "sink_logged",
             job' = [job EXCEPT ![w] = job'[w]],
             \A di \in Dispatch : <<di, "work_item_completed">> \in events' =>
               \/ <<di, "work_item_completed">> \in events
               \/ pc[w] = "sink_logged" /\ job[w] = di
      PROVE  Grown
  BY <1>3 DEF Inv1, TypeOK
<1>4. ASSUME NEW w \in Workers, WorkerStep(w) \/ Abort(w)
      PROVE  Grown
  <2>1. CASE BeginRequest(w) \/ BeginDispatch(w)
    BY <1>3, <2>1 DEF BeginRequest, BeginDispatch, Take, Advance, Inv1, TypeOK
  <2>2. CASE RecordDecision(w) \/ EnqueueNextStage(w) \/ ClearGates(w) \/ ClearRecipient(w)
             \/ PassPolicy(w) \/ LookUpAttempt(w)
    BY <1>3, <2>2 DEF RecordDecision, EnqueueNextStage, ClearGates, ClearRecipient, PassPolicy,
       LookUpAttempt, Advance, Inv1, TypeOK
  <2>3. CASE ParkForReviewer(w) \/ RefuseRequest(w) \/ FailDispatch(w) \/ ParkAtGate(w)
             \/ ParkByPolicy(w)
    BY <1>3, <2>3 DEF ParkForReviewer, RefuseRequest, FailDispatch, ParkAtGate, ParkByPolicy,
       Close, Release, tables, Inv1, TypeOK
  <2>4. CASE FinishRequest(w)
    <3>1. job[w] \notin Dispatch
      BY <2>4 DEF FinishRequest, Inv1, JobsFitPlace, RequestLabels, Request, Dispatch, ParkedStages
    <3> QED
      BY <1>3, <2>4, <3>1 DEF FinishRequest, Release, tables, Inv1, TypeOK
  <2>5. CASE FinishDispatch(w)
    BY <1>3, <2>5 DEF FinishDispatch, Close, Release, tables, Inv1, TypeOK
  <2>6. CASE WriteAttemptAndSink(w)
    BY <2>6 DEF WriteAttemptAndSink, Advance, Inv1, TypeOK
  <2>7. CASE DropParked(w)
    BY <2>7 DEF DropParked
  <2>8. CASE Abort(w)
    BY <1>3, <2>8 DEF Abort, Release, Inv1, TypeOK
  <2> QED
    BY <1>4, <2>1, <2>2, <2>3, <2>4, <2>5, <2>6, <2>7, <2>8 DEF WorkerStep, RequestStep, DispatchStep
<1> QED
  BY <1>1, <1>2, <1>4 DEF Next

LEMMA NextLogs == Inv1 /\ LogsPrecedeCompletion /\ [Next]_vars => LogsPrecedeCompletion'
<1> SUFFICES ASSUME Inv1, LogsPrecedeCompletion, [Next]_vars
             PROVE  LogsPrecedeCompletion'
  OBVIOUS
<1>1. ASSUME NEW w \in Workers, pc'[w] = "sink_logged"
      PROVE  (\E a \in attempts' : a.draft = job'[w].draft) /\ \E s \in sinks' : s.row = job'[w]
  <2>1. CASE pc[w] = "sink_logged" /\ job'[w] = job[w]
    <3>1. Logged(job[w])
      BY <2>1 DEF LogsPrecedeCompletion
    <3> QED
      BY <2>1, <3>1, HowLogsGrow DEF Logged, HasAttempt
  <2>2. CASE WriteAttemptAndSink(w)
    <3>1. /\ attempts' = attempts \cup (IF HasAttempt(job[w].draft) THEN {}
              ELSE {[draft |-> job[w].draft, decision |-> job[w].decision]})
          /\ sinks' = sinks \cup {[row |-> job[w], reused |-> found[w]]}
          /\ job' = job
      BY <2>2 DEF WriteAttemptAndSink
    <3>2. \E a \in attempts' : a.draft = job[w].draft
      <4>1. CASE HasAttempt(job[w].draft)
        BY <4>1, HowLogsGrow DEF HasAttempt
      <4>2. CASE ~HasAttempt(job[w].draft)
        <5>1. PICK a : a = [draft |-> job[w].draft, decision |-> job[w].decision]
          OBVIOUS
        <5>2. a \in attempts' /\ a.draft = job[w].draft
          BY <3>1, <4>2, <5>1
        <5> QED
          BY <5>2
      <4> QED
        BY <4>1, <4>2
    <3>3. \E s \in sinks' : s.row = job[w]
      <4>1. PICK s : s = [row |-> job[w], reused |-> found[w]]
        OBVIOUS
      <4>2. s \in sinks' /\ s.row = job[w]
        BY <3>1, <4>1
      <4> QED
        BY <4>2
    <3>4. job'[w] = job[w]
      BY <3>1
    <3> QED
      BY <3>2, <3>3, <3>4
  <2> QED
    BY <1>1, <2>1, <2>2, HowLogsGrow
<1>2. ASSUME NEW di \in Dispatch, <<di, "work_item_completed">> \in events'
      PROVE  (\E a \in attempts' : a.draft = di.draft) /\ \E s \in sinks' : s.row = di
  <2>1. Logged(di)
    BY <1>2, HowLogsGrow DEF LogsPrecedeCompletion
  <2> QED
    BY <2>1, HowLogsGrow DEF Logged, HasAttempt
<1> QED
  BY <1>1, <1>2 DEF LogsPrecedeCompletion, Logged, HasAttempt

(***************************************************************************)
(* A completed dispatch has its attempt and a sink record of its own, for  *)
(* any rows that are posted, repeated or aborted.                          *)
(***************************************************************************)
THEOREM CompletionIsLogged == Spec => []CompletedMeansLogged
<1>1. Init => LogsPrecedeCompletion
  BY DEF Init, LogsPrecedeCompletion
<1>2. Inv1 /\ LogsPrecedeCompletion => CompletedMeansLogged
  BY DEF Inv1, TypeOK, LogsPrecedeCompletion, Logged, CompletedMeansLogged
<1> QED
  BY <1>1, <1>2, Inv1Always, NextLogs, PTL DEF Spec
=============================================================================
