----------------------------- MODULE ReviewSend -----------------------------
(***************************************************************************)
(* The guarded end of the AOSE pipeline: a reviewer submits a decision     *)
(* through the API, an approval_request job records it and enqueues the    *)
(* next stage, and a sending_dispatch job checks approval and policy and   *)
(* writes the SendAttempt with its sandbox sink record.                    *)
(*                                                                         *)
(* Several RQ workers run jobs at once.  A handler is a sequence of        *)
(* transactions, and inside a transaction every statement reads what is    *)
(* committed at that moment (READ COMMITTED), so one action is one commit  *)
(* or one read whose answer is used later.  A job that raises or whose     *)
(* process dies stops between two actions and loses its open transaction.  *)
(***************************************************************************)
EXTENDS Naturals, Sequences, FiniteSets

CONSTANTS
  Drafts,            \* ids of rows of outreach_drafts
  NoDraft,           \* a missing draft_id, one with no row, or an unknown payload version
  Reviewers,         \* reviewer_id values
  Workers,           \* RQ worker processes
  RecipientDomains,  \* e-mail domains of the drafts' contacts
  RecipientDomain,   \* draft -> domain of its contact's first e-mail channel
  Standing,          \* draft -> what its contact, account, anchors and text say to the gates
  MaxSendsPerHour, MaxSendsPerDay, MaxSendsPerTargetDomain,
  SendEnabled,       \* SEND_ENABLED in the workers' environment
  InitialBudget,     \* attempt_budget_remaining of a submitted decision
  Choices,           \* what reviewers submit: a status, a role, gates overridden or not
  Suppressible,      \* drafts whose recipient may enter a suppression table
  PostedRequests,    \* approval_request rows a client may POST to /work-items
  PostedDispatches,  \* sending_dispatch rows a client may POST to /work-items
  PushMayFail,       \* Redis may refuse the push of a job
  MaxQueue,          \* bound: jobs waiting at once
  MaxAborts          \* bound: jobs that raise or die

DecisionStatuses == {"approved", "rejected", "needs_rewrite", "needs_more_evidence"}
ReviewerRoles == {"viewer", "operator", "admin"}
ReviewerRolesAllowed == {"operator", "admin"}

\* Decision status -> stage of the work item that the decision enqueues.
Routing == [approved            |-> "sending_dispatch",
            rejected            |-> "parked:rejected",
            needs_rewrite       |-> "parked:needs_rewrite",
            needs_more_evidence |-> "parked:needs_more_evidence"]

ParkedStages == {"parked:rejected", "parked:needs_rewrite", "parked:needs_more_evidence"}

\* Rows of work_items.  A request with status "none" awaits a reviewer.
Request == [stage : {"approval_request"}, origin : {"submit", "post"},
            draft : Drafts \cup {NoDraft}, reviewer : Reviewers,
            status : DecisionStatuses \cup {"none", "unknown"},
            role : ReviewerRoles, override : BOOLEAN,
            pack : {"safe_v0_1", "other"}, budget : Nat]

RequestKeys == {"submit", "post"} \X (Drafts \cup {NoDraft}) \X Reviewers

Dispatch == [stage : {"sending_dispatch"} \cup ParkedStages,
             origin : {"approval_request", "post"},
             draft : Drafts \cup {NoDraft}, budget : Nat, decision : RequestKeys]

Row == Request \cup Dispatch

\* Rows of approval_decisions and send_attempts.
Decision == [draft : Drafts, reviewer : Reviewers, status : DecisionStatuses,
             role : ReviewerRoles, override : BOOLEAN, pack : {"safe_v0_1", "other"},
             key : RequestKeys]

Attempt == [draft : Drafts, decision : RequestKeys]

EventType == {"approval_recorded", "work_item_completed", "work_item_parked",
              "work_item_failed_contract"}

ASSUME ReviewSendAssumption ==
  /\ IsFiniteSet(Drafts) /\ NoDraft \notin Drafts
  /\ IsFiniteSet(Workers) /\ Workers # {}
  /\ RecipientDomain \in [Drafts -> RecipientDomains]
  /\ Standing \in [Drafts -> {"unlinked", "stop", "review", "pass"}]
  /\ MaxSendsPerHour \in Nat /\ MaxSendsPerDay \in Nat /\ MaxSendsPerTargetDomain \in Nat
  /\ SendEnabled \in BOOLEAN /\ PushMayFail \in BOOLEAN
  /\ InitialBudget \in Nat /\ MaxQueue \in Nat /\ MaxAborts \in Nat
  /\ Choices \subseteq [status : DecisionStatuses, role : ReviewerRoles, override : BOOLEAN]
  /\ Suppressible \subseteq Drafts
  /\ PostedRequests \subseteq {rq \in Request : rq.origin = "post"}
  /\ PostedDispatches \subseteq {di \in Dispatch : di.origin = "post"}

VARIABLES
  requests,    \* approval_request rows of work_items
  dispatches,  \* rows of work_items that an approval handler or a client enqueued
  decisions,   \* rows of approval_decisions
  attempts,    \* rows of send_attempts
  hour, day,   \* the attempts created within the last hour, the last 24 hours
  sinks,       \* sandbox sink records: the dispatch row and the reused flag
  events,      \* other structured events, as pairs of row and event type
  suppressed,  \* drafts whose recipient is in a suppression table
  queue,       \* the RQ queue: work item rows, each with the stage it was pushed with
  pc, job,     \* per worker: where its job is, and the row it loaded
  found,       \* per worker: its last lookup of the send key returned a row
  aborts       \* how many jobs raised or died

tables == <<requests, dispatches, decisions, attempts>>
vars == <<requests, dispatches, decisions, attempts, hour, day, sinks, events,
          suppressed, queue, pc, job, found, aborts>>

NoJob == [stage |-> "none"]

PcLabels == {"idle", "request_begun", "decision_recorded", "next_enqueued",
             "dispatch_begun", "gates_clear", "recipient_clear", "policy_clear",
             "looked_up", "sink_logged"}

(***************************************************************************)
(* Keys.  A work item is identified by its idempotency_key, a decision by  *)
(* a digest of the work item it came from.                                 *)
(***************************************************************************)
\* Mutant: the API's idempotency key names the status instead of the reviewer.
RequestKey_PerStatus(rq) == <<rq.origin, rq.draft, rq.status>>

RequestKey(rq) == <<rq.origin, rq.draft, rq.reviewer>>

\* Mutant: the digest leaves the work item out.
DecisionKey_PerDraft(rq) == <<rq.origin, rq.draft, CHOOSE r \in Reviewers : TRUE>>

DecisionKey(rq) == RequestKey(rq)

DispatchKey(di) == <<di.origin, di.draft, di.decision>>

HasDecision(key) == \E dec \in decisions : dec.key = key

HasDispatch(key) == \E di \in dispatches : DispatchKey(di) = key

\* get_existing_send_attempt: the send key names the draft and its only channel.
HasAttempt(d) == \E a \in attempts : a.draft = d

InDomain(dom) == {a \in day : RecipientDomain[a.draft] = dom}

Release(w) ==
  /\ pc' = [pc EXCEPT ![w] = "idle"]
  /\ job' = [job EXCEPT ![w] = NoJob]
  /\ found' = [found EXCEPT ![w] = FALSE]

Advance(w, from, to) ==
  /\ pc[w] = from
  /\ pc' = [pc EXCEPT ![w] = to]

\* The last event of a job, in its last transaction.
Close(w, type) ==
  /\ events' = events \cup {<<job[w], type>>}
  /\ Release(w)

-----------------------------------------------------------------------------
(***************************************************************************)
(* The API process and the outside world.                                  *)
(***************************************************************************)

\* submit_decision inserts once per draft and reviewer, then pushes the row
\* that holds the key, which may be an earlier one with another status.
SubmitDecision(d, r, choice) ==
  LET rq == [stage |-> "approval_request", origin |-> "submit", draft |-> d,
             reviewer |-> r, status |-> choice.status, role |-> choice.role,
             override |-> choice.override, pack |-> "safe_v0_1", budget |-> InitialBudget]
      same == {q \in requests : RequestKey(q) = RequestKey(rq)}
  IN /\ choice.role \in ReviewerRolesAllowed
     /\ requests' = IF same = {} THEN requests \cup {rq} ELSE requests
     /\ \/ /\ Len(queue) < MaxQueue
           /\ \E q \in IF same = {} THEN {rq} ELSE same : queue' = Append(queue, q)
        \/ /\ PushMayFail
           /\ UNCHANGED queue
     /\ UNCHANGED <<dispatches, decisions, attempts, hour, day, sinks, events,
                    suppressed, pc, job, found, aborts>>

\* POST /work-items: a plain insert, refused when the key is taken.
PostRequest(rq) ==
  /\ \A q \in requests : RequestKey(q) # RequestKey(rq)
  /\ requests' = requests \cup {rq}
  /\ UNCHANGED <<dispatches, decisions, attempts, hour, day, sinks, events,
                 suppressed, queue, pc, job, found, aborts>>

PostDispatch(di) ==
  /\ ~HasDispatch(DispatchKey(di))
  /\ dispatches' = dispatches \cup {di}
  /\ UNCHANGED <<requests, decisions, attempts, hour, day, sinks, events,
                 suppressed, queue, pc, job, found, aborts>>

\* External: whoever feeds RQ with rows of work_items (nothing under src/ does
\* for rows other than submitted decisions), and whoever requeues a job.
Deliver(row) ==
  /\ Len(queue) < MaxQueue
  /\ queue' = Append(queue, row)
  /\ UNCHANGED <<requests, dispatches, decisions, attempts, hour, day, sinks, events,
                 suppressed, pc, job, found, aborts>>

\* External: the recipient of a draft enters a suppression table.
Suppress(d) ==
  /\ suppressed' = suppressed \cup {d}
  /\ UNCHANGED <<requests, dispatches, decisions, attempts, hour, day, sinks, events,
                 queue, pc, job, found, aborts>>

\* The clock: a row leaves the last hour, then the last 24 hours.
HourPasses(a) ==
  /\ hour' = hour \ {a}
  /\ UNCHANGED <<requests, dispatches, decisions, attempts, day, sinks, events,
                 suppressed, queue, pc, job, found, aborts>>

DayPasses(a) ==
  /\ a \notin hour
  /\ day' = day \ {a}
  /\ UNCHANGED <<requests, dispatches, decisions, attempts, hour, sinks, events,
                 suppressed, queue, pc, job, found, aborts>>

-----------------------------------------------------------------------------
(***************************************************************************)
(* run_worker.process_work_item: take a job and route it by its stage.     *)
(***************************************************************************)

Take(w, stage, to) ==
  /\ queue # <<>>
  /\ Head(queue).stage = stage
  /\ queue' = Tail(queue)
  /\ job' = [job EXCEPT ![w] = Head(queue)]
  /\ Advance(w, "idle", to)
  /\ UNCHANGED <<requests, dispatches, decisions, attempts, hour, day, sinks, events,
                 suppressed, found, aborts>>

BeginRequest(w) == Take(w, "approval_request", "request_begun")

BeginDispatch(w) == Take(w, "sending_dispatch", "dispatch_begun")

\* A parked stage is terminal: the router runs no handler.
DropParked(w) ==
  /\ pc[w] = "idle"
  /\ queue # <<>>
  /\ Head(queue).stage \in ParkedStages
  /\ queue' = Tail(queue)
  /\ UNCHANGED <<requests, dispatches, decisions, attempts, hour, day, sinks, events,
                 suppressed, pc, job, found, aborts>>

\* The handler raises or its process dies.  RQ has no retry configured, so the
\* job goes to the failed registry and only Deliver brings it back.
Abort(w) ==
  /\ pc[w] # "idle"
  /\ aborts < MaxAborts
  /\ aborts' = aborts + 1
  /\ Release(w)
  /\ UNCHANGED <<requests, dispatches, decisions, attempts, hour, day, sinks, events,
                 suppressed, queue>>

-----------------------------------------------------------------------------
(***************************************************************************)
(* handle_approval_request.                                                *)
(***************************************************************************)

AwaitsReviewer(rq) == rq.draft # NoDraft /\ rq.status = "none"

\* Mutant: the draft is not looked up.
MayDecide_AnyDraft(rq) ==
  /\ rq.status \in DecisionStatuses
  /\ rq.role \in ReviewerRolesAllowed

MayDecide(rq) ==
  /\ rq.draft # NoDraft
  /\ rq.status \in DecisionStatuses
  /\ rq.role \in ReviewerRolesAllowed

ParkForReviewer(w) ==
  /\ pc[w] = "request_begun"
  /\ AwaitsReviewer(job[w])
  /\ Close(w, "work_item_parked")
  /\ UNCHANGED <<tables, hour, day, sinks, suppressed, queue, aborts>>

RefuseRequest(w) ==
  /\ pc[w] = "request_begun"
  /\ ~AwaitsReviewer(job[w])
  /\ ~MayDecide(job[w])
  /\ Close(w, "work_item_failed_contract")
  /\ UNCHANGED <<tables, hour, day, sinks, suppressed, queue, aborts>>

\* The rows that a request with a decision leads to.
DecisionOf(rq) ==
  [draft |-> rq.draft, reviewer |-> rq.reviewer, status |-> rq.status, role |-> rq.role,
   override |-> rq.override, pack |-> rq.pack, key |-> DecisionKey(rq)]

NextStageOf(rq) ==
  [stage |-> Routing[rq.status], origin |-> "approval_request", draft |-> rq.draft,
   budget |-> rq.budget, decision |-> DecisionKey(rq)]

\* Mutant: a recorded decision ends the job, as if the rest had been done.
RecordDecision_StopIfRecorded(w) ==
  /\ pc[w] = "request_begun"
  /\ MayDecide(job[w])
  /\ IF HasDecision(DecisionKey(job[w]))
       THEN Release(w) /\ UNCHANGED decisions
       ELSE /\ decisions' = decisions \cup {DecisionOf(job[w])}
            /\ pc' = [pc EXCEPT ![w] = "decision_recorded"]
            /\ UNCHANGED <<job, found>>
  /\ UNCHANGED <<requests, dispatches, attempts, hour, day, sinks, events,
                 suppressed, queue, aborts>>

\* persist_decision, ON CONFLICT (decision_key) DO NOTHING; commit.
RecordDecision(w) ==
  /\ Advance(w, "request_begun", "decision_recorded")
  /\ MayDecide(job[w])
  /\ decisions' = IF HasDecision(DecisionKey(job[w])) THEN decisions
                                                     ELSE decisions \cup {DecisionOf(job[w])}
  /\ UNCHANGED <<requests, dispatches, attempts, hour, day, sinks, events,
                 suppressed, queue, job, found, aborts>>

\* _enqueue_next_stage, ON CONFLICT (idempotency_key) DO NOTHING; commit.
EnqueueNextStage(w) ==
  LET di == NextStageOf(job[w])
  IN /\ Advance(w, "decision_recorded", "next_enqueued")
     /\ dispatches' = IF HasDispatch(DispatchKey(di)) THEN dispatches
                                                      ELSE dispatches \cup {di}
     /\ UNCHANGED <<requests, decisions, attempts, hour, day, sinks, events,
                    suppressed, queue, job, found, aborts>>

FinishRequest(w) ==
  /\ pc[w] = "next_enqueued"
  /\ events' = events \cup
       {<<job[w], "approval_recorded">>,
        <<job[w], IF job[w].status = "approved" THEN "work_item_completed"
                                                ELSE "work_item_parked">>}
  /\ Release(w)
  /\ UNCHANGED <<tables, hour, day, sinks, suppressed, queue, aborts>>

-----------------------------------------------------------------------------
(***************************************************************************)
(* handle_sending_dispatch.                                                *)
(***************************************************************************)

\* The decision that a dispatch row names is recorded for the same draft.
Resolves(di, dec) ==
  /\ di.draft # NoDraft
  /\ dec.key = di.decision
  /\ dec.draft = di.draft

\* Mutant: any recorded decision without overrides lets the draft through.
Grants_AnyStatus(dec) == ~dec.override /\ dec.pack = "safe_v0_1"

Grants(dec) ==
  /\ ~dec.override
  /\ dec.status = "approved"
  /\ dec.pack = "safe_v0_1"

Resolvable(di) == \E dec \in decisions : Resolves(di, dec)

Granted(di) == \E dec \in decisions : Resolves(di, dec) /\ Grants(dec)

\* BudgetGate, then SendGate; the other gates of _evaluate_gates always pass.
BaseGatesPass(di) == di.budget > 0 /\ SendEnabled

FailDispatch(w) ==
  /\ pc[w] = "dispatch_begun"
  /\ \/ ~Resolvable(job[w])
     \/ Granted(job[w]) /\ Standing[job[w].draft] = "unlinked"
  /\ Close(w, "work_item_failed_contract")
  /\ UNCHANGED <<tables, hour, day, sinks, suppressed, queue, aborts>>

ParkAtGate(w) ==
  /\ pc[w] = "dispatch_begun"
  /\ Resolvable(job[w])
  /\ \/ ~Granted(job[w])
     \/ Standing[job[w].draft] # "unlinked" /\ ~BaseGatesPass(job[w])
  /\ Close(w, "work_item_parked")
  /\ UNCHANGED <<tables, hour, day, sinks, suppressed, queue, aborts>>

\* All gates clear, and the existing attempt is looked up for the policy.
ClearGates(w) ==
  /\ Advance(w, "dispatch_begun", "gates_clear")
  /\ Granted(job[w])
  /\ Standing[job[w].draft] # "unlinked"
  /\ BaseGatesPass(job[w])
  /\ found' = [found EXCEPT ![w] = HasAttempt(job[w].draft)]
  /\ UNCHANGED <<requests, dispatches, decisions, attempts, hour, day, sinks, events,
                 suppressed, queue, job, aborts>>

\* Mutant: the comparison with the caps is off by one.
UnderCaps_OffByOne(d) ==
  /\ Cardinality(day) <= MaxSendsPerDay
  /\ Cardinality(hour) <= MaxSendsPerHour
  /\ Cardinality(InDomain(RecipientDomain[d])) <= MaxSendsPerTargetDomain

\* Mutant: the recipient's domain is not asked about.
UnderCaps_AnyDomain(d) ==
  /\ Cardinality(day) < MaxSendsPerDay
  /\ Cardinality(hour) < MaxSendsPerHour

UnderCaps(d) ==
  /\ Cardinality(day) < MaxSendsPerDay
  /\ Cardinality(hour) < MaxSendsPerHour
  /\ Cardinality(InDomain(RecipientDomain[d])) < MaxSendsPerTargetDomain

\* Mutant: the suppression tables are not consulted.
RecipientAllowed_Unconsulted(w) == found[w] \/ Standing[job[w].draft] # "stop"

\* evaluate_send_policy up to the suppression tables.  A replay passes unchecked.
RecipientAllowed(w) ==
  \/ found[w]
  \/ Standing[job[w].draft] # "stop" /\ job[w].draft \notin suppressed

ClearRecipient(w) ==
  /\ Advance(w, "gates_clear", "recipient_clear")
  /\ RecipientAllowed(w)
  /\ UNCHANGED <<requests, dispatches, decisions, attempts, hour, day, sinks, events,
                 suppressed, queue, job, found, aborts>>

\* Mutant: a replay is held to the caps as well, which its own attempt may have filled.
PolicyPasses_ReplaysCounted(w) == Standing[job[w].draft] = "pass" /\ UnderCaps(job[w].draft)

\* The rest of evaluate_send_policy: the caps, then what needs a review.
PolicyPasses(w) == found[w] \/ (Standing[job[w].draft] = "pass" /\ UnderCaps(job[w].draft))

PassPolicy(w) ==
  /\ Advance(w, "recipient_clear", "policy_clear")
  /\ PolicyPasses(w)
  /\ UNCHANGED <<requests, dispatches, decisions, attempts, hour, day, sinks, events,
                 suppressed, queue, job, found, aborts>>

\* Anything but PASS parks the dispatch.
ParkByPolicy(w) ==
  /\ \/ pc[w] = "gates_clear" /\ ~RecipientAllowed(w)
     \/ pc[w] = "recipient_clear" /\ ~PolicyPasses(w)
  /\ Close(w, "work_item_parked")
  /\ UNCHANGED <<tables, hour, day, sinks, suppressed, queue, aborts>>

\* Mutant: an existing attempt ends the job before it logs a sink record.
LookUpAttempt_SkipSink(w) ==
  /\ pc[w] = "policy_clear"
  /\ found' = [found EXCEPT ![w] = HasAttempt(job[w].draft)]
  /\ pc' = [pc EXCEPT ![w] = IF HasAttempt(job[w].draft) THEN "sink_logged" ELSE "looked_up"]
  /\ UNCHANGED <<requests, dispatches, decisions, attempts, hour, day, sinks, events,
                 suppressed, queue, job, aborts>>

\* create_or_reuse_send_attempt, its SELECT: decides the reused flag.
LookUpAttempt(w) ==
  /\ Advance(w, "policy_clear", "looked_up")
  /\ found' = [found EXCEPT ![w] = HasAttempt(job[w].draft)]
  /\ UNCHANGED <<requests, dispatches, decisions, attempts, hour, day, sinks, events,
                 suppressed, queue, job, aborts>>

\* Mutant: the key includes the decision, so a second approval sends again.
WriteAttemptAndSink_KeyedByDecision(w) ==
  LET new == {[draft |-> job[w].draft, decision |-> job[w].decision]}
  IN /\ Advance(w, "looked_up", "sink_logged")
     /\ attempts' = attempts \cup new
     /\ hour' = hour \cup new
     /\ day' = day \cup new
     /\ sinks' = sinks \cup {[row |-> job[w], reused |-> found[w]]}
     /\ UNCHANGED <<requests, dispatches, decisions, events, suppressed, queue,
                    job, found, aborts>>

\* Its INSERT, ON CONFLICT (idempotency_key) DO NOTHING, and the sink record; commit.
WriteAttemptAndSink(w) ==
  LET d == job[w].draft
      new == IF HasAttempt(d) THEN {} ELSE {[draft |-> d, decision |-> job[w].decision]}
  IN /\ Advance(w, "looked_up", "sink_logged")
     /\ attempts' = attempts \cup new
     /\ hour' = hour \cup new
     /\ day' = day \cup new
     /\ sinks' = sinks \cup {[row |-> job[w], reused |-> found[w]]}
     /\ UNCHANGED <<requests, dispatches, decisions, events, suppressed, queue,
                    job, found, aborts>>

FinishDispatch(w) ==
  /\ pc[w] = "sink_logged"
  /\ Close(w, "work_item_completed")
  /\ UNCHANGED <<tables, hour, day, sinks, suppressed, queue, aborts>>

-----------------------------------------------------------------------------
Init ==
  /\ requests = {} /\ dispatches = {} /\ decisions = {} /\ attempts = {}
  /\ hour = {} /\ day = {} /\ sinks = {} /\ events = {} /\ suppressed = {}
  /\ queue = <<>>
  /\ pc = [w \in Workers |-> "idle"]
  /\ job = [w \in Workers |-> NoJob]
  /\ found = [w \in Workers |-> FALSE]
  /\ aborts = 0

RequestStep(w) ==
  \/ BeginRequest(w) \/ ParkForReviewer(w) \/ RefuseRequest(w)
  \/ RecordDecision(w) \/ EnqueueNextStage(w) \/ FinishRequest(w)

DispatchStep(w) ==
  \/ BeginDispatch(w) \/ FailDispatch(w) \/ ParkAtGate(w) \/ ClearGates(w)
  \/ ClearRecipient(w) \/ PassPolicy(w) \/ ParkByPolicy(w)
  \/ LookUpAttempt(w) \/ WriteAttemptAndSink(w) \/ FinishDispatch(w)

WorkerStep(w) == RequestStep(w) \/ DispatchStep(w) \/ DropParked(w)

Environment ==
  \/ \E d \in Drafts, r \in Reviewers, choice \in Choices : SubmitDecision(d, r, choice)
  \/ \E rq \in PostedRequests : PostRequest(rq)
  \/ \E di \in PostedDispatches : PostDispatch(di)
  \/ \E row \in requests \cup dispatches : Deliver(row)
  \/ \E d \in Suppressible : Suppress(d)
  \/ \E a \in hour : HourPasses(a)
  \/ \E a \in day : DayPasses(a)

Next ==
  \/ \E w \in Workers : WorkerStep(w) \/ Abort(w)
  \/ Environment

Spec == Init /\ [][Next]_vars

\* Worker.work() loops for ever: a worker that can take a step of its job, or
\* take a job, eventually does.  Reviewers, clients and the clock owe nothing.
Fairness == \A w \in Workers : WF_vars(WorkerStep(w))

FairSpec == Spec /\ Fairness

-----------------------------------------------------------------------------
TypeOK ==
  /\ requests \subseteq Request
  /\ dispatches \subseteq Dispatch
  /\ decisions \subseteq Decision
  /\ attempts \subseteq Attempt
  /\ hour \subseteq day /\ day \subseteq attempts
  /\ sinks \subseteq [row : Dispatch, reused : BOOLEAN]
  /\ events \subseteq Row \X EventType
  /\ suppressed \subseteq Drafts
  /\ queue \in Seq(Row)
  /\ pc \in [Workers -> PcLabels]
  /\ job \in [Workers -> Row \cup {NoJob}]
  /\ found \in [Workers -> BOOLEAN]
  /\ aborts \in 0..MaxAborts

(***************************************************************************)
(* Every SendAttempt stands on a decision recorded for its own draft, with *)
(* status approved, by a role with authority and without overridden gates, *)
(* whatever rows clients post and however jobs are repeated: the approval  *)
(* contract of handle_sending_dispatch with check_authority behind it.     *)
(***************************************************************************)
Authorizes(dec) == Grants(dec) /\ dec.status = "approved" /\ dec.role \in ReviewerRolesAllowed

SendsAreAuthorized ==
  \A a \in attempts :
    \E dec \in decisions : dec.key = a.decision /\ dec.draft = a.draft /\ Authorizes(dec)

(***************************************************************************)
(* The work item a decision enqueues carries that decision, of that draft, *)
(* and sits in the stage ROUTING gives for the status on record, although  *)
(* the two are written in different transactions by jobs that may abort,   *)
(* repeat and overlap.                                                     *)
(***************************************************************************)
RoutingFollowsRecord ==
  \A di \in dispatches : di.origin = "approval_request" =>
    \E dec \in decisions :
      dec.key = di.decision /\ dec.draft = di.draft /\ di.stage = Routing[dec.status]

(***************************************************************************)
(* A reviewer has one recorded decision per draft among those submitted    *)
(* through the API, however often and with whatever status they submit:    *)
(* the first submission binds (idempotency_key of submit_decision).        *)
(***************************************************************************)
ReviewerDecidesOnce ==
  \A x, y \in decisions :
    (x.key[1] = "submit" /\ y.key[1] = "submit" /\ x.draft = y.draft /\ x.reviewer = y.reviewer)
      => x = y

(***************************************************************************)
(* The caps are checked before the insert and without a lock, so workers   *)
(* racing past the check can exceed them, but never by more than one send  *)
(* for each worker beyond the first; with one worker they are exact.       *)
(***************************************************************************)
CapsOvershootBounded ==
  LET slack == Cardinality(Workers)
  IN /\ Cardinality(hour) < MaxSendsPerHour + slack
     /\ Cardinality(day) < MaxSendsPerDay + slack
     /\ \A dom \in RecipientDomains :
          Cardinality(InDomain(dom)) < MaxSendsPerTargetDomain + slack

\* Workers that the caps let through and that have found no attempt: each may insert one.
MayInsert(w) == pc[w] \in {"policy_clear", "looked_up"} /\ ~found[w]

Allowances(doms) == [w \in Workers |->
  IF MayInsert(w) /\ RecipientDomain[job[w].draft] \in doms THEN 1 ELSE 0]

HourMembers == [k \in {"hour"} |-> hour]
DayMembers == [k \in {"day"} |-> day]
DomainMembers == [dom \in RecipientDomains |-> InDomain(dom)]

HourGrants == [k \in {"hour"} |-> Allowances(RecipientDomains)]
DayGrants == [k \in {"day"} |-> Allowances(RecipientDomains)]
DomainGrants == [dom \in RecipientDomains |-> Allowances({dom})]

HourCap == INSTANCE CountedCap WITH
  Keys <- {"hour"}, Cap <- MaxSendsPerHour, MaxGrant <- 1,
  members <- HourMembers, granted <- HourGrants

DayCap == INSTANCE CountedCap WITH
  Keys <- {"day"}, Cap <- MaxSendsPerDay, MaxGrant <- 1,
  members <- DayMembers, granted <- DayGrants

DomainCap == INSTANCE CountedCap WITH
  Keys <- RecipientDomains, Cap <- MaxSendsPerTargetDomain, MaxGrant <- 1,
  members <- DomainMembers, granted <- DomainGrants

(***************************************************************************)
(* Each of them is a counted cap on a sliding window.  A check is good for *)
(* one attempt of its own draft: a job that finds the draft sent already,  *)
(* by whichever check, is let through uncounted and inserts nothing.       *)
(***************************************************************************)
ImplementsSendCaps == HourCap!WindowSpec /\ DayCap!WindowSpec /\ DomainCap!WindowSpec

(***************************************************************************)
(* A dispatch closed as completed has an attempt for its draft and a sink  *)
(* record of its own: completion is written in a later transaction than    *)
(* both and after replays that reuse the attempt.                          *)
(***************************************************************************)
CompletedMeansLogged ==
  \A di \in dispatches : <<di, "work_item_completed">> \in events =>
    HasAttempt(di.draft) /\ \E s \in sinks : s.row = di

(***************************************************************************)
(* Once the recipient of an unsent draft is suppressed and no job is past  *)
(* the suppression check for it, it is never sent: no later approval,      *)
(* replay or posted row gets it past evaluate_send_policy.                 *)
(***************************************************************************)
Quarantined(d) ==
  /\ d \in suppressed
  /\ ~HasAttempt(d)
  /\ \A w \in Workers : pc[w] \in {"recipient_clear", "policy_clear", "looked_up"} =>
       job[w].draft # d

QuarantineIsPermanent == [][\A d \in Drafts : Quarantined(d) => Quarantined(d)']_vars

(***************************************************************************)
(* The pipeline's end implements the ledger of sends.                      *)
(***************************************************************************)
Ledger == INSTANCE SendLedger WITH
  Keys <- RequestKeys,
  approvals <- {<<dec.draft, dec.key>> : dec \in {x \in decisions : Authorizes(x)}},
  ledger <- attempts

ImplementsSendLedger == Ledger!Spec

(***************************************************************************)
(* Once jobs stop aborting, a submitted decision that is waiting in the    *)
(* queue gets its next-stage work item, also when an earlier run of the    *)
(* same request stopped between recording the decision and enqueueing.     *)
(***************************************************************************)
Waiting(d, r) ==
  \E i \in 1..Len(queue) :
    /\ queue[i] \in requests
    /\ RequestKey(queue[i]) = <<"submit", d, r>>

Routed(d, r) == \E di \in dispatches :
  di.origin = "approval_request" /\ di.decision = <<"submit", d, r>>

ReplayCompletesRouting ==
  \A d \in Drafts, r \in Reviewers :
    (Waiting(d, r) /\ aborts = MaxAborts) ~> Routed(d, r)

(***************************************************************************)
(* Nor does a send stay half told: a dispatch whose job died after it had  *)
(* committed the attempt is completed by its next delivery, although that  *)
(* attempt may have filled the caps and the recipient may be suppressed by *)
(* now (existing_attempt of evaluate_send_policy).                         *)
(***************************************************************************)
Attempted(d, r) == \E a \in attempts : a.draft = d /\ a.decision = <<"submit", d, r>>

DispatchOf(di, d, r) ==
  di.origin = "approval_request" /\ di.draft = d /\ di.decision = <<"submit", d, r>>

DispatchWaits(d, r) ==
  \E i \in 1..Len(queue) :
    queue[i] \in dispatches /\ DispatchOf(queue[i], d, r) /\ BaseGatesPass(queue[i])

Completed(d, r) ==
  \E di \in dispatches : DispatchOf(di, d, r) /\ <<di, "work_item_completed">> \in events

ReplayCompletesSend ==
  \A d \in Drafts, r \in Reviewers :
    (DispatchWaits(d, r) /\ Attempted(d, r) /\ aborts = MaxAborts) ~> Completed(d, r)

-----------------------------------------------------------------------------
(***************************************************************************)
(* The strengthening that makes the invariants inductive.                  *)
(***************************************************************************)
RequestLabels == {"request_begun", "decision_recorded", "next_enqueued"}
UnsentLabels == {"gates_clear", "recipient_clear", "policy_clear", "looked_up"}
GrantedLabels == UnsentLabels \cup {"sink_logged"}

\* A worker's row fits its place in the handler, and what the handler has
\* established for the row stays established while others commit.
JobsFitPlace == \A w \in Workers :
  /\ pc[w] \in RequestLabels => job[w] \in Request
  /\ pc[w] \in {"dispatch_begun"} \cup GrantedLabels => job[w] \in Dispatch
  /\ pc[w] \in {"decision_recorded", "next_enqueued"} => MayDecide(job[w])
  /\ pc[w] \in GrantedLabels => Granted(job[w])
  /\ pc[w] \in UnsentLabels => (found[w] => HasAttempt(job[w].draft))

DecidersHaveAuthority == \A dec \in decisions : dec.role \in ReviewerRolesAllowed

\* A key names one request; the queue and the workers hold requests that are still
\* in the table; every decision is the one its own request asks for.
OneRequestPerKey == \A x, y \in requests : RequestKey(x) = RequestKey(y) => x = y

QueuedRequestsExist ==
  \A i \in 1..Len(queue) : queue[i].stage = "approval_request" => queue[i] \in requests

DecisionsFollowRequests ==
  /\ \A dec \in decisions : \E rq \in requests : dec = DecisionOf(rq)
  /\ \A w \in Workers :
       /\ pc[w] \in RequestLabels => job[w] \in requests
       /\ pc[w] \in {"decision_recorded", "next_enqueued"} => HasDecision(RequestKey(job[w]))

\* A dispatch has left its attempt and its sink record before it completes, even one that
\* the table does not have yet.
Logged(di) == HasAttempt(di.draft) /\ \E s \in sinks : s.row = di

LogsPrecedeCompletion ==
  /\ \A w \in Workers : pc[w] = "sink_logged" => Logged(job[w])
  /\ \A di \in Dispatch : <<di, "work_item_completed">> \in events => Logged(di)

-----------------------------------------------------------------------------
(***************************************************************************)
(* What a comment of the repository says and the code does not do: the     *)
(* subject of a run that finds a counterexample.                           *)
(***************************************************************************)

\* main.py, _try_enqueue_rq: "the worker will still find the work item in the DB on
\* its next polling cycle": every submitted decision is recorded in the end.
SubmittedIsRecorded ==
  \A d \in Drafts, r \in Reviewers :
    (\E rq \in requests : RequestKey(rq) = <<"submit", d, r>>)
      ~> HasDecision(<<"submit", d, r>>)
=============================================================================
