# Verification of the AOSE outreach pipeline

AOSE turns a seller profile into outreach: it discovers accounts, scores them, finds
contacts, drafts a message, has a person approve it, and dispatches it to a (sandboxed)
sender. The work is done by RQ worker processes that run one handler per pipeline stage
against one Postgres database. This directory holds TLA+ models of that system, the TLC
runs that check them and the TLAPS proofs about them. Paths below are relative to `src/`;
`PROJECT.json` names, for every definition of a model, the source lines it stands for.

## The system

Everything is a row of `work_items`: a stage, a payload, a unique idempotency key and a
remaining attempt budget. `run_worker.process_work_item` routes a row by its stage to a
handler; a stage that starts with `parked:` is terminal and runs none. A handler is a
sequence of transactions: load the row, commit `handler_started`, validate, spend budget,
commit the work, commit the terminal event. Every commit is a place to crash, and between
two commits other workers commit too.

| Component | State it keeps | Operations | What is hard |
|---|---|---|---|
| Review API (`api/aose_api/main.py`) | `work_items`, the RQ queue | `submit_decision` inserts a request and pushes it; `POST /work-items` inserts any row | the push may fail after the commit; a second submission reuses the first key and pushes the old row |
| Approval (`approval_request.py`, `approval_decision_service.py`) | `approval_decisions`, next-stage rows | record a decision, route it, enqueue, close | two commits; several reviewers of one draft; repeated jobs |
| Dispatch (`sending_dispatch.py`, `send_policy_service.py`, `sandbox_sender_service.py`) | `send_attempts`, sink events | gates, suppression, caps, create or reuse an attempt, sink record | checks and inserts are apart: races past the caps, duplicate sink records, stale suppression, replay |
| Copy generation (`copy_generate.py`, digest, generator) | `outreach_drafts`, `personalization_anchors`, approval rows | digest, cap, persist draft and anchors, enqueue | the cap is checked before the insert; crash between draft and request; one draft id for several inputs |
| People search, CSV import | `contacts`, `contact_aliases`, enrichment rows | dedup, sort, caps, insert | caps checked before the inserts; alias uniqueness; the import ignores the caps |
| Contact enrichment, e-mail validation | `contacts.channels_json`, copy rows | spend, look up, raise the level, route | read-modify-write across a DNS lookup; no replay guard; its copy row lacks fields that copy generation requires |
| Account discovery (handler, service, dedup, run controls) | `accounts`, aliases, evidence, scoring rows | identity, trust order, stop rules | one long transaction with read-modify-write of shared accounts; deadlocks; partial writes; a replay finds nothing new |
| Intent-fit scoring and promotion | `scorecards`, account status, people-search rows | scores, lane, promotion | thresholds; evidence that grows while a job runs; two commits; a replay with other evidence |
| Budgets, idempotency, events | `work_items.attempt_budget_remaining`, `structured_events` | spend, check, emit | the guard and the retry policy are called by no handler |
| Query generation, record CRUD | `query_objects`, profiles, accounts | pure generation; single statements | - |
| Schema, migrations, web UI, scripts | - | - | not modelled: DDL, a thin client, start-up scripts |

What makes each of them correct: nothing is sent that nobody with authority approved; a
draft is sent at most once; the caps hold up to what racing workers can add; replaying a
row repeats no effect and completes what was left undone; every row is closed in the end.

## Plan

In this order; each module is written so that it can be proved about (constants with
assumptions, one action per commit, no recursion):

1. `SendLedger`, `CountedCap`, `CountedCap_proofs`, `ReviewSend`, `ReviewSend_proofs`: submission,
   approval, dispatch; a cap that is counted before an insert, in the abstract. **Done.**
2. `Drafting`, `Drafting_proofs`: copy generation, the draft cap, anchors, the approval row.
   **Done**; the row it enqueues is the posted row of status "none" in `ReviewSend`, and the
   two are still to be composed.
3. `Contacts`, `Contacts_proofs`: people search, CSV import; caps on contacts (two more
   counted caps), alias uniqueness, budgets. **Done.**
4. `Enrichment`, `Enrichment_proofs`: the validation level of a contact's e-mail channel,
   read, validated and written back by overlapping jobs, the routes, the copy row, and what
   a row's budget buys. **Done.**
5. `AccountBook`, `Discovery`, `Discovery_proofs`: account identity, precedence of sources
   (`dedup`), caps, replay, deadlock. **Done.**
6. `Scoring`, `Scoring_proofs`: rules, scores, confidences, gates and lanes as operators, and
   the handler that promotes an account. **Done.**
7. Open: a composition of two neighbouring stages (each module takes the other stages' rows as
   its environment), `query_gen` as an operator, and the spelling rules of `canonical_ids`.

Abstract specifications worth stating: the ledger of sends (`SendLedger`, done); a set that is
capped up to what racing workers were granted (`CountedCap`, done for the caps on sends, drafts
and contacts); a book of accounts that only improve (`AccountBook`, done); an at-least-once stage
("every row is closed, its effect happens once") that each handler implements (open). Theorems
worth proving: every safety invariant of a module, and each refinement.

## ReviewSend: from a submitted decision to a send

`SendLedger` is the abstract specification: approvals appear, and at any time a draft that
has one and no entry in the ledger may get an entry that names it. `ReviewSend` is the
code's end of the pipeline:

- **Rows.** `requests` and `dispatches` are `work_items`, identified by `RequestKey` and
  `DispatchKey` (the idempotency keys); `decisions`, `attempts` are `approval_decisions`,
  `send_attempts`; `sinks` and `events` are what `structured_events` gets. `hour` and `day`
  are the attempts young enough to count for a cap.
- **Jobs.** `queue` is RQ's list; per worker `pc` says after which commit (or read whose
  answer is used later) its handler is, `job` is the row it loaded, `found` the answer of its
  last lookup of the send key.
- **Actions.** One per commit or such read. The approval handler is `BeginRequest`,
  `ParkForReviewer`, `RefuseRequest`, `RecordDecision`, `EnqueueNextStage`, `FinishRequest`;
  the dispatch handler `BeginDispatch`, `FailDispatch`, `ParkAtGate`, `ClearGates` (contract,
  gates, first lookup), `ClearRecipient` (suppression), `PassPolicy` (caps), `ParkByPolicy`,
  `LookUpAttempt` (the SELECT), `WriteAttemptAndSink` (the INSERT and the sink record),
  `FinishDispatch`. `Abort` is an exception or a dead process at any of these places.
- **Environment.** `SubmitDecision` is the API; `PostRequest` and `PostDispatch` are
  `POST /work-items`. `Deliver` is whoever feeds RQ with other rows or requeues a job:
  nothing under `src/` does, and without it no dispatch would ever run. `Suppress`,
  `HourPasses` and `DayPasses` are external too.

Abstractions: what contact, account, anchors and text say to the gates is one constant per
draft, `Standing` (`unlinked`, `stop`, `review`, `pass`), and so is the recipient's domain,
although enrichment may rewrite a contact's channels between two deliveries; each of the
three cap counts is read with the others in one step (they are three statements of one
transaction); a draft has one channel; a draft has at most one posted request per reviewer,
and the row that copy generation enqueues is the posted row with status "none".

### Runs

Workers, drafts and reviewers are model values; where no constant tells them apart and no
liveness is asked, a symmetry set merges what differs by their names only.
`MaxQueue` bounds waiting jobs and `MaxAborts` crashes; the windows move by `HourPasses` and
`DayPasses`, so the caps (of 1 and 2 here) are hit, released and hit again. Two workers are
enough for every race the code has, since each race is between one check and one insert, and
the third draft in `ReviewSendRace` lets a third send find the caps overshot. The
standings that only park a row earlier (`stop`, `review`) are in no run; the theorems cover
them.

| Run | Instance | Shows |
|---|---|---|
| `ReviewSendRace` | 3 approved drafts to one domain, 2 workers | the send caps are counted caps on sliding windows (refinement of `CountedCap`) and overshoot by less than the number of workers |
| `ReviewSendReviewers` | 1 draft, 2 reviewers, 2 workers, 1 abort, suppression | routing, one decision per reviewer, completion, quarantine, refinement of `SendLedger` |
| `ReviewSendPosted` | a viewer's approval, another policy pack, dispatches that clients post | authority |
| `ReviewSendLive` | rows without a draft, decision, known status or budget; caps of 1; suppression; 1 abort; one fair worker | types; a waiting request is routed although an earlier run stopped between decision and next stage; a waiting dispatch is completed although an earlier run stopped between attempt and terminal event |
| `ReviewSendLostPush` | Redis refuses a push | finding: the decision is never recorded |

Liveness is checked under `WF_vars(WorkerStep(w))` for each worker: `Worker.work()` loops
for ever, so a worker that can continue its job or take one does. Clients, reviewers, the
clock, deliveries and aborts owe nothing.

### Proofs

`ReviewSend_proofs` proves for all constants that satisfy `ReviewSendAssumption` (finite sets
of drafts and workers, naturals for caps and bounds, at least one worker):

- `TypeCorrect`: `TypeOK` is inductive.
- `EverySendIsAuthorized`, `RoutingIsFaithful` and `OneDecisionPerReviewer` rest on a first
  invariant. A dispatch job's approval is checked in one step and used in a later one, so
  `JobsFitPlace` says that what a worker has established for its row stays established;
  `DecidersHaveAuthority`, `OneRequestPerKey`, `QueuedRequestsExist` and
  `DecisionsFollowRequests` tie decisions to requests, and are needed because a job carries a
  copy of its request through queue and worker while the API looks at the table.
- `ReviewSendImplementsLedger`: from that invariant, each step is an abstract entry, an
  abstract approval, or a stutter.
- `ReviewSendImplementsCountedCaps`: each of the three caps is a `CountedCap` (below) on a sliding
  window. A job holds a grant while it is past the caps and has found no attempt (`MayInsert`).
  `PassPolicy` is a `Count` of one, but a stutter for a replay, which is let through uncounted and
  inserts nothing; `WriteAttemptAndSink` is the `Spend`, and so is whatever ends the job before or
  lets it find another job's attempt; time is a `Leave` (`HowSendsChange` sorts all steps).
- `OvershootIsBounded` follows from it and `WindowsBoundOvershoot`. `CapsOvershootBounded` is not
  inductive by itself, as it says nothing about jobs past the check.
- `QuarantineHolds`: a step that would take a draft out of quarantine would need a worker that
  passes `RecipientAllowed` for it, or one in flight already.
- `CompletionIsLogged`: `LogsPrecedeCompletion` also speaks of jobs past their sink record and of
  dispatch rows that the table does not have yet, which a later insert would otherwise expose.

Only model-checked are the liveness properties of this module, `ReplayCompletesRouting` and
`ReplayCompletesSend`: the prover does not reach what rests on fairness or on `ENABLED`. The
second one says that a replay is let through the caps, which its own attempt has filled in this
instance, and the suppression tables, by the attempt that `ClearGates` finds.

## CountedCap: a cap without a lock

`CountedCap` is the abstract specification of what the pipeline's caps on sends, drafts and contacts
do. For each key (a domain, a contact, an account, a run) there are `members` and, per worker, what
it is `granted`. `Count` finds n places left and grants them, whatever was granted to others since
they counted; `Spend` adds members within the grant and gives up the rest. The sends of an hour or
a day get old, so `WindowSpec` also lets members leave. `OvershootBounded` says that there are
never more than the cap and one grant for each worker but one.

`CountedCap_proofs` proves it (`CountingBoundsOvershoot`, `WindowsBoundOvershoot`) for all sets of
keys, finite sets of workers, caps and grants (`CapAssumption`). The bound is not inductive, as it
does not see the grants. `RoomForClaims` counts them with the members: a worker that counts n places
does so when members and n fit the cap, and the others hold at most one grant each; a `Spend` turns
claims into members. `ReviewSend`, `Drafting` and `Contacts` show that their steps are those of
counted caps, and get their bounds from here.

## Drafting: from an evidence list to an approval request

`Drafting` is `handle_copy_generate` with the digest and the generator. `items` are the
stage's work items, `known` the evidence rows, `drafts` and `anchors` the two tables,
`approvals` the approval_request rows by draft id. A draft's text is the set of its claims:
the template makes one line and one anchor of each evidence item. The actions are `Begin`,
`Refuse` (missing field or row), `BuildDigest`, `PassCap` or `ParkAtCap`, `PersistDraft` (the
two upserts, one commit), `RequestApproval`, `Finish` and `Abort`; enrichment and API
(`PostItem`) and account discovery (`CaptureEvidence`) are the environment. `Begin` takes a
row straight from the table: with only one kind of job the order of the queue decides
nothing that the choice of the row does not. The branch "flagged for review" of the
generator is kept (`GateEvent`) and never taken: a digest has an item, and each item an anchor.

| Run | Instance | Shows |
|---|---|---|
| `DraftingCap` | 3 items of a contact, cap 1, 2 fair workers | the draft cap is a counted cap (refinement of `CountedCap`), whose overshoot is below the number of workers; each draft gets its request |
| `DraftingShared` | 2 items for one draft id, rows without fields, 1 abort, 2 workers | types; reviews are anchored; completed means reviewable; texts are stable |

Fairness is `WF_vars(WorkerStep(w))`: a worker goes on with the job it has begun; nobody owes
the delivery of one. Two workers and a cap of one or two reach every order of checks and
inserts of two items, and a third item meets the overshot cap.

`Drafting_proofs` proves, for all constants with finitely many workers and at least one,
`DraftingTypeCorrect`, `ReviewsAreAnchored`, `CompletedIsReviewable`, `TextsAreStable`,
`DraftingImplementsCountedCap` and `DraftOvershootIsBounded`. `JobsFitPlace` carries what a job has
established (its digest was complete, its draft is there, its request is there) to the step that
relies on it; `DraftsAreAnchored` and `ApprovalsHaveDrafts` split `ReviewedDraftsAreAnchored` at the
commit between the draft and the request, where it alone is not inductive. In the refinement a
passed check is a `Count` of one place; `PersistDraft` is the `Spend`, also when the draft was there
already, and so is an `Abort` in between; every other step stutters. `DraftOvershootIsBounded`
follows from it and `CountingBoundsOvershoot`. `DraftsReachReview` is model-checked only: it is a
liveness property, which needs fairness and thus `ENABLED`.

## Contacts: from an account to its contacts

`Contacts` is `handle_people_search` with its service, and `import_contacts` of the API.
`contacts`, `aliases` and `enrichments` are the rows of `contacts` and `contact_aliases` and
the contact_enrichment rows of `work_items`; `budget` is `attempt_budget_remaining` of the
people_search rows. A contact's id is its account with its e-mail address, or its LinkedIn
URL if it has no address. The constant `Finds` is the adapter's answer for an account, in
which a candidate's `rank` is its place in `candidate_sort_key`, and `Files` are the CSV
files. The actions of a job are `Begin`, `Refuse`, `ParkExhausted`, `SpendAttempt` (the loaded
budget less one is written, so that two deliveries can spend one attempt), `CountRun`,
`CountAccount`, `PersistContacts` or `RaiseOnClash`, `Finish` and `Abort`; `ImportFile` is the
API. `Refuse` is the contract error at each of its places: the payload, the account's row after the
spending, and, once the run is counted, an answer of the adapter that its types refuse (`Garbled`).

Why the inserts of a transaction are one action: nobody else sees them before they are
committed, and an insert whose key is in a transaction that is still open waits for it to
end. The counts are different. They are earlier statements of the same transaction that wait
for nobody and see only what is committed, so each is an action, and both caps can be overshot.
Two transactions that wait for each other are a deadlock, which Postgres ends by an exception
in one of them: `Abort`. An import that clashes is answered with an error and changes nothing,
so it is no step. Every id of a run is taken to be non-empty, and ranks only order the
candidates of one account.

| Run | Instance | Shows |
|---|---|---|
| `ContactsCaps` | 4 accounts (5 people found, an unclear role, one without a row, nobody), caps 2 and 2, a file, 2 workers, 1 abort | types; contacts are whole; both caps are counted caps (refinement of `CountedCap`), overshot by no more than a cap per further worker; the best candidates are kept; completed means somebody was found |

Five candidates for a cap of 2 let a repeated search fill what the first one left, and let two
racing ones overshoot; the file fills a cap that it does not ask about. The adapter in the
repository answers with two people per account, so that the cap of 3 is reached only after
imports. Nothing is asked of liveness here or in the three modules below, so they state no
fairness.

`Contacts_proofs` proves every property of `ContactsCaps` for all constants that satisfy
`ContactsAssumption` (a cap on the contacts of an account that is not 0, finitely many workers)
and `RanksDiffer` (candidates that are not the same contact are ordered):

- `ContactsStayWhole` needs `AliasesFit`: a new contact's own alias is inserted by the first
  picked row with its id, unless there is one already, which then has the right value.
- `CompletedSearchesFound` needs `JobsFitPlace`: a search that found the account's cap used up
  has seen a contact, and one that did not keeps at least the best candidate.
- `BestCandidatesAreKept`: the newcomers before a better candidate are among those before a
  worse one, so that a cap which lets the worse one in lets the better one in.
- `ContactsImplementCountedCaps`: a job holds two grants, that of its run from `CountRun` on and
  that of its account from `CountAccount` on, and gives up both at once. `PersistContacts` is a
  `Spend` of either: it inserts no more contacts than the account was granted and no more
  enrichment rows than the run (`NewcomersFit`, `InsertedFit`, which number the new ones by their
  rank). What an import
  inserts is of origin "import" and of no run that a search counts, and so no member.
- `OvershootsAreBounded` follows from it and `CountingBoundsOvershoot`: a cap, and a cap more for
  each worker but one.

## Enrichment: from a contact to a copy row

`Enrichment` is `handle_contact_enrichment` with its service, the e-mail validator and the
channel policy. `level` is the validation level in `channels_json`, `copies` the copy_generate
rows of `work_items`, `budget` their parents' `attempt_budget_remaining`. A job is `Begin`,
`Refuse`, `ParkExhausted`, `SpendAttempt` (commit), `ReadContact`, `StopShort` (provider cap, no
address) or `FindEmail`, `RejectSyntax` or `LookUpDomain` (the DNS answers as it likes, and may
answer otherwise the next time), `PersistRoute` (the channel list that was read goes back as a
whole, with the route's copy row, one commit), `Finish`; `TimeOut` is the `TransientDnsError`
that no handler catches, `Abort` any other end. The handler has no replay guard, so `Begin` takes
closed rows too. `PostItem` is `POST /work-items`, `FindProfile` a search or an import that adds
a LinkedIn alias.

Abstractions: what the syntax check and the send policy say of an address is a constant of the
contact (`Traits`); a contact has one e-mail channel; its row is there from the start.
`OutcomesAreGrounded` and `CopiesAreDeliverable` use the history `resolved`, the contacts whose
domain once resolved.

| Run | Instance | Shows |
|---|---|---|
| `EnrichmentRoutes` | 6 contacts one at a time (clear, ambiguous, blocked, without address, malformed, without row), a row posted for the first one, budget 2 or 1, 2 workers, 1 abort | types; copy rows are deliverable; terminal events are true; undisturbed rows pay for their lookups; undisturbed contacts keep their level |
| `EnrichmentLevel` | the same | finding: a slower job lowers a contact's level |

Contacts share nothing, hence one at a time; two rows of one contact reach the provider cap, and
two workers each order of two reads, lookups and writes.

`Enrichment_proofs` proves every property of `EnrichmentRoutes` for all constants that satisfy
`EnrichmentAssumption`. `LevelsAreEarned` and `JobsFitPlace` carry "this level comes from a
resolution" through the stale read and write; `RoutesAreGrounded` keeps a route true until its
terminal event; `SoleJobsAreCurrent` says that the job of an unshared contact has not been
overtaken (what it read is what is there, and one lookup more than were made is paid for), and
needs `OverlapsAreNoticed`. `SoleJobsKeepLevels` is an action property that follows from it.

## Discovery: from a query to accounts

`Discovery` is `handle_account_discovery` with its service, `dedup` and `run_controls`. The
service writes everything in one transaction, so a worker has a `draft`: the rows it has written
and not committed. `Sees` is what its statements see, `WaitsFor` the row locks and unique keys
that make it wait for another worker's draft, `Deadlock` the end that Postgres puts to a cycle.
A candidate is two steps, since other transactions commit between its SELECT and its write:
`Resolve` (identity by registry, then domain, then the new id; the account as it is) and `Write`
(`Merged` for the account's row, `Drafted` for evidence, aliases and scoring row). `Conclude`
commits, `Finish` is the terminal event's own commit. `BreakOff` is an exception in the middle of
the candidates: the handler parks the row and commits with the park what was written before it,
as `contract_error` for a ValueError (a malformed timestamp) and as `transient_error` for any
other (`account_discovery.py:301` and `:311`). `FaultOf` says where it comes from: the candidate
itself, or an account whose posted provenance `extract_account_trust_metadata` cannot read.

`PostAccount` is `POST /accounts`, at any time between the steps of the jobs: the row, with the
source its provenance gives, evidence ids that need not be rows (there is no foreign key), and
aliases, which a later candidate may resolve to. A posted account is one more `Offer`, so that
what is said of accounts counts it among what they were offered.

Abstractions: an account is its source (trust, capture time, reference) and its evidence ids; a
trust of -1 is a posted provenance whose first entry is no object, on which the service raises. Ids
and aliases are the keys they are made of; aliases of legal names are left out, posted ones too, as
nothing looks one up. Of `POST /accounts` these are left out as well: an answer of 409, which
changes nothing (the id or an alias id is taken); ids and alias values of a form that no candidate
makes; and provenance entries with a capture time, reference or source type that is not a string,
which raise on some candidates only. The scoring rows are those that jobs enqueue, not rows that
clients post. What the database driver refuses to adapt is left out. Of several accounts with one alias the code takes the first by id, the model any. The
minimum creation rule (`account_discovery_service.py:673`) is no guard here: the adapters' types
refuse a candidate without legal name, country or evidence before the service sees it. The
run's time limit can end the loop before any candidate (`Conclude`). What `run_controls` counts
of queries and external calls is `capped`, a bit of the payload.

| Run | Instance | Shows |
|---|---|---|
| `DiscoveryMerge` | 2 queries that know a company by registry, domain or neither, a malformed candidate, three candidates for a cap of 2, an account a client posts (with an alias and evidence that is no row, or with a provenance nothing can read), rows without query or adapter budget, 2 workers, 1 abort | types; the tables fit together; unraced accounts converge, only improve and are an `AccountBook` (refinement); rows keep the cap, or a cap for each attempt spent; undisturbed rows tell the truth |

`raced`, `shared` and `cut` are histories that set aside what the code does not protect: two jobs,
or a job and a client, that hold one account at once (the later writer drops what the other
merged, see Findings), a row with two jobs, and a row whose job died between the commit of its
accounts and its terminal event. Outside of those, the account does not depend on the order of
queries, candidates, crashes and replays. `RowsKeepTheCap` keeps the `cut` rows in part: each of
their replays may create a cap's worth again, and pays an attempt for it. Nothing is said of what
a row parked as `transient_error` created: it may have created accounts or none.

`AccountBook` is the abstract specification of that: a book with an entry per account, the offers
that were `heard`, and the ids that are `disputed`, whose entries are struck out. `Merge` joins any
number of offers with the entries at once: all the evidence, the source that no other precedes.
There are no transactions, stale reads, deaths or jobs in it. The refinement maps a raced account
to a disputed id and leaves the other accounts as they are.

`Discovery_proofs` proves every property of `DiscoveryMerge` for all constants that satisfy
`DiscoveryAssumption`, in four groups of invariants, each inductive given those before it:

- `Fits`: types, and what a worker's place says of its job (`JobsFitPlace`);
- `Rows`: the job of a row in peace is the first to create or say anything for it
  (`JobsInPeaceAreFirst`, from `JobsAreNoticed`), and what was created is reported or about to
  be (`CreationsAreReported`), which is what makes a second delivery find an event or a witness;
  `AttemptsArePaid` adds that what the jobs of an unshared row created, and a cap more while one
  of them is running (`Owed`), fits the attempts spent, and that the job has loaded the budget
  that is there, so that it does not write an attempt back;
- `Tables`: `TablesFitTogether` holds after a commit because each draft fits with the tables as
  they would be then (`DraftsFitTables`), at any point where the run can be broken off;
- `Converges`: the only job that has an account in hand has read what is there, and its draft
  leaves what stands for all candidates (`SoleJobsAreCurrent`). It needs that two jobs with one
  account are noticed (`RacesAreNoticed`) and that an account is there for every offer
  (`OffersHaveAccounts`, which also says so of posted accounts), so that a new row has one offer.
  `SourcesAreOrdered` is the fact about
  `should_update_account` behind it: it is irreflexive and transitive, so the best of many
  sources does not depend on their order.

A step is one of a few kinds (`RowSteps`, `TableSteps`); each group has a lemma for each kind.

Two theorems about steps follow from `Converges`. `DiscoveryImplementsAccountBook`: a commit
(`Conclude`, `BreakOff`) is one `Merge` of all the offers of the draft, since an account that stands
for what was offered, and then for that and more, was joined with what is new (`StandsJoined`);
`PostAccount` is a `Post`, of an entry with any source and evidence; a step after which a second job, or a job and a client, have an account
in hand is a `Dispute`; the rest stutters. `AccountsImprove`: a merge keeps the evidence of an
entry, and its source is the same or precedes it, as of two sources one precedes the other
(`SourcesAreTotal`).

## Scoring: from an account to a target

`Scoring` is `handle_intent_fit_scoring` with the rules, the scorecard and the promotion gates.
The pure part is operators: `FitMatches` and `SignalMatches` (which evidence matches a rule),
`Used`, `FitScore`, `IntentScore`, the two confidences, `CardOf`, and `Lane` with its gates. The
handler is `Begin` (with its replay guard), `Refuse`, `Score` (everything it reads), `Persist`
(scorecard, status and people_search row in one commit), `Finish`, `Abort`. `Link` and `Register`
are discovery adding evidence and a registry alias, `Age` is the 181st day of a trigger. An
account starts as a candidate or with any other status that `POST /accounts` gave it: one posted
as a target is not promoted again, one that is neither is refused (`Accepted`).

Abstractions: an evidence row is its category, source, trust and the names of the attributes
that are true of it; scores and confidences are in percent; reason texts are left out. The
handler passes FALSE for the account's own conflict flags, so the branches that ask them are
left out. What `Score` reads, it reads in one step: the code has several statements there, which
may see evidence committed in between, and asks twice for the registry alias
(`intent_fit_scoring.py:508` and `:550`), once for the score and once for the gate. `people` are
the people_search rows that jobs enqueued; those that clients post to `/work-items` are left out,
and no property speaks of them.

| Run | Instance | Shows |
|---|---|---|
| `ScoringLanes` | an account scored by two rows (one with a list of evidence) and accounts without name, domain or country, posted as a target or under another status, evidence that matches each rule and signal, evidence linked later, a registry alias, ageing, 2 workers, 1 abort | types and ranges; promotions are earned; scoring again what was used changes nothing; undisturbed rows tell the truth |

A posted target has no people_search row, and a client may post such a row for any account, so
targets and people_search rows need not agree. `PromotionsAreEarned` is about the rows and the
changes of status that jobs make.

`Scoring_proofs` proves every property of `ScoringLanes` for all constants that satisfy
`ScoringAssumption`. `UsedEvidenceDecides` is about the operators alone: each rule matches the
same evidence in `Used(E)` as in `E` (`MatchesAreUsed`), so that scores, confidences and the
evidence used are the same; it holds for every set of evidence. `TypeCorrect` contains that
scores stay within 0..100 (`CardsAreCards`). `PromotionsEarned` needs it again: a lane "ok" was
decided on the account's evidence, and `FitScoreOfUsed` makes that the evidence of the scorecard.
`UndisturbedTruth` rests on `JobsAreNoticed`, `JobsInPeaceAreFirst` and `ScorecardsAreReported`: the
job of a row in peace is the first to write anything about it, and what it wrote will be reported.

## Findings

Two disagreements between the code and its own documents have a run that ends in a counterexample:

- `ReviewSendLostPush`: a push to RQ that fails after the row is committed is never made up for,
  so a submitted decision is not recorded (`api/aose_api/main.py:796`).
- `EnrichmentLevel`: a slower job writes back the channel list it read before its lookup and
  lowers a contact's level, although a comment says that the higher level wins
  (`contact_enrichment_service.py:312`).

The models also contain what has no run of its own:

- every cap that is counted before an insert can be exceeded by racing workers: the send caps
  (`CapsOvershootBounded` says by how much), the draft cap and both contact caps; the CSV
  import asks neither contact cap, while `caps.py` names it among the paths that must;
- an item whose draft id is taken adds anchors for lines that the stored text does not have
  (`PersistDraft` of `Drafting`);
- a crash between the commit of a draft and its approval request leaves a replay that is parked
  at the draft cap, and the draft is never reviewed;
- a search that meets the alias of another contact raises (`RaiseOnClash`) and is not closed,
  although a comment calls the insert idempotent;
- of two discovery jobs that merge one account at once, the later writer drops the evidence or
  the better source of the other, although `dedup.py:14` promises stable replay "regardless of
  execution order";
- a transient failure writes a terminal event, after which every delivery of the row is a no-op,
  also when it came in the middle of the candidates and the accounts before it are committed: the
  event says `failed_transient`, the counters nothing (`BreakOff`);
- no penalty is ever taken for conflicting firmographics, which
  `docs/epics/epic-f/CONTRACT-F.yaml:232` lists, as the handler passes FALSE for it;
- with a second contact_enrichment row for a contact, the provider cap turns both away;
- a replayed dispatch that finds its attempt does not look at suppression again
  (`ClearGates`), and a race of two can leave two sink records that both claim a new send;
- a job that raised is not run again by anything under `src/` (`Abort`; the handlers' comments
  count on RQ to retry, and jobs are enqueued without `Retry`);
- one row delivered twice can be closed both as completed and as parked;
- two deliveries of a row that load the same budget spend one attempt for two runs.

## Not modelled

Listed with reasons in `PROJECT.json`: query generation (a pure function of a profile), the
record CRUD but for `POST /accounts`, the adapters' canned data, migrations, web UI and scripts;
`idempotency.guard` and the retry policy, which no handler calls. The text of messages and
events is left out, and so are digests: a key is the tuple of what the code digests.
