------------------------------ MODULE Drafting ------------------------------
(***************************************************************************)
(* The copy_generate stage: a worker builds an evidence digest, checks the *)
(* draft cap of the contact, commits the OutreachDraft with its            *)
(* PersonalizationAnchors, and only then enqueues the approval_request.    *)
(*                                                                         *)
(* A draft's text is its set of claims, one per evidence item: the         *)
(* template makes one line and one anchor of each.  One action is one      *)
(* commit or one read whose answer is used later, as in ReviewSend.        *)
(***************************************************************************)
EXTENDS Naturals, FiniteSets

CONSTANTS
  Contacts,             \* contacts with canonical rows
  NoContact,            \* a required field is missing or names no canonical row
  Slots,                \* pairs of sequence_no and variant_no
  Evidence,             \* evidence ids
  Workers,              \* RQ worker processes
  Items,                \* copy_generate rows that enrichment or clients may enqueue
  MaxDraftsPerContact,
  MaxAborts             \* bound: jobs that raise or die

Item == [contact : Contacts \cup {NoContact}, slot : Slots, evidence : SUBSET Evidence]

DraftIds == Contacts \X Slots

Draft == [id : DraftIds, claims : SUBSET Evidence]

EventType == {"evidence_digest_built", "draft_generated", "draft_flagged_for_review",
              "work_item_completed", "work_item_parked", "work_item_failed_contract"}

ASSUME DraftingAssumption ==
  /\ IsFiniteSet(Workers) /\ Workers # {}
  /\ NoContact \notin Contacts
  /\ MaxDraftsPerContact \in Nat /\ MaxAborts \in Nat
  /\ Items \subseteq Item

VARIABLES
  items,      \* copy_generate rows of work_items
  known,      \* rows of evidence
  drafts,     \* rows of outreach_drafts
  anchors,    \* rows of personalization_anchors: a draft id and the evidence behind a line
  approvals,  \* approval_request rows of work_items, each for a draft id
  events,     \* structured events, as pairs of row and event type
  pc, job,    \* per worker: where its job is, and the row it loaded
  aborts      \* how many jobs raised or died

vars == <<items, known, drafts, anchors, approvals, events, pc, job, aborts>>

NoJob == [contact |-> NoContact, slot |-> "none", evidence |-> {}]

PcLabels == {"idle", "begun", "digest_built", "cap_passed", "draft_persisted",
             "approval_requested"}

\* make_draft_id
DraftId(it) == <<it.contact, it.slot>>

\* Mutant: one approval request per contact.
SameApproval_PerContact(id, other) == id[1] = other[1]

\* make_approval_request_idempotency_key
SameApproval(id, other) == id = other

Drafted(id) == \E d \in drafts : d.id = id

DraftsOf(c) == {d \in drafts : d.id[1] = c}

Advance(w, from, to) ==
  /\ pc[w] = from
  /\ pc' = [pc EXCEPT ![w] = to]

Release(w) ==
  /\ pc' = [pc EXCEPT ![w] = "idle"]
  /\ job' = [job EXCEPT ![w] = NoJob]

Close(w, type) ==
  /\ events' = events \cup {<<job[w], type>>}
  /\ Release(w)

-----------------------------------------------------------------------------
(***************************************************************************)
(* Other components.                                                       *)
(***************************************************************************)

\* Contact enrichment (whose rows name no evidence) or POST /work-items.
PostItem(it) ==
  /\ items' = items \cup {it}
  /\ UNCHANGED <<known, drafts, anchors, approvals, events, pc, job, aborts>>

\* Account discovery commits an evidence row; rows of evidence stay as they are.
CaptureEvidence(e) ==
  /\ known' = known \cup {e}
  /\ UNCHANGED <<items, drafts, anchors, approvals, events, pc, job, aborts>>

-----------------------------------------------------------------------------
(***************************************************************************)
(* handle_copy_generate.                                                   *)
(***************************************************************************)

\* A delivered row, new or repeated; handler_started.
Begin(w, it) ==
  /\ Advance(w, "idle", "begun")
  /\ job' = [job EXCEPT ![w] = it]
  /\ UNCHANGED <<items, known, drafts, anchors, approvals, events, aborts>>

\* Mutant: evidence ids are not looked up.
Digestible_AnyEvidence(it) == it.contact \in Contacts /\ it.evidence # {}

\* Mutant: the contact is not looked up.
Digestible_AnyContact(it) == it.evidence # {} /\ it.evidence \subseteq known

\* Required fields are there, and build_evidence_digest finds every row.
Digestible(it) ==
  /\ it.contact \in Contacts
  /\ it.evidence # {}
  /\ it.evidence \subseteq known

Refuse(w) ==
  /\ pc[w] = "begun"
  /\ ~Digestible(job[w])
  /\ Close(w, "work_item_failed_contract")
  /\ UNCHANGED <<items, known, drafts, anchors, approvals, aborts>>

BuildDigest(w) ==
  /\ Advance(w, "begun", "digest_built")
  /\ Digestible(job[w])
  /\ events' = events \cup {<<job[w], "evidence_digest_built">>}
  /\ UNCHANGED <<items, known, drafts, anchors, approvals, job, aborts>>

\* Mutant: off by one.
UnderCap_OffByOne(c) == Cardinality(DraftsOf(c)) <= MaxDraftsPerContact

UnderCap(c) == Cardinality(DraftsOf(c)) < MaxDraftsPerContact

PassCap(w) ==
  /\ Advance(w, "digest_built", "cap_passed")
  /\ UnderCap(job[w].contact)
  /\ UNCHANGED <<items, known, drafts, anchors, approvals, events, job, aborts>>

ParkAtCap(w) ==
  /\ pc[w] = "digest_built"
  /\ ~UnderCap(job[w].contact)
  /\ Close(w, "work_item_parked")
  /\ UNCHANGED <<items, known, drafts, anchors, approvals, aborts>>

\* generate_draft_v0: every claim of the draft carries its evidence.
GeneratedDraft(it) == [id |-> DraftId(it), claims |-> it.evidence]
GeneratedAnchors(it) == {DraftId(it)} \X it.evidence

\* Mutant: the draft is rewritten on conflict.
UpsertDraft_Overwrite(new) == {d \in drafts : d.id # new.id} \cup {new}

\* ON CONFLICT (draft_id) DO NOTHING.
UpsertDraft(new) == IF Drafted(new.id) THEN drafts ELSE drafts \cup {new}

\* _upsert_anchors: a key digests the draft id, the line and its evidence.
UpsertAnchors(it) == anchors \cup GeneratedAnchors(it)

\* Mutant: a draft that exists is taken as a stage that was finished.
PersistDraft_FinishedIfDrafted(w) ==
  /\ pc[w] = "cap_passed"
  /\ pc' = [pc EXCEPT ![w] = IF Drafted(DraftId(job[w])) THEN "approval_requested"
                                                        ELSE "draft_persisted"]
  /\ drafts' = UpsertDraft(GeneratedDraft(job[w]))
  /\ anchors' = UpsertAnchors(job[w])
  /\ UNCHANGED <<items, known, approvals, events, job, aborts>>

\* One commit for the draft and its anchors.
PersistDraft(w) ==
  /\ Advance(w, "cap_passed", "draft_persisted")
  /\ drafts' = UpsertDraft(GeneratedDraft(job[w]))
  /\ anchors' = UpsertAnchors(job[w])
  /\ UNCHANGED <<items, known, approvals, events, job, aborts>>

\* DraftClaimEvidenceGate.
GateEvent(it) ==
  IF it.evidence # {} /\ it.evidence \subseteq {a[2] : a \in GeneratedAnchors(it)}
    THEN "draft_generated" ELSE "draft_flagged_for_review"

\* _enqueue_approval_request, ON CONFLICT (idempotency_key) DO NOTHING.
EnqueueApproval(id) ==
  IF \E other \in approvals : SameApproval(id, other) THEN approvals ELSE approvals \cup {id}

RequestApproval(w) ==
  /\ Advance(w, "draft_persisted", "approval_requested")
  /\ events' = events \cup {<<job[w], GateEvent(job[w])>>}
  /\ approvals' = EnqueueApproval(DraftId(job[w]))
  /\ UNCHANGED <<items, known, drafts, anchors, job, aborts>>

Finish(w) ==
  /\ pc[w] = "approval_requested"
  /\ Close(w, "work_item_completed")
  /\ UNCHANGED <<items, known, drafts, anchors, approvals, aborts>>

\* The handler raises (a sequence_no that is no number, a lost connection) or its
\* process dies; nothing retries the job, but its row may be delivered again.
Abort(w) ==
  /\ pc[w] # "idle"
  /\ aborts < MaxAborts
  /\ aborts' = aborts + 1
  /\ Release(w)
  /\ UNCHANGED <<items, known, drafts, anchors, approvals, events>>

-----------------------------------------------------------------------------
Init ==
  /\ items = {} /\ known = {} /\ drafts = {} /\ anchors = {} /\ approvals = {} /\ events = {}
  /\ pc = [w \in Workers |-> "idle"]
  /\ job = [w \in Workers |-> NoJob]
  /\ aborts = 0

WorkerStep(w) ==
  \/ Refuse(w) \/ BuildDigest(w) \/ PassCap(w) \/ ParkAtCap(w)
  \/ PersistDraft(w) \/ RequestApproval(w) \/ Finish(w)

Next ==
  \/ \E w \in Workers : WorkerStep(w) \/ Abort(w) \/ \E it \in items : Begin(w, it)
  \/ \E it \in Items : PostItem(it)
  \/ \E e \in Evidence : CaptureEvidence(e)

Spec == Init /\ [][Next]_vars

\* A worker that has begun a job goes on with it; who delivers jobs owes nothing.
FairSpec == Spec /\ \A w \in Workers : WF_vars(WorkerStep(w))

-----------------------------------------------------------------------------
TypeOK ==
  /\ items \subseteq Item
  /\ known \subseteq Evidence
  /\ drafts \subseteq Draft
  /\ anchors \subseteq DraftIds \X Evidence
  /\ approvals \subseteq DraftIds
  /\ events \subseteq Item \X EventType
  /\ pc \in [Workers -> PcLabels]
  /\ job \in [Workers -> Item \cup {NoJob}]
  /\ aborts \in 0..MaxAborts

(***************************************************************************)
(* max_drafts_per_contact is checked before the draft is inserted and      *)
(* without a lock: racing workers can exceed it, but by fewer drafts than  *)
(* there are workers, and one worker keeps it exactly.                     *)
(***************************************************************************)
DraftCapOvershootBounded ==
  \A c \in Contacts : Cardinality(DraftsOf(c)) < MaxDraftsPerContact + Cardinality(Workers)

\* Workers past the cap check for a contact: each may insert one draft.
InFlight(c) == {w \in Workers : pc[w] = "cap_passed" /\ job[w].contact = c}

Members == [c \in Contacts |-> DraftsOf(c)]

Granted == [c \in Contacts |-> [w \in Workers |-> IF w \in InFlight(c) THEN 1 ELSE 0]]

DraftCap == INSTANCE CountedCap WITH
  Keys <- Contacts, Cap <- MaxDraftsPerContact, MaxGrant <- 1,
  members <- Members, granted <- Granted

(***************************************************************************)
(* The draft cap is one that is counted: between a worker's check and its  *)
(* insert there is room for one draft, which no step can take or use       *)
(* twice, whoever writes, replays, dies or finds the draft there already.  *)
(***************************************************************************)
ImplementsDraftCap == DraftCap!Spec

(***************************************************************************)
(* A reviewer is asked only about a draft that is in the table, and every  *)
(* claim of its text is anchored to evidence that exists, whichever of     *)
(* several items for one draft id wrote the draft and which the request.   *)
(***************************************************************************)
ReviewedDraftsAreAnchored ==
  \A id \in approvals : \E d \in drafts :
    /\ d.id = id
    /\ d.claims # {} /\ d.claims \subseteq known
    /\ {id} \X d.claims \subseteq anchors

(***************************************************************************)
(* An item closed as completed has its draft, and a reviewer was asked     *)
(* about it, also when a first run stopped after it committed the draft.   *)
(***************************************************************************)
CompletedMeansReviewable ==
  \A it \in items : <<it, "work_item_completed">> \in events =>
    Drafted(DraftId(it)) /\ DraftId(it) \in approvals

(***************************************************************************)
(* A draft that is in the table keeps its text: what a reviewer approves   *)
(* is what is sent, whatever items for the same draft id come later.       *)
(***************************************************************************)
DraftsKeepTheirText == [][drafts \subseteq drafts']_vars

(***************************************************************************)
(* While no job aborts, every draft gets its approval request.             *)
(***************************************************************************)
DraftsReachReview == \A id \in DraftIds : Drafted(id) ~> id \in approvals

-----------------------------------------------------------------------------
(***************************************************************************)
(* The strengthening that makes the invariants inductive.                  *)
(***************************************************************************)
DigestedLabels == {"digest_built", "cap_passed", "draft_persisted", "approval_requested"}

JobsFitPlace == \A w \in Workers :
  /\ pc[w] # "idle" => job[w] \in Item
  /\ pc[w] \in DigestedLabels => Digestible(job[w])
  /\ pc[w] \in {"draft_persisted", "approval_requested"} => Drafted(DraftId(job[w]))
  /\ pc[w] = "approval_requested" => DraftId(job[w]) \in approvals

DraftsAreAnchored == \A d \in drafts :
  /\ d.claims # {} /\ d.claims \subseteq known
  /\ {d.id} \X d.claims \subseteq anchors

ApprovalsHaveDrafts == \A id \in approvals : Drafted(id)

=============================================================================
