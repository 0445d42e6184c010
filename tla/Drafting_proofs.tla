-------------------------- MODULE Drafting_proofs --------------------------
(***************************************************************************)
(* Proofs about Drafting: type correctness, anchored reviews, complete     *)
(* replays, stable texts, and the draft cap as a counted cap, from which   *)
(* the bound on its overshoot follows.                                     *)
(***************************************************************************)
EXTENDS Drafting, FiniteSetTheorems, TLAPS

Inv ==
  TypeOK /\ JobsFitPlace /\ DraftsAreAnchored /\ ApprovalsHaveDrafts /\ IsFiniteSet(drafts)

LEMMA InitInv == Init => Inv
BY DraftingAssumption, FS_EmptySet DEF Init, Inv, TypeOK, PcLabels, JobsFitPlace, DigestedLabels,
   DraftsAreAnchored, ApprovalsHaveDrafts

\* Freeing a worker keeps whatever holds of the other workers' jobs.
LEMMA ReleaseInv ==
  ASSUME Inv, NEW w \in Workers, Release(w), UNCHANGED <<items, known, drafts, anchors, approvals>>
  PROVE  /\ pc' \in [Workers -> PcLabels]
         /\ job' \in [Workers -> Item \cup {NoJob}]
         /\ JobsFitPlace' /\ DraftsAreAnchored' /\ ApprovalsHaveDrafts'
BY DEF Inv, TypeOK, Release, PcLabels, JobsFitPlace, DigestedLabels, Digestible, Drafted,
   DraftsAreAnchored, ApprovalsHaveDrafts

\* A digested item yields a well-typed draft whose claims are all anchored.
LEMMA GeneratedIsTyped ==
  ASSUME NEW it \in Item, Digestible(it)
  PROVE  /\ DraftId(it) \in DraftIds /\ GeneratedDraft(it) \in Draft
         /\ GeneratedAnchors(it) \subseteq DraftIds \X Evidence
<1>1. DraftId(it) \in DraftIds
  BY DEF Item, Digestible, DraftId, DraftIds
<1> QED
  BY <1>1 DEF Item, GeneratedDraft, GeneratedAnchors, Draft

LEMMA PersistInv ==
  ASSUME Inv, NEW w \in Workers, PersistDraft(w)
  PROVE  Inv'
<1> DEFINE it == job[w]
           new == GeneratedDraft(it)
<1>1. /\ pc[w] = "cap_passed" /\ pc' = [pc EXCEPT ![w] = "draft_persisted"]
      /\ drafts' = IF Drafted(DraftId(it)) THEN drafts ELSE drafts \cup {new}
      /\ anchors' = anchors \cup GeneratedAnchors(it)
      /\ UNCHANGED <<items, known, approvals, events, job, aborts>>
  BY DEF PersistDraft, UpsertDraft, UpsertAnchors, Advance, GeneratedDraft
<1>2. it \in Item /\ Digestible(it)
  BY <1>1 DEF Inv, JobsFitPlace, DigestedLabels
<1>3. TypeOK'
  BY <1>1, <1>2, GeneratedIsTyped DEF Inv, TypeOK, PcLabels
<1>4. Drafted(DraftId(it))'
  <2>1. new.id = DraftId(it) /\ DraftId(it)' = DraftId(it)
    BY <1>1 DEF GeneratedDraft, DraftId
  <2>2. \E d \in drafts' : d.id = DraftId(it)
    BY <1>1, <2>1 DEF Drafted
  <2> QED
    BY <2>1, <2>2 DEF Drafted
<1>5. \A id : Drafted(id) => Drafted(id)'
  BY <1>1 DEF Drafted
<1>6. JobsFitPlace'
  BY <1>1, <1>4, <1>5 DEF Inv, TypeOK, JobsFitPlace, DigestedLabels, Digestible
<1>7. DraftsAreAnchored'
  BY <1>1, <1>2 DEF Inv, DraftsAreAnchored, GeneratedDraft, GeneratedAnchors, Digestible
<1>8. ApprovalsHaveDrafts'
  BY <1>1, <1>5 DEF Inv, ApprovalsHaveDrafts
<1>9. IsFiniteSet(drafts')
  BY <1>1, FS_AddElement DEF Inv
<1> QED
  BY <1>3, <1>6, <1>7, <1>8, <1>9 DEF Inv

LEMMA RequestInv ==
  ASSUME Inv, NEW w \in Workers, RequestApproval(w)
  PROVE  Inv'
<1> DEFINE id == DraftId(job[w])
<1>1. /\ pc[w] = "draft_persisted" /\ pc' = [pc EXCEPT ![w] = "approval_requested"]
      /\ events' = events \cup {<<job[w], GateEvent(job[w])>>}
      /\ id \in approvals' /\ approvals' = approvals \cup {id}
      /\ UNCHANGED <<items, known, drafts, anchors, job, aborts>>
  BY DEF RequestApproval, EnqueueApproval, Advance, SameApproval
<1>2. job[w] \in Item /\ Digestible(job[w]) /\ Drafted(id)
  BY <1>1 DEF Inv, JobsFitPlace, DigestedLabels
<1>3. TypeOK'
  BY <1>1, <1>2, GeneratedIsTyped DEF Inv, TypeOK, PcLabels, GateEvent, EventType
<1>4. JobsFitPlace'
  BY <1>1 DEF Inv, TypeOK, JobsFitPlace, DigestedLabels, Digestible, Drafted
<1>5. DraftsAreAnchored' /\ ApprovalsHaveDrafts'
  BY <1>1, <1>2 DEF Inv, DraftsAreAnchored, ApprovalsHaveDrafts, Drafted
<1> QED
  BY <1>1, <1>3, <1>4, <1>5 DEF Inv

LEMMA NextInv == Inv /\ [Next]_vars => Inv'
<1> SUFFICES ASSUME Inv, [Next]_vars
             PROVE  Inv'
  OBVIOUS
<1>1. ASSUME NEW w \in Workers, Refuse(w) \/ ParkAtCap(w) \/ Finish(w)
      PROVE  Inv'
  <2>1. job[w] \in Item
    BY <1>1 DEF Refuse, ParkAtCap, Finish, Inv, JobsFitPlace
  <2> QED
    BY <1>1, <2>1, ReleaseInv DEF Refuse, ParkAtCap, Finish, Close, Inv, TypeOK, EventType
<1>2. ASSUME NEW w \in Workers, Abort(w)
      PROVE  Inv'
  <2>1. aborts' \in 0..MaxAborts
    BY <1>2, DraftingAssumption DEF Abort, Inv, TypeOK
  <2> QED
    BY <1>2, <2>1, ReleaseInv DEF Abort, Inv, TypeOK
<1>3. ASSUME NEW w \in Workers, BuildDigest(w)
      PROVE  Inv'
  <2>1. job[w] \in Item
    BY <1>3 DEF BuildDigest, Advance, Inv, JobsFitPlace
  <2> QED
    BY <1>3, <2>1 DEF BuildDigest, Advance, Inv, TypeOK, PcLabels, EventType, JobsFitPlace,
       DigestedLabels, Digestible, Drafted, DraftsAreAnchored, ApprovalsHaveDrafts
<1>4. ASSUME NEW w \in Workers, PassCap(w)
      PROVE  Inv'
  BY <1>4 DEF PassCap, Advance, Inv, TypeOK, PcLabels, JobsFitPlace, DigestedLabels, Digestible,
     Drafted, DraftsAreAnchored, ApprovalsHaveDrafts
<1>5. ASSUME NEW w \in Workers, NEW it \in items, Begin(w, it)
      PROVE  Inv'
  BY <1>5 DEF Begin, Advance, Inv, TypeOK, PcLabels, JobsFitPlace, DigestedLabels, Digestible,
     Drafted, DraftsAreAnchored, ApprovalsHaveDrafts
<1>6. ASSUME NEW it \in Items, PostItem(it)
      PROVE  Inv'
  BY <1>6, DraftingAssumption DEF PostItem, Inv, TypeOK, JobsFitPlace, Digestible, Drafted,
     DraftsAreAnchored, ApprovalsHaveDrafts
<1>7. ASSUME NEW e \in Evidence, CaptureEvidence(e)
      PROVE  Inv'
  BY <1>7 DEF CaptureEvidence, Inv, TypeOK, JobsFitPlace, Digestible, Drafted,
     DraftsAreAnchored, ApprovalsHaveDrafts
<1>8. CASE UNCHANGED vars
  BY <1>8 DEF vars, Inv, TypeOK, JobsFitPlace, Digestible, Drafted, DraftsAreAnchored,
     ApprovalsHaveDrafts
<1> QED
  BY <1>1, <1>2, <1>3, <1>4, <1>5, <1>6, <1>7, <1>8, PersistInv, RequestInv DEF Next, WorkerStep

LEMMA InvAlways == Spec => []Inv
BY InitInv, NextInv, PTL DEF Spec

(***************************************************************************)
(* Tables, jobs and program counters of the copy_generate stage keep their *)
(* types.                                                                  *)
(***************************************************************************)
THEOREM DraftingTypeCorrect == Spec => []TypeOK
BY InvAlways, PTL DEF Inv

(***************************************************************************)
(* A reviewer is asked only about persisted drafts, all of whose claims    *)
(* are anchored to evidence that exists.                                   *)
(***************************************************************************)
THEOREM ReviewsAreAnchored == Spec => []ReviewedDraftsAreAnchored
<1>1. Inv => ReviewedDraftsAreAnchored
  BY DEF Inv, DraftsAreAnchored, ApprovalsHaveDrafts, Drafted, ReviewedDraftsAreAnchored
<1> QED
  BY <1>1, InvAlways, PTL

(***************************************************************************)
(* A completed item has its draft and its approval request, through any    *)
(* number of aborts, repeats and items for the same draft.                 *)
(***************************************************************************)
THEOREM CompletedIsReviewable == Spec => []CompletedMeansReviewable
<1> DEFINE Reviewable(it) == Drafted(DraftId(it)) /\ DraftId(it) \in approvals
           Done == \A it \in Item : <<it, "work_item_completed">> \in events => Reviewable(it)
<1>1. Init => Done
  BY DEF Init
<1>2. Inv /\ Done /\ [Next]_vars => Done'
  <2> SUFFICES ASSUME Inv, Done, [Next]_vars
               PROVE  Done'
    OBVIOUS
  <2>1. drafts \subseteq drafts' /\ approvals \subseteq approvals'
    BY DEF Next, WorkerStep, Refuse, BuildDigest, PassCap, ParkAtCap, PersistDraft,
       UpsertDraft, RequestApproval, EnqueueApproval, Finish, Abort, Begin, PostItem, CaptureEvidence, vars
  <2>2. \A it \in Item : Reviewable(it) => Reviewable(it)'
    BY <2>1 DEF Drafted, DraftId
  <2>3. ASSUME NEW w \in Workers, Finish(w)
        PROVE  Done'
    <3>1. Reviewable(job[w]) /\ events' = events \cup {<<job[w], "work_item_completed">>}
      BY <2>3 DEF Finish, Close, Inv, JobsFitPlace
    <3> QED
      BY <2>2, <3>1
  <2>4. ASSUME \A it \in Item :
                 <<it, "work_item_completed">> \in events' => <<it, "work_item_completed">> \in events
        PROVE  Done'
    BY <2>2, <2>4
  <2>5. ASSUME NEW w \in Workers, WorkerStep(w), ~Finish(w)
        PROVE  Done'
    BY <2>4, <2>5 DEF WorkerStep, Refuse, BuildDigest, PassCap, ParkAtCap, PersistDraft,
       RequestApproval, GateEvent, Close
  <2>6. CASE ~\E w \in Workers : WorkerStep(w)
    BY <2>4, <2>6 DEF Next, Abort, Begin, PostItem, CaptureEvidence, vars
  <2> QED
    BY <2>3, <2>5, <2>6
<1>3. Inv /\ Done => CompletedMeansReviewable
  BY DEF Inv, TypeOK, CompletedMeansReviewable
<1> QED
  BY <1>1, <1>2, <1>3, InvAlways, PTL DEF Spec

(***************************************************************************)
(* No step changes or removes a draft.                                     *)
(***************************************************************************)
THEOREM TextsAreStable == Spec => DraftsKeepTheirText
<1>1. [Next]_vars => drafts \subseteq drafts'
  BY DEF Next, WorkerStep, Refuse, BuildDigest, PassCap, ParkAtCap, PersistDraft,
     UpsertDraft, RequestApproval, EnqueueApproval, Finish, Abort, Begin, PostItem, CaptureEvidence, vars
<1> QED
  BY <1>1, PTL DEF Spec, DraftsKeepTheirText

-----------------------------------------------------------------------------
(***************************************************************************)
(* The draft cap as a counted cap.                                         *)
(***************************************************************************)
CapProofs == INSTANCE CountedCap_proofs WITH
  Keys <- Contacts, Cap <- MaxDraftsPerContact, MaxGrant <- 1,
  members <- Members, granted <- Granted

\* Each instance has definitions of its own of what finite sets are, and they are the same.
LEMMA SameCardinality ==
  \A S : /\ DraftCap!Cardinality(S) = Cardinality(S)
         /\ CapProofs!Cardinality(S) = Cardinality(S)
         /\ DraftCap!IsFiniteSet(S) <=> IsFiniteSet(S)
         /\ CapProofs!IsFiniteSet(S) <=> IsFiniteSet(S)
BY DEF DraftCap!Cardinality, CapProofs!Cardinality, Cardinality,
   DraftCap!IsFiniteSet, CapProofs!IsFiniteSet, IsFiniteSet

LEMMA DraftsAreFinite ==
  ASSUME IsFiniteSet(drafts)
  PROVE  \A c : IsFiniteSet(DraftsOf(c)) /\ Cardinality(DraftsOf(c)) \in Nat
<1>1. \A c : DraftsOf(c) \subseteq drafts
  BY DEF DraftsOf
<1> QED
  BY <1>1, FS_Subset, FS_CardinalityType

LEMMA InitCounts == Init => DraftCap!Init
<1> SUFFICES ASSUME Init
             PROVE  DraftCap!Init
  OBVIOUS
<1>1. \A c : DraftsOf(c) = {} /\ InFlight(c) = {}
  BY DEF Init, DraftsOf, InFlight
<1>2. Members = [c \in Contacts |-> {}] /\ Granted = [c \in Contacts |-> [w \in Workers |-> 0]]
  BY <1>1 DEF Members, Granted
<1> QED
  BY <1>2 DEF DraftCap!Init, Members, Granted

\* A worker that comes to fly for a contact, or no longer does, changes one grant.
LEMMA OneGrant ==
  ASSUME NEW c \in Contacts, NEW w \in Workers, NEW n \in {0, 1},
         \A k \in Contacts, u \in Workers :
           (u \in InFlight(k)') <=> IF k = c /\ u = w THEN n = 1 ELSE u \in InFlight(k)
  PROVE  Granted' = [Granted EXCEPT ![c][w] = n]
<1> DEFINE G == [Granted EXCEPT ![c][w] = n]
<1>1. \A k \in Contacts, u \in Workers : Granted'[k][u] = IF u \in InFlight(k)' THEN 1 ELSE 0
  BY DEF Granted
<1>2. \A k \in Contacts, u \in Workers :
        G[k][u] = IF k = c /\ u = w THEN n ELSE IF u \in InFlight(k) THEN 1 ELSE 0
  BY DEF Granted
<1>3. /\ Granted' = [k \in Contacts |-> [u \in Workers |-> Granted'[k][u]]]
      /\ G = [k \in Contacts |-> [u \in Workers |-> G[k][u]]]
  BY DEF Granted
<1>4. \A k \in Contacts, u \in Workers : Granted'[k][u] = G[k][u]
  BY <1>1, <1>2
<1> QED
  BY <1>3, <1>4

LEMMA PassCapCounts ==
  ASSUME Inv, NEW w \in Workers, PassCap(w)
  PROVE  DraftCap!Next
<1> DEFINE c == job[w].contact
<1>1. /\ pc[w] = "digest_built" /\ pc' = [pc EXCEPT ![w] = "cap_passed"]
      /\ UnderCap(c) /\ UNCHANGED <<drafts, job>>
  BY DEF PassCap, Advance
<1>2. c \in Contacts
  BY <1>1 DEF Inv, JobsFitPlace, DigestedLabels, Digestible
<1>3. Members' = Members
  BY <1>1 DEF Members, DraftsOf
<1>4. Granted' = [Granted EXCEPT ![c][w] = 1]
  <2>1. \A k \in Contacts, u \in Workers :
          (u \in InFlight(k)') <=> IF k = c /\ u = w THEN 1 = 1 ELSE u \in InFlight(k)
    BY <1>1 DEF InFlight, Inv, TypeOK
  <2> QED
    BY <1>2, <2>1, OneGrant
<1>5. Cardinality(Members[c]) + 1 <= MaxDraftsPerContact
  BY <1>1, <1>2, DraftsAreFinite, DraftingAssumption DEF Members, UnderCap, Inv
<1>6. DraftCap!Count(c, w)
  BY <1>3, <1>4, <1>5, SameCardinality DEF DraftCap!Count
<1> QED
  BY <1>2, <1>6 DEF DraftCap!Next

\* The new draft, if there is one, is the contact's own, and the worker flies no more.
LEMMA PersistCounts ==
  ASSUME Inv, NEW w \in Workers, PersistDraft(w)
  PROVE  DraftCap!Next
<1> DEFINE c == job[w].contact
           new == GeneratedDraft(job[w])
<1>1. /\ pc[w] = "cap_passed" /\ pc' = [pc EXCEPT ![w] = "draft_persisted"]
      /\ drafts' = drafts \/ drafts' = drafts \cup {new}
      /\ UNCHANGED job
  BY DEF PersistDraft, UpsertDraft, UpsertAnchors, Advance
<1>2. c \in Contacts /\ new.id[1] = c
  BY <1>1 DEF Inv, JobsFitPlace, DigestedLabels, Digestible, GeneratedDraft, DraftId
<1>3. Granted' = [Granted EXCEPT ![c][w] = 0] /\ Granted[c][w] = 1
  <2>1. \A k \in Contacts, u \in Workers :
          (u \in InFlight(k)') <=> IF k = c /\ u = w THEN 0 = 1 ELSE u \in InFlight(k)
    BY <1>1 DEF InFlight, Inv, TypeOK
  <2>2. w \in InFlight(c)
    BY <1>1 DEF InFlight
  <2> QED
    BY <1>2, <2>1, <2>2, OneGrant DEF Granted
<1> HIDE DEF new
<1>4. \A k \in Contacts \ {c} : Members'[k] = Members[k]
  BY <1>1, <1>2 DEF Members, DraftsOf
<1>5. Members[c] \subseteq Members'[c] /\ Members'[c] \ Members[c] \subseteq {new}
  BY <1>1, <1>2 DEF Members, DraftsOf
<1>6. IsFiniteSet(Members'[c])
  <2>1. IsFiniteSet(drafts')
    BY <1>1, FS_AddElement DEF Inv
  <2>2. Members'[c] \in SUBSET drafts'
    BY <1>2 DEF Members, DraftsOf
  <2> QED
    BY <2>1, <2>2, FS_Subset
<1>7. Members' = [Members EXCEPT ![c] = Members'[c]]
  BY <1>2, <1>4 DEF Members
<1>8. Cardinality(Members'[c] \ Members[c]) <= 1
  <2>1. /\ IsFiniteSet({new}) /\ Cardinality({new}) = 1
        /\ Cardinality(Members'[c] \ Members[c]) <= Cardinality({new})
    BY <1>5, FS_Singleton, FS_Subset
  <2> QED
    BY <2>1
<1>9. DraftCap!Spend(c, w)
  BY <1>3, <1>5, <1>6, <1>7, <1>8, SameCardinality DEF DraftCap!Spend
<1> QED
  BY <1>2, <1>9 DEF DraftCap!Next

\* A job that dies in flight gives its grant up; one that dies elsewhere has none.
LEMMA AbortCounts ==
  ASSUME Inv, NEW w \in Workers, Abort(w)
  PROVE  DraftCap!Next \/ UNCHANGED <<Members, Granted>>
<1> DEFINE c == job[w].contact
<1>1. /\ pc' = [pc EXCEPT ![w] = "idle"] /\ job' = [job EXCEPT ![w] = NoJob]
      /\ UNCHANGED drafts
  BY DEF Abort, Release
<1>2. Members' = Members
  BY <1>1 DEF Members, DraftsOf
<1>3. CASE pc[w] = "cap_passed"
  <2>1. c \in Contacts
    BY <1>3 DEF Inv, JobsFitPlace, DigestedLabels, Digestible
  <2>2. \A k \in Contacts, u \in Workers :
          (u \in InFlight(k)') <=> IF k = c /\ u = w THEN 0 = 1 ELSE u \in InFlight(k)
    BY <1>1 DEF InFlight, Inv, TypeOK
  <2>3. Granted' = [Granted EXCEPT ![c][w] = 0] /\ Granted[c][w] \in {0, 1}
    BY <2>1, <2>2, OneGrant DEF Granted
  <2>4. Members'[c] \ Members[c] = {} /\ Members' = [Members EXCEPT ![c] = Members'[c]]
    BY <1>2, <2>1 DEF Members
  <2>5. Cardinality(Members'[c] \ Members[c]) <= Granted[c][w]
    BY <2>3, <2>4, FS_EmptySet
  <2>6. IsFiniteSet(Members[c])
    BY <2>1, DraftsAreFinite DEF Members, Inv
  <2>7. DraftCap!Spend(c, w)
    BY <1>2, <2>3, <2>4, <2>5, <2>6, SameCardinality DEF DraftCap!Spend
  <2> QED
    BY <2>1, <2>7 DEF DraftCap!Next
<1>4. CASE pc[w] # "cap_passed"
  <2>1. \A k \in Contacts : InFlight(k)' = InFlight(k)
    BY <1>1, <1>4 DEF InFlight, Inv, TypeOK
  <2> QED
    BY <1>2, <2>1 DEF Granted
<1> QED
  BY <1>3, <1>4

LEMMA StepCounts ==
  Inv /\ [Next]_vars => DraftCap!Next \/ UNCHANGED <<Members, Granted>>
<1> SUFFICES ASSUME Inv, [Next]_vars,
                    ~\E w \in Workers : PassCap(w) \/ PersistDraft(w) \/ Abort(w)
             PROVE  UNCHANGED <<Members, Granted>>
  BY PassCapCounts, PersistCounts, AbortCounts
<1>1. UNCHANGED drafts
  BY DEF Next, WorkerStep, Refuse, BuildDigest, ParkAtCap, RequestApproval, Finish, Begin,
     PostItem, CaptureEvidence, vars
<1>2. \A u \in Workers : /\ (pc'[u] = "cap_passed") <=> (pc[u] = "cap_passed")
                         /\ pc[u] = "cap_passed" => job'[u] = job[u]
  BY DEF Next, WorkerStep, Refuse, BuildDigest, ParkAtCap, RequestApproval, Finish, Begin,
     PostItem, CaptureEvidence, Close, Release, Advance, Inv, TypeOK, vars
<1>3. \A k \in Contacts : InFlight(k)' = InFlight(k)
  BY <1>2 DEF InFlight
<1> QED
  BY <1>1, <1>3 DEF Members, Granted, DraftsOf

(***************************************************************************)
(* copy_generate keeps its cap as a counted cap is kept: a draft is written *)
(* on the room that its own job's check found, and at most one on each.    *)
(***************************************************************************)
THEOREM DraftingImplementsCountedCap == Spec => ImplementsDraftCap
<1>1. Inv /\ [Next]_vars => [DraftCap!Next]_<<Members, Granted>>
  BY StepCounts
<1> QED
  BY <1>1, InitCounts, InvAlways, PTL DEF Spec, ImplementsDraftCap, DraftCap!Spec

(***************************************************************************)
(* Racing workers exceed the draft cap of a contact by fewer drafts than   *)
(* there are workers, for any cap and any items.                           *)
(***************************************************************************)
THEOREM DraftOvershootIsBounded == Spec => []DraftCapOvershootBounded
<1>1. CapProofs!CapAssumption
  BY DraftingAssumption, SameCardinality DEF CapProofs!CapAssumption
<1>2. DraftCap!Init => CapProofs!Init
  BY DEF DraftCap!Init, CapProofs!Init
<1>3. [DraftCap!Next]_<<Members, Granted>> => [CapProofs!Next]_<<Members, Granted>>
  BY SameCardinality DEF DraftCap!Next, DraftCap!Count, DraftCap!Spend, CapProofs!Next,
     CapProofs!Count, CapProofs!Spend
<1>4. Inv /\ CapProofs!OvershootBounded => DraftCapOvershootBounded
  <2>1. Cardinality(Workers) \in Nat
    BY FS_CardinalityType, DraftingAssumption
  <2> SUFFICES ASSUME Inv, CapProofs!OvershootBounded, NEW c \in Contacts
               PROVE  Cardinality(DraftsOf(c)) < MaxDraftsPerContact + Cardinality(Workers)
    BY DEF DraftCapOvershootBounded
  <2>2. Cardinality(DraftsOf(c)) <= MaxDraftsPerContact + 1 * (Cardinality(Workers) - 1)
    BY SameCardinality DEF CapProofs!OvershootBounded, Members
  <2>3. Cardinality(DraftsOf(c)) \in Nat
    BY DraftsAreFinite DEF Inv
  <2> QED
    BY <2>1, <2>2, <2>3, DraftingAssumption
<1>5. CapProofs!Spec => []CapProofs!OvershootBounded
  BY <1>1, CapProofs!CountingBoundsOvershoot
<1> QED
  BY <1>2, <1>3, <1>4, <1>5, DraftingImplementsCountedCap, InvAlways, PTL
     DEF ImplementsDraftCap, DraftCap!Spec, CapProofs!Spec
=============================================================================
