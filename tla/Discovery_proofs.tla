--------------------------- MODULE Discovery_proofs ----------------------------
(***************************************************************************)
(* Proofs about Discovery: type correctness; tables that fit together      *)
(* whatever breaks off a run; accounts that do not depend on the order of  *)
(* what they were offered; rows that create no more than they pay for.     *)
(***************************************************************************)
EXTENDS Discovery, SequenceTheorems, TLAPS

USE DEF tables, locals, history

-----------------------------------------------------------------------------
(***************************************************************************)
(* Types, and jobs that fit their place.                                   *)
(***************************************************************************)
Fits == TypeOK /\ JobsFitPlace

LEMMA SeesTyped ==
  ASSUME TypeOK, NEW w \in Workers, NEW k \in Ids
  PROVE  Sees(w, k) \in Account \cup {NoAccount}
BY DEF TypeOK, Draft, Sees

LEMMA CanonicalIdTyped ==
  ASSUME NEW c \in Candidate
  PROVE  CanonicalId(c) \in Ids
BY DEF CanonicalId, Candidate, Ids

LEMMA ResolutionsTyped ==
  ASSUME NEW w \in Workers, NEW c \in Candidate, NEW k \in Resolutions(w, c)
  PROVE  k \in Ids
<1>1. ASSUME NEW x
      PROVE  Matches(w, x) \subseteq Ids
  BY DEF Matches
<1> QED
  BY <1>1, CanonicalIdTyped DEF Resolutions

LEMMA HeadTyped ==
  ASSUME TypeOK, NEW w \in Workers, todo[w] # <<>>
  PROVE  Head(todo[w]) \in Candidate /\ Tail(todo[w]) \in Seq(Candidate)
BY HeadTailProperties DEF TypeOK

LEMMA NoDraftTyped == NoDraft \in Draft
BY DEF NoDraft, Draft

LEMMA InitFits == Init => Fits
<1> SUFFICES ASSUME Init
             PROVE  Fits
  OBVIOUS
<1>1. TypeOK
  BY DiscoveryAssumption, NoDraftTyped DEF Init, TypeOK, PcLabels, Outcomes
<1>2. \A w \in Workers : JobFits(w)
  BY DiscoveryAssumption DEF Init, JobFits, OpenLabels
<1> QED
  BY <1>1, <1>2 DEF Fits, JobsFitPlace

\* Accounts are not deleted.
Kept == \A k \in Ids : accounts[k] # NoAccount => accounts'[k] # NoAccount

\* A job that a step leaves alone still fits.
LEMMA StillFits ==
  ASSUME Fits, NEW v \in Workers, Kept,
         pc'[v] = pc[v], job'[v] = job[v], todo'[v] = todo[v],
         target'[v] = target[v], base'[v] = base[v], draft'[v] = draft[v], made'[v] = made[v]
  PROVE  JobFits(v)'
<1>1. JobFits(v)
  BY DEF Fits, JobsFitPlace
<1>2. pc[v] = "read" => target[v] \in Ids
  BY <1>1 DEF JobFits, Fits, TypeOK, Draft
<1> QED
  BY <1>1, <1>2 DEF JobFits, Sees, Kept

LEMMA ReleaseFits ==
  ASSUME Fits, NEW w \in Workers, Release(w),
         UNCHANGED <<items, budget>>,
         accounts' \in [Ids -> Account \cup {NoAccount}], aliases' \subseteq Ids \X Ids,
         evidence' \subseteq Evidence, scorings' \subseteq Ids \X Queries,
         events' \subseteq Items \X Outcomes, aborts' \in 0..MaxAborts,
         offered' \subseteq Offer,
         raced' \subseteq Ids, posted' \subseteq Offer, created' \in [Items -> Nat],
         shared' \subseteq Items, cut' \subseteq Items, Kept
  PROVE  Fits'
<1>1. TypeOK'
  BY NoDraftTyped DEF Fits, TypeOK, Release, PcLabels, Outcomes
<1>2. ASSUME NEW v \in Workers
      PROVE  JobFits(v)'
  <2>1. CASE v = w
    BY <2>1, DiscoveryAssumption DEF JobFits, Release, OpenLabels, Fits, TypeOK
  <2>2. CASE v # w
    BY <2>2, StillFits DEF Release, Fits, TypeOK
  <2> QED
    BY <2>1, <2>2
<1> QED
  BY <1>1, <1>2 DEF Fits, JobsFitPlace

LEMMA CommitTyped ==
  ASSUME Fits, NEW w \in Workers, NEW ids \in SUBSET Evidence, CommitDraft(w, ids), pc[w] # "idle"
  PROVE  /\ accounts' \in [Ids -> Account \cup {NoAccount}] /\ aliases' \subseteq Ids \X Ids
         /\ evidence' \subseteq Evidence /\ scorings' \subseteq Ids \X Queries
         /\ offered' \subseteq Offer
         /\ created' \in [Items -> Nat]
         /\ Kept
<1>1. accounts' \in [Ids -> Account \cup {NoAccount}]
  BY SeesTyped DEF CommitDraft, Fits
<1>2. draft[w] \in Draft
  BY DEF Fits, TypeOK
<1>3. created' \in [Items -> Nat]
  <2>1. job[w] \in Items /\ made[w] \in Nat /\ created[job[w]] \in Nat
    BY DEF Fits, TypeOK, JobsFitPlace, JobFits
  <2> QED
    BY <2>1 DEF CommitDraft, Fits, TypeOK
<1> QED
  BY <1>1, <1>2, <1>3 DEF CommitDraft, Draft, Fits, TypeOK, Kept, Sees

\* Steps that close a row without a commit of the service.
LEMMA CloseFits ==
  ASSUME Fits, NEW w \in Workers,
         Refuse(w) \/ ParkExhausted(w) \/ FailAdapter(w) \/ Finish(w)
  PROVE  Fits'
<1>1. PICK code \in Outcomes : /\ Close(w, code) /\ pc[w] # "idle"
                               /\ UNCHANGED <<items, budget, accounts, aliases, evidence, scorings,
                                              aborts, history>>
  <2>1. CASE Refuse(w) \/ ParkExhausted(w)
    BY <2>1 DEF Refuse, ParkExhausted, Outcomes
  <2>2. CASE FailAdapter(w)
    BY <2>2 DEF FailAdapter, Outcomes
  <2>3. CASE Finish(w)
    BY <2>3 DEF Finish, Fits, TypeOK
  <2> QED
    BY <2>1, <2>2, <2>3
<1>2. job[w] \in Items
  BY <1>1 DEF Fits, JobsFitPlace, JobFits
<1>3. events' \subseteq Items \X Outcomes
  BY <1>1, <1>2 DEF Close, Fits, TypeOK
<1>4. /\ Release(w)
      /\ UNCHANGED <<items, budget, accounts, aliases, evidence, scorings, aborts, offered, raced,
                     posted, created, shared, cut>>
  BY <1>1 DEF Close
<1>5. /\ accounts' \in [Ids -> Account \cup {NoAccount}] /\ aliases' \subseteq Ids \X Ids
      /\ evidence' \subseteq Evidence /\ scorings' \subseteq Ids \X Queries
      /\ aborts' \in 0..MaxAborts
      /\ offered' \subseteq Offer
      /\ raced' \subseteq Ids /\ posted' \subseteq Offer /\ created' \in [Items -> Nat]
      /\ shared' \subseteq Items /\ cut' \subseteq Items /\ Kept
  BY <1>4 DEF Fits, TypeOK, Kept
<1> QED
  BY <1>3, <1>4, <1>5, ReleaseFits

LEMMA EndFits ==
  ASSUME Fits, NEW w \in Workers, Deadlock(w) \/ Abort(w)
  PROVE  Fits'
<1>1. /\ Release(w)
      /\ UNCHANGED <<items, budget, accounts, aliases, evidence, scorings, events, offered, raced,
                     posted, created>>
  BY DEF Deadlock, Abort
<1>2. aborts' \in 0..MaxAborts
  BY DiscoveryAssumption DEF Deadlock, Abort, Fits, TypeOK
<1>3. shared' \subseteq Items /\ cut' \subseteq Items
  BY DEF Deadlock, Abort, Fits, TypeOK, JobsFitPlace, JobFits
<1>4. /\ accounts' \in [Ids -> Account \cup {NoAccount}] /\ aliases' \subseteq Ids \X Ids
      /\ evidence' \subseteq Evidence /\ scorings' \subseteq Ids \X Queries
      /\ events' \subseteq Items \X Outcomes
      /\ offered' \subseteq Offer
      /\ raced' \subseteq Ids /\ posted' \subseteq Offer /\ created' \in [Items -> Nat]
      /\ Kept
  BY <1>1 DEF Fits, TypeOK, Kept
<1> QED
  BY <1>1, <1>2, <1>3, <1>4, ReleaseFits

LEMMA FaultTyped ==
  ASSUME Fits, NEW w \in Workers, pc[w] = "read"
  PROVE  FaultOf(w) \in {"none", "contract_error", "transient_error"}
BY HeadTyped DEF Fits, JobsFitPlace, JobFits, FaultOf, Candidate

LEMMA BreakOffFits ==
  ASSUME Fits, NEW w \in Workers, BreakOff(w)
  PROVE  Fits'
<1>1. /\ CommitDraft(w, Head(todo[w]).evidence) /\ Release(w) /\ pc[w] = "read"
      /\ UNCHANGED <<items, budget, aborts, raced, posted, shared, cut>>
      /\ events' = events \cup {<<job[w], FaultOf(w)>>} /\ FaultOf(w) # "none"
  BY DEF BreakOff, Close
<1>2. job[w] \in Items /\ FaultOf(w) \in Outcomes
  BY <1>1, FaultTyped DEF Fits, JobsFitPlace, JobFits, Outcomes
<1>3. events' \subseteq Items \X Outcomes
  BY <1>1, <1>2 DEF Fits, TypeOK
<1>4. aborts' \in 0..MaxAborts /\ raced' \subseteq Ids /\ posted' \subseteq Offer
      /\ shared' \subseteq Items /\ cut' \subseteq Items
  BY <1>1 DEF Fits, TypeOK
<1>5. Head(todo[w]).evidence \in SUBSET Evidence
  BY <1>1, HeadTyped DEF Fits, JobsFitPlace, JobFits, Candidate
<1>6. /\ accounts' \in [Ids -> Account \cup {NoAccount}] /\ aliases' \subseteq Ids \X Ids
      /\ evidence' \subseteq Evidence /\ scorings' \subseteq Ids \X Queries
      /\ offered' \subseteq Offer /\ created' \in [Items -> Nat]
      /\ Kept
  BY <1>1, <1>5, CommitTyped
<1> QED
  BY <1>1, <1>3, <1>4, <1>6, ReleaseFits

LEMMA ConcludeFits ==
  ASSUME Fits, NEW w \in Workers, Conclude(w)
  PROVE  Fits'
<1>1. /\ CommitDraft(w, {}) /\ pc[w] = "listed" /\ pc' = [pc EXCEPT ![w] = "committed"]
      /\ draft' = [draft EXCEPT ![w] = NoDraft] /\ made' = [made EXCEPT ![w] = 0]
      /\ \E code \in {"ok", "no_signal", "budget_exhausted"} :
           outcome' = [outcome EXCEPT ![w] = code]
      /\ UNCHANGED <<items, budget, events, job, loaded, todo, target, base, aborts, raced,
                     posted, shared, cut>>
  BY DEF Conclude, Advance
<1>2. outcome' \in [Workers -> Outcomes]
  BY <1>1 DEF Fits, TypeOK, Outcomes
<1>3. TypeOK'
  BY <1>1, <1>2, CommitTyped, NoDraftTyped DEF Fits, TypeOK, PcLabels
<1>4. ASSUME NEW v \in Workers
      PROVE  JobFits(v)'
  <2>1. CASE v = w
    BY <1>1, <2>1, DiscoveryAssumption DEF JobFits, OpenLabels, Fits, TypeOK, JobsFitPlace
  <2>2. CASE v # w
    BY <1>1, <2>2, CommitTyped, StillFits DEF Fits, TypeOK
  <2> QED
    BY <2>1, <2>2
<1> QED
  BY <1>3, <1>4 DEF Fits, JobsFitPlace

\* What a posting makes of the account it names.
LEMMA PostEffect ==
  ASSUME Fits, NEW p \in Posted, PostAccount(p)
  PROVE  \E k \in Ids, x \in Account, o \in Offer :
           /\ o.account = k /\ o.source = x.source /\ o.evidence = x.evidence
           /\ accounts[k] = NoAccount /\ x # NoAccount
           /\ accounts' = [accounts EXCEPT ![k] = x]
           /\ posted' = posted \cup {o}
           /\ aliases \subseteq aliases' /\ aliases' \subseteq Ids \X Ids
           /\ \A a \in aliases' \ aliases : a[1] = k
           /\ raced' = IF InHand(k) THEN raced \cup {k} ELSE raced
           /\ UNCHANGED <<items, budget, evidence, scorings, events, pc, job, locals, aborts,
                          offered, created, shared, cut>>
<1>1. p \in Posting
  BY DiscoveryAssumption
<1>2. /\ p.account \in Ids /\ p.source \in Source /\ p.evidence \in SUBSET Evidence
      /\ p.keys \in SUBSET Ids
  BY <1>1 DEF Posting, Ids
<1>3. PICK x \in Account : /\ x = [source |-> p.source, evidence |-> p.evidence]
                           /\ x.source = p.source /\ x.evidence = p.evidence
  <2>1. [source |-> p.source, evidence |-> p.evidence] \in Account
    BY <1>2 DEF Account
  <2> QED
    BY <2>1
<1>4. PICK o \in Offer :
        /\ o = [source |-> p.source, evidence |-> p.evidence, account |-> p.account]
        /\ o.source = p.source /\ o.evidence = p.evidence /\ o.account = p.account
  <2>1. [source |-> p.source, evidence |-> p.evidence, account |-> p.account] \in Offer
    BY <1>2 DEF Offer
  <2> QED
    BY <2>1
<1>5. x # NoAccount
  BY DiscoveryAssumption
<1>6. aliases' \subseteq Ids \X Ids /\ aliases \subseteq aliases'
      /\ \A a \in aliases' \ aliases : a[1] = p.account
  BY <1>2 DEF PostAccount, Fits, TypeOK
<1>7. accounts' = [accounts EXCEPT ![p.account] = x] /\ posted' = posted \cup {o}
  BY <1>3, <1>4 DEF PostAccount
<1>8. /\ accounts[p.account] = NoAccount
      /\ raced' = IF InHand(p.account) THEN raced \cup {p.account} ELSE raced
      /\ UNCHANGED <<items, budget, evidence, scorings, events, pc, job, locals, aborts,
                     offered, created, shared, cut>>
  BY DEF PostAccount
<1> HIDE DEF locals
<1> QED
  BY <1>2, <1>3, <1>4, <1>5, <1>6, <1>7, <1>8

LEMMA PostFits ==
  ASSUME Fits, NEW p \in Posted, PostAccount(p)
  PROVE  Fits'
<1>1. PICK k \in Ids, x \in Account, o \in Offer :
        /\ accounts[k] = NoAccount /\ x # NoAccount
        /\ accounts' = [accounts EXCEPT ![k] = x] /\ posted' = posted \cup {o}
        /\ aliases' \subseteq Ids \X Ids
        /\ raced' = IF InHand(k) THEN raced \cup {k} ELSE raced
        /\ UNCHANGED <<items, budget, evidence, scorings, events, pc, job, locals, aborts,
                       offered, created, shared, cut>>
  BY PostEffect
<1>2. accounts' \in [Ids -> Account \cup {NoAccount}]
  BY <1>1 DEF Fits, TypeOK
<1>3. TypeOK'
  BY <1>1, <1>2 DEF Fits, TypeOK
<1>4. Kept
  BY <1>1 DEF Fits, TypeOK, Kept
<1>5. ASSUME NEW v \in Workers
      PROVE  JobFits(v)'
  BY <1>1, <1>4, StillFits
<1> QED
  BY <1>3, <1>5 DEF Fits, JobsFitPlace

LEMMA BeginFits ==
  ASSUME Fits, NEW w \in Workers, NEW it \in items, Begin(w, it)
  PROVE  Fits'
<1>1. it \in Items
  BY DEF Fits, TypeOK
<1>2. TypeOK'
  BY <1>1 DEF Begin, Advance, Fits, TypeOK, PcLabels
<1>3. ASSUME NEW v \in Workers
      PROVE  JobFits(v)'
  <2>1. CASE v = w
    BY <1>1, <2>1 DEF Begin, Advance, Fits, TypeOK, JobsFitPlace, JobFits, OpenLabels
  <2>2. CASE v # w
    BY <2>2, StillFits DEF Kept, Begin, Advance, Fits, TypeOK
  <2> QED
    BY <2>1, <2>2
<1> QED
  BY <1>2, <1>3 DEF Fits, JobsFitPlace

LEMMA SpendFits ==
  ASSUME Fits, NEW w \in Workers, SpendAttempt(w)
  PROVE  Fits'
<1>1. loaded[w] - 1 \in Nat
  BY DEF SpendAttempt, Fits, TypeOK
<1>2. TypeOK'
  BY <1>1 DEF SpendAttempt, Advance, Fits, TypeOK, PcLabels
<1>3. ASSUME NEW v \in Workers
      PROVE  JobFits(v)'
  <2>1. CASE v = w
    BY <2>1 DEF SpendAttempt, Advance, Fits, TypeOK, JobsFitPlace, JobFits, OpenLabels
  <2>2. CASE v # w
    BY <2>2, StillFits DEF Kept, SpendAttempt, Advance, Fits, TypeOK
  <2> QED
    BY <2>1, <2>2
<1> QED
  BY <1>2, <1>3 DEF Fits, JobsFitPlace

LEMMA AskFits ==
  ASSUME Fits, NEW w \in Workers, AskAdapter(w)
  PROVE  Fits'
<1>1. PICK answer \in Answers[job[w].query] : todo' = [todo EXCEPT ![w] = answer]
  BY DEF AskAdapter
<1>2. answer \in Seq(Candidate)
  BY <1>1, DiscoveryAssumption DEF AskAdapter
<1>3. TypeOK'
  BY <1>1, <1>2 DEF AskAdapter, Advance, Fits, TypeOK, PcLabels
<1>4. ASSUME NEW v \in Workers
      PROVE  JobFits(v)'
  <2>1. CASE v = w
    BY <2>1 DEF AskAdapter, Advance, Fits, TypeOK, JobsFitPlace, JobFits, OpenLabels
  <2>2. CASE v # w
    BY <1>1, <2>2, StillFits DEF Kept, AskAdapter, Advance, Fits, TypeOK
  <2> QED
    BY <2>1, <2>2
<1> QED
  BY <1>3, <1>4 DEF Fits, JobsFitPlace

\* What a resolution changes.
LEMMA ResolveEffect ==
  ASSUME Fits, NEW w \in Workers, Resolve(w)
  PROVE  \E k \in Resolutions(w, Head(todo[w])) :
           /\ k \in Ids /\ todo[w] # <<>> /\ made[w] < MaxAccounts
           /\ pc[w] = "listed" /\ pc' = [pc EXCEPT ![w] = "read"]
           /\ target' = [target EXCEPT ![w] = k]
           /\ base' = [base EXCEPT ![w] = Sees(w, k)]
           /\ draft' = [draft EXCEPT ![w] = [draft[w] EXCEPT !.touched = @ \cup {k}]]
           /\ raced' = IF \E v \in Workers \ {w} : k \in draft[v].touched
                       THEN raced \cup {k} ELSE raced
           /\ UNCHANGED <<tables, job, loaded, todo, made, outcome, aborts, offered, posted,
                          created, shared, cut>>
<1>1. todo[w] # <<>> /\ made[w] < MaxAccounts /\ pc[w] = "listed"
      /\ pc' = [pc EXCEPT ![w] = "read"]
  BY DEF Resolve, More, Advance
<1>2. Head(todo[w]) \in Candidate
  BY <1>1, HeadTyped DEF Fits
<1> QED
  BY <1>1, <1>2, ResolutionsTyped DEF Resolve

LEMMA ResolveFits ==
  ASSUME Fits, NEW w \in Workers, Resolve(w)
  PROVE  Fits'
<1>1. PICK k \in Resolutions(w, Head(todo[w])) :
           /\ k \in Ids /\ todo[w] # <<>> /\ made[w] < MaxAccounts
           /\ pc[w] = "listed" /\ pc' = [pc EXCEPT ![w] = "read"]
           /\ target' = [target EXCEPT ![w] = k]
           /\ base' = [base EXCEPT ![w] = Sees(w, k)]
           /\ draft' = [draft EXCEPT ![w] = [draft[w] EXCEPT !.touched = @ \cup {k}]]
           /\ raced' = IF \E v \in Workers \ {w} : k \in draft[v].touched
                       THEN raced \cup {k} ELSE raced
           /\ UNCHANGED <<tables, job, loaded, todo, made, outcome, aborts, offered, posted,
                          created, shared, cut>>
  BY ResolveEffect
<1> DEFINE d == [draft[w] EXCEPT !.touched = @ \cup {k}]
<1>2. d \in Draft /\ k \in d.touched
  <2>1. draft[w] \in Draft
    BY DEF Fits, TypeOK
  <2> QED
    BY <1>1, <2>1 DEF Draft
<1>3. Sees(w, k) \in Account \cup {NoAccount}
  BY <1>1, SeesTyped DEF Fits
<1> HIDE DEF d
<1>4. draft' = [draft EXCEPT ![w] = d]
  BY <1>1 DEF d
<1>5. TypeOK'
  BY <1>1, <1>2, <1>3, <1>4 DEF Fits, TypeOK, PcLabels
<1>6. ASSUME NEW v \in Workers
      PROVE  JobFits(v)'
  <2>1. CASE v = w
    <3>1. d.accounts = draft[w].accounts
      BY DEF d
    <3> QED
      BY <1>1, <1>2, <1>4, <2>1, <3>1 DEF Fits, TypeOK, JobsFitPlace, JobFits, OpenLabels, Sees
  <2>2. CASE v # w
    BY <1>1, <1>4, <2>2, StillFits DEF Fits, TypeOK, Kept
  <2> QED
    BY <2>1, <2>2
<1> QED
  BY <1>5, <1>6 DEF Fits, JobsFitPlace

LEMMA MergedTyped ==
  ASSUME Fits, NEW w \in Workers, pc[w] = "read"
  PROVE  target[w] \in Ids /\ Merged(w) \in Account \cup {NoAccount}
<1>1. Head(todo[w]) \in Candidate /\ target[w] \in Ids
  BY HeadTyped DEF Fits, TypeOK, JobsFitPlace, JobFits, Draft
<1>2. Sees(w, target[w]) \in Account \cup {NoAccount}
      /\ draft[w].accounts[target[w]] \in Account \cup {NoAccount}
      /\ base[w] \in Account \cup {NoAccount}
  BY <1>1, SeesTyped DEF Fits, TypeOK, Draft
<1>3. CASE base[w] = NoAccount
  BY <1>1, <1>2, <1>3 DEF Merged, Candidate, Account
<1>4. CASE base[w] # NoAccount
  <2> DEFINE c == Head(todo[w])
             merged == base[w].evidence \cup c.evidence
  <2>1. merged \in SUBSET Evidence /\ c.source \in Source
    BY <1>1, <1>2, <1>4 DEF Account, Candidate
  <2>2. [source |-> c.source, evidence |-> merged] \in Account
    BY <2>1 DEF Account
  <2> QED
    <3>1. ASSUME Sees(w, target[w]) # NoAccount
          PROVE  [Sees(w, target[w]) EXCEPT !.evidence = merged] \in Account
      BY <1>2, <2>1, <3>1 DEF Account
    <3>2. CASE Overwrites(c.source, base[w].source)
      BY <1>1, <1>4, <2>2, <3>2 DEF Merged
    <3>3. CASE ~Overwrites(c.source, base[w].source)
      BY <1>1, <1>2, <1>4, <3>1, <3>3 DEF Merged, Fits, JobsFitPlace, JobFits
    <3> QED
      BY <3>2, <3>3
<1> QED
  BY <1>1, <1>3, <1>4

LEMMA DraftedTyped ==
  ASSUME Fits, NEW w \in Workers, pc[w] = "read"
  PROVE  Drafted(w) \in Draft
<1> DEFINE c == Head(todo[w])
           k == target[w]
           d == Drafted(w)
<1>1. draft[w] \in Draft
  BY DEF Fits, TypeOK
<1>2. k \in Ids /\ c \in Candidate /\ Merged(w) \in Account \cup {NoAccount}
  BY MergedTyped, HeadTyped DEF Fits, JobsFitPlace, JobFits
<1>3. job[w].query \in Queries
  BY DiscoveryAssumption DEF Fits, JobsFitPlace, JobFits, OpenLabels
<1>4. AliasRows(k, c) \subseteq Ids \X Ids
  BY <1>2 DEF AliasRows, Candidate, Ids
<1>5. [source |-> c.source, evidence |-> c.evidence, account |-> k] \in Offer
  BY <1>2 DEF Candidate, Offer
<1>6. /\ AliasRows(k, c) \ aliases \in SUBSET (Ids \X Ids)
      /\ c.evidence \ evidence \in SUBSET Evidence
      /\ {<<k, job[w].query>>} \ scorings \in SUBSET (Ids \X Queries)
  BY <1>2, <1>3, <1>4 DEF Candidate
<1> HIDE DEF c, k
<1>7. /\ [draft[w].accounts EXCEPT ![k] = Merged(w)] \in [Ids -> Account \cup {NoAccount}]
      /\ draft[w].aliases \cup (AliasRows(k, c) \ aliases) \in SUBSET (Ids \X Ids)
      /\ draft[w].evidence \cup (c.evidence \ evidence) \in SUBSET Evidence
      /\ draft[w].scorings \cup ({<<k, job[w].query>>} \ scorings) \in SUBSET (Ids \X Queries)
      /\ draft[w].touched \in SUBSET Ids
      /\ draft[w].offers \cup {[source |-> c.source, evidence |-> c.evidence, account |-> k]}
           \in SUBSET Offer
  BY <1>1, <1>2, <1>5, <1>6 DEF Draft
<1> QED
  BY <1>7 DEF Drafted, Draft, c, k

LEMMA WriteEffect ==
  ASSUME Fits, NEW w \in Workers, Write(w)
  PROVE  /\ pc[w] = "read" /\ pc' = [pc EXCEPT ![w] = "listed"]
         /\ draft' = [draft EXCEPT ![w] = Drafted(w)]
         /\ made' = [made EXCEPT ![w] = made'[w]] /\ made'[w] \in {made[w], made[w] + 1}
         /\ todo' = [todo EXCEPT ![w] = Tail(todo[w])]
         /\ target' = [target EXCEPT ![w] = NoKey] /\ base' = [base EXCEPT ![w] = NoAccount]
         /\ UNCHANGED <<tables, job, loaded, outcome, aborts, history>>
BY DEF Write, Advance, Fits, TypeOK

LEMMA WriteFits ==
  ASSUME Fits, NEW w \in Workers, Write(w)
  PROVE  Fits'
<1>1. /\ todo[w] # <<>> /\ made[w] < MaxAccounts /\ pc[w] = "read"
      /\ made \in [Workers -> Nat]
  BY WriteEffect DEF Fits, TypeOK, JobsFitPlace, JobFits
<1>2. Tail(todo[w]) \in Seq(Candidate) /\ Drafted(w) \in Draft
  BY <1>1, HeadTyped, DraftedTyped DEF Fits
<1>3. PICK n \in Nat : n <= MaxAccounts /\ made' = [made EXCEPT ![w] = n]
  BY <1>1, WriteEffect, DiscoveryAssumption
<1>4. /\ pc' = [pc EXCEPT ![w] = "listed"]
      /\ draft' = [draft EXCEPT ![w] = Drafted(w)]
      /\ todo' = [todo EXCEPT ![w] = Tail(todo[w])]
      /\ target' = [target EXCEPT ![w] = NoKey] /\ base' = [base EXCEPT ![w] = NoAccount]
      /\ UNCHANGED <<tables, job, loaded, outcome, aborts, history>>
  BY WriteEffect
<1>5. TypeOK'
  BY <1>2, <1>3, <1>4 DEF Fits, TypeOK, PcLabels
<1>6. ASSUME NEW v \in Workers
      PROVE  JobFits(v)'
  <2>1. CASE v = w
    BY <1>1, <1>3, <1>4, <2>1 DEF Fits, TypeOK, JobsFitPlace, JobFits, OpenLabels
  <2>2. CASE v # w
    <3>1. /\ pc'[v] = pc[v] /\ job'[v] = job[v] /\ todo'[v] = todo[v]
          /\ target'[v] = target[v] /\ base'[v] = base[v] /\ draft'[v] = draft[v]
          /\ made'[v] = made[v]
      BY <1>3, <1>4, <2>2 DEF Fits, TypeOK
    <3>2. Kept
      BY <1>4 DEF Kept
    <3> QED
      BY <3>1, <3>2, StillFits
  <2> QED
    BY <2>1, <2>2
<1> QED
  BY <1>5, <1>6 DEF Fits, JobsFitPlace

LEMMA NextFits == Fits /\ [Next]_vars => Fits'
<1> SUFFICES ASSUME Fits, [Next]_vars
             PROVE  Fits'
  OBVIOUS
<1>1. ASSUME NEW w \in Workers, WorkerStep(w) \/ Abort(w)
      PROVE  Fits'
  BY <1>1, CloseFits, SpendFits, AskFits, ResolveFits, WriteFits, BreakOffFits, ConcludeFits, EndFits
  DEF WorkerStep
<1>2. ASSUME NEW w \in Workers, NEW it \in items, Begin(w, it)
      PROVE  Fits'
  BY <1>2, BeginFits
<1>3. ASSUME NEW p \in Posted, PostAccount(p)
      PROVE  Fits'
  BY <1>3, PostFits
<1>4. CASE UNCHANGED vars
  BY <1>4 DEF vars, Fits, TypeOK, JobsFitPlace, JobFits, Sees
<1> QED
  BY <1>1, <1>2, <1>3, <1>4 DEF Next

LEMMA FitsAlways == Spec => []Fits
BY InitFits, NextFits, PTL DEF Spec

(***************************************************************************)
(* Tables, budgets, transactions and jobs of discovery keep their types.   *)
(***************************************************************************)
THEOREM TypeCorrect == Spec => []TypeOK
<1>1. Fits => TypeOK
  BY DEF Fits
<1> QED
  BY <1>1, FitsAlways, PTL

-----------------------------------------------------------------------------
(***************************************************************************)
(* Rows served in peace.                                                   *)
(***************************************************************************)
CapsInPeace == \A it \in Items \ Disturbed : created[it] <= MaxAccounts

Rows == JobsAreNoticed /\ JobsInPeaceAreFirst /\ CreationsAreReported
          /\ CapsInPeace /\ UndisturbedRowsTellTheTruth

LEMMA InitRows == Init => Rows
BY DiscoveryAssumption
DEF Disturbed, Init, Rows, JobsAreNoticed, JobsInPeaceAreFirst, CreationsAreReported,
    CapsInPeace, UndisturbedRowsTellTheTruth

\* Steps that say and create nothing.
WorksQuietly ==
  /\ UNCHANGED <<events, created, shared, cut, job, outcome>>
  /\ \A w \in Workers : \/ pc'[w] = pc[w]
                        \/ pc[w] \notin {"idle", "committed"} /\ pc'[w] \notin {"idle", "committed"}

LeavesJob(w) ==
  /\ pc[w] # "idle"
  /\ pc' = [pc EXCEPT ![w] = "idle"] /\ job' = [job EXCEPT ![w] = NoJob]
  /\ outcome' = [outcome EXCEPT ![w] = "ok"]

\* Steps that put a row's terminal event, a cut transaction with what it created.
EndsJob(w, code, n) ==
  /\ LeavesJob(w)
  /\ events' = events \cup {<<job[w], code>>}
  /\ created' = [created EXCEPT ![job[w]] = @ + n]
  /\ UNCHANGED <<shared, cut>>
  /\ n <= MaxAccounts
  /\ IF pc[w] = "committed" THEN n = 0 /\ code = outcome[w]
     ELSE code \notin {"ok", "no_signal"}

CommitsJob(w, code) ==
  /\ pc[w] = "listed"
  /\ pc' = [pc EXCEPT ![w] = "committed"]
  /\ outcome' = [outcome EXCEPT ![w] = code]
  /\ created' = [created EXCEPT ![job[w]] = @ + made[w]]
  /\ UNCHANGED <<events, shared, cut, job>>
  /\ code = "ok" => made[w] > 0
  /\ code = "no_signal" => made[w] = 0

DropsJob(w) ==
  /\ LeavesJob(w)
  /\ UNCHANGED <<events, created, shared>>
  /\ cut' = IF pc[w] = "committed" THEN cut \cup {job[w]} ELSE cut

LEMMA RowSteps ==
  ASSUME Fits, [Next]_vars
  PROVE  \/ WorksQuietly
         \/ \E w \in Workers : DropsJob(w)
         \/ \E w \in Workers, code \in Outcomes, n \in Nat : EndsJob(w, code, n)
         \/ \E w \in Workers, code \in Outcomes : CommitsJob(w, code)
         \/ \E w \in Workers : \E it \in items : Begin(w, it)
<1>1. ASSUME NEW w \in Workers, Refuse(w) \/ ParkExhausted(w) \/ FailAdapter(w) \/ Finish(w)
      PROVE  \E code \in Outcomes : EndsJob(w, code, 0)
  <2>1. PICK code \in Outcomes :
          /\ Close(w, code) /\ pc[w] # "idle" /\ UNCHANGED <<created, shared, cut>>
          /\ IF pc[w] = "committed" THEN code = outcome[w] ELSE code \notin {"ok", "no_signal"}
    <3>1. CASE Refuse(w) \/ ParkExhausted(w)
      BY <3>1 DEF Refuse, ParkExhausted, Outcomes
    <3>2. CASE FailAdapter(w)
      BY <3>2 DEF FailAdapter, Outcomes
    <3>3. CASE Finish(w)
      BY <3>3 DEF Finish, Fits, TypeOK
    <3> QED
      BY <1>1, <3>1, <3>2, <3>3
  <2>2. created' = [created EXCEPT ![job[w]] = @ + 0] /\ 0 <= MaxAccounts
    BY <2>1, DiscoveryAssumption DEF Fits, TypeOK, JobsFitPlace, JobFits
  <2> QED
    BY <2>1, <2>2 DEF Close, Release, EndsJob, LeavesJob
<1>2. ASSUME NEW w \in Workers, BreakOff(w)
      PROVE  EndsJob(w, FaultOf(w), made[w]) /\ FaultOf(w) \in Outcomes
  <2>1. FaultOf(w) \in {"contract_error", "transient_error"} /\ pc[w] = "read"
    BY <1>2, FaultTyped DEF BreakOff
  <2>2. made[w] <= MaxAccounts
    BY DEF Fits, JobsFitPlace, JobFits
  <2> QED
    BY <1>2, <2>1, <2>2 DEF BreakOff, CommitDraft, Close, Release, EndsJob, LeavesJob, Outcomes
<1>3. ASSUME NEW w \in Workers, Conclude(w)
      PROVE  \E code \in Outcomes : CommitsJob(w, code)
  <2>1. made[w] \in Nat
    BY DEF Fits, TypeOK
  <2>2. CASE todo[w] = <<>> /\ made[w] = 0
    BY <1>3, <2>1, <2>2 DEF Conclude, Advance, CommitDraft, CommitsJob, Outcomes
  <2>3. CASE todo[w] = <<>> /\ made[w] # 0
    BY <1>3, <2>1, <2>3 DEF Conclude, Advance, CommitDraft, CommitsJob, Outcomes
  <2>4. CASE todo[w] # <<>>
    BY <1>3, <2>1, <2>4 DEF Conclude, Advance, CommitDraft, CommitsJob, Outcomes
  <2> QED
    BY <2>2, <2>3, <2>4
<1>4. ASSUME NEW w \in Workers, Deadlock(w) \/ Abort(w)
      PROVE  DropsJob(w)
  BY <1>4 DEF Deadlock, WaitsFor, Abort, Release, DropsJob, LeavesJob
<1>5. ASSUME NEW w \in Workers, SpendAttempt(w) \/ AskAdapter(w) \/ Resolve(w) \/ Write(w)
      PROVE  WorksQuietly
  BY <1>5 DEF SpendAttempt, AskAdapter, Resolve, Write, Advance, WorksQuietly, Fits, TypeOK
<1>6. ASSUME NEW p \in Posted, PostAccount(p)
      PROVE  WorksQuietly
  BY <1>6 DEF PostAccount, WorksQuietly
<1>7. CASE UNCHANGED vars
  BY <1>7 DEF vars, WorksQuietly
<1>8. \A w \in Workers : made[w] \in Nat
  BY DEF Fits, TypeOK
<1> QED
  BY <1>1, <1>2, <1>3, <1>4, <1>5, <1>6, <1>7, <1>8 DEF Next, WorkerStep, Outcomes

LEMMA QuietRows == Fits /\ Rows /\ WorksQuietly => Rows'
<1> SUFFICES ASSUME Fits, Rows, WorksQuietly
             PROVE  Rows'
  OBVIOUS
<1>1. JobsAreNoticed'
  BY DEF Rows, WorksQuietly, JobsAreNoticed
<1>2. JobsInPeaceAreFirst'
  BY DEF Rows, WorksQuietly, JobsInPeaceAreFirst, Closed, Disturbed
<1>3. CreationsAreReported'
  BY DEF Rows, WorksQuietly, CreationsAreReported, Closed, Disturbed
<1>4. CapsInPeace' /\ UndisturbedRowsTellTheTruth'
  BY DEF Rows, WorksQuietly, CapsInPeace, UndisturbedRowsTellTheTruth, Disturbed
<1> QED
  BY <1>1, <1>2, <1>3, <1>4 DEF Rows

LEMMA DropRows ==
  ASSUME Fits, Rows, NEW w \in Workers, DropsJob(w)
  PROVE  Rows'
<1>1. /\ Disturbed \subseteq Disturbed' /\ shared' = shared
      /\ pc[w] = "committed" => job[w] \in Disturbed'
  BY DEF DropsJob, Disturbed
<1>2. JobsAreNoticed'
  BY <1>1 DEF Rows, DropsJob, LeavesJob, JobsAreNoticed, Fits, TypeOK
<1>3. JobsInPeaceAreFirst'
  BY <1>1 DEF Rows, DropsJob, LeavesJob, JobsInPeaceAreFirst, Closed, Fits, TypeOK
<1>4. CreationsAreReported'
  BY <1>1 DEF Rows, DropsJob, LeavesJob, CreationsAreReported, Closed, Fits, TypeOK
<1>5. CapsInPeace' /\ UndisturbedRowsTellTheTruth'
  BY <1>1 DEF Rows, DropsJob, CapsInPeace, UndisturbedRowsTellTheTruth
<1> QED
  BY <1>2, <1>3, <1>4, <1>5 DEF Rows

LEMMA EndRows ==
  ASSUME Fits, Rows, NEW w \in Workers, NEW code \in Outcomes, NEW n \in Nat, EndsJob(w, code, n)
  PROVE  Rows'
<1>1. job[w] \in Items /\ pc[w] # "idle" /\ created \in [Items -> Nat]
  BY DEF EndsJob, LeavesJob, Fits, TypeOK, JobsFitPlace, JobFits
<1>2. \A it \in Items : it # job[w] => created'[it] = created[it]
  BY DEF EndsJob, Fits, TypeOK
<1>3. created'[job[w]] = created[job[w]] + n
  BY <1>1 DEF EndsJob
<1>4. /\ events' = events \cup {<<job[w], code>>}
      /\ Disturbed' = Disturbed /\ shared' = shared /\ shared \subseteq Disturbed
  BY DEF EndsJob, Disturbed
<1>5. ASSUME NEW v \in Workers, pc'[v] # "idle"
      PROVE  /\ v # w /\ pc[v] = pc'[v] /\ job'[v] = job[v] /\ outcome'[v] = outcome[v]
             /\ job[v] \in Items
  BY <1>5 DEF EndsJob, LeavesJob, Fits, TypeOK, JobsFitPlace, JobFits
<1>6. ASSUME job[w] \notin Disturbed
      PROVE  ~Closed(job[w]) /\ (pc[w] # "committed" => created[job[w]] = 0)
  BY <1>1, <1>6 DEF Rows, JobsInPeaceAreFirst
<1>7. JobsAreNoticed'
  BY <1>4, <1>5 DEF Rows, JobsAreNoticed
<1>8. JobsInPeaceAreFirst'
  <2> SUFFICES ASSUME NEW v \in Workers, pc'[v] # "idle", job'[v] \notin Disturbed'
               PROVE  /\ ~Closed(job[v])' /\ job'[v] = job[v]
                      /\ IF pc'[v] # "committed" THEN created'[job[v]] = 0
                         ELSE /\ outcome'[v] = "ok" => created'[job[v]] > 0
                              /\ outcome'[v] = "no_signal" => created'[job[v]] = 0
    BY DEF JobsInPeaceAreFirst, Closed
  <2>1. job[v] # job[w]
    BY <1>1, <1>4, <1>5 DEF Rows, JobsAreNoticed
  <2>2. created'[job[v]] = created[job[v]]
    BY <1>2, <1>5, <2>1
  <2>3. ~Closed(job[v])'
    BY <1>4, <1>5, <2>1 DEF Rows, JobsInPeaceAreFirst, Closed
  <2> QED
    BY <1>4, <1>5, <2>2, <2>3 DEF Rows, JobsInPeaceAreFirst
<1>9. CreationsAreReported'
  <2> SUFFICES ASSUME NEW it \in Items, created'[it] # 0, it \notin Disturbed',
                      ~\E e \in events' : e[1] = it
               PROVE  \E v \in Workers : pc'[v] = "committed" /\ job'[v] = it
    BY DEF CreationsAreReported, Closed
  <2>1. it # job[w] /\ ~Closed(it)
    <3>1. <<job[w], code>> \in events' /\ <<job[w], code>>[1] = job[w] /\ events \subseteq events'
      BY <1>4
    <3> QED
      BY <3>1 DEF Closed
  <2>2. PICK v \in Workers : pc[v] = "committed" /\ job[v] = it
    BY <1>2, <1>4, <2>1 DEF Rows, CreationsAreReported
  <2> QED
    BY <2>1, <2>2 DEF EndsJob, LeavesJob, Fits, TypeOK
<1>10. CapsInPeace'
  BY <1>1, <1>2, <1>3, <1>4, <1>6 DEF Rows, CapsInPeace, EndsJob
<1>11. UndisturbedRowsTellTheTruth'
  <2> SUFFICES ASSUME NEW e \in events', e[1] \notin Disturbed
               PROVE  /\ \A f \in events' : f[1] = e[1] => f = e
                      /\ e[2] = "ok" => created'[e[1]] > 0
                      /\ e[2] = "no_signal" => created'[e[1]] = 0
    BY <1>4 DEF UndisturbedRowsTellTheTruth
  <2>1. CASE e = <<job[w], code>>
    <3>1. \A f \in events' : f[1] = e[1] => f = e
      BY <1>4, <1>6, <2>1 DEF Closed
    <3>2. CASE pc[w] = "committed"
      BY <1>1, <1>3, <2>1, <3>1, <3>2 DEF EndsJob, Rows, JobsInPeaceAreFirst
    <3>3. CASE pc[w] # "committed"
      BY <1>1, <1>3, <1>6, <2>1, <3>1, <3>3 DEF EndsJob
    <3> QED
      BY <3>2, <3>3
  <2>2. CASE e # <<job[w], code>>
    <3>1. e \in events /\ e[1] \in Items
      BY <1>4, <2>2 DEF Fits, TypeOK
    <3>2. e[1] # job[w]
      BY <1>6, <3>1 DEF Closed
    <3> QED
      BY <1>2, <1>4, <3>1, <3>2 DEF Rows, UndisturbedRowsTellTheTruth
  <2> QED
    BY <2>1, <2>2
<1> QED
  BY <1>7, <1>8, <1>9, <1>10, <1>11 DEF Rows

LEMMA CommitRows ==
  ASSUME Fits, Rows, NEW w \in Workers, NEW code \in Outcomes, CommitsJob(w, code)
  PROVE  Rows'
<1>1. /\ job[w] \in Items /\ pc[w] = "listed" /\ created \in [Items -> Nat]
      /\ made[w] \in Nat /\ made[w] <= MaxAccounts
  BY DEF CommitsJob, Fits, TypeOK, JobsFitPlace, JobFits
<1>2. \A it \in Items : it # job[w] => created'[it] = created[it]
  BY DEF CommitsJob, Fits, TypeOK
<1>3. created'[job[w]] = created[job[w]] + made[w]
  BY <1>1 DEF CommitsJob
<1>4. /\ events' = events /\ job' = job
      /\ Disturbed' = Disturbed /\ shared' = shared /\ shared \subseteq Disturbed
  BY DEF CommitsJob, Disturbed
<1>5. /\ pc'[w] = "committed" /\ outcome'[w] = code
      /\ \A v \in Workers : v # w => pc'[v] = pc[v] /\ outcome'[v] = outcome[v]
  BY DEF CommitsJob, Fits, TypeOK
<1>6. ASSUME job[w] \notin Disturbed
      PROVE  ~Closed(job[w]) /\ created[job[w]] = 0 /\ created'[job[w]] = made[w]
  BY <1>1, <1>3, <1>6 DEF Rows, JobsInPeaceAreFirst
<1>7. JobsAreNoticed'
  BY <1>1, <1>4, <1>5 DEF Rows, JobsAreNoticed
<1>8. JobsInPeaceAreFirst'
  <2> SUFFICES ASSUME NEW v \in Workers, pc'[v] # "idle", job[v] \notin Disturbed
               PROVE  /\ ~Closed(job[v])
                      /\ IF pc'[v] # "committed" THEN created'[job[v]] = 0
                         ELSE /\ outcome'[v] = "ok" => created'[job[v]] > 0
                              /\ outcome'[v] = "no_signal" => created'[job[v]] = 0
    BY <1>4 DEF JobsInPeaceAreFirst, Closed
  <2>1. CASE v = w
    BY <1>1, <1>5, <1>6, <2>1 DEF CommitsJob
  <2>2. CASE v # w
    <3>1. job[v] # job[w] /\ pc[v] = pc'[v] /\ outcome'[v] = outcome[v] /\ job[v] \in Items
      BY <1>1, <1>4, <1>5, <2>2 DEF Rows, JobsAreNoticed, Fits, JobsFitPlace, JobFits
    <3> QED
      BY <1>2, <3>1 DEF Rows, JobsInPeaceAreFirst
  <2> QED
    BY <2>1, <2>2
<1>9. CreationsAreReported'
  <2> SUFFICES ASSUME NEW it \in Items, created'[it] # 0, it \notin Disturbed, ~Closed(it)
               PROVE  \E v \in Workers : pc'[v] = "committed" /\ job[v] = it
    BY <1>4 DEF CreationsAreReported, Closed
  <2>1. CASE it = job[w]
    BY <1>5, <2>1
  <2>2. CASE it # job[w]
    BY <1>1, <1>2, <1>5, <2>2 DEF Rows, CreationsAreReported
  <2> QED
    BY <2>1, <2>2
<1>10. CapsInPeace'
  BY <1>1, <1>2, <1>4, <1>6 DEF Rows, CapsInPeace
<1>11. UndisturbedRowsTellTheTruth'
  <2>1. \A e \in events : e[1] \notin Disturbed => e[1] \in Items /\ e[1] # job[w]
    BY <1>6 DEF Closed, Fits, TypeOK
  <2> QED
    BY <1>2, <1>4, <2>1 DEF Rows, UndisturbedRowsTellTheTruth
<1> QED
  BY <1>7, <1>8, <1>9, <1>10, <1>11 DEF Rows

LEMMA BeginRows ==
  ASSUME Fits, Rows, NEW w \in Workers, NEW it \in items, Begin(w, it)
  PROVE  Rows'
<1>1. /\ it \in Items /\ ~Closed(it) /\ pc[w] = "idle"
      /\ pc'[w] = "begun" /\ job'[w] = it
      /\ \A v \in Workers : v # w => pc'[v] = pc[v] /\ job'[v] = job[v]
      /\ UNCHANGED <<events, created, outcome>>
      /\ Disturbed \subseteq Disturbed' /\ shared \subseteq shared'
  BY DEF Begin, Advance, Fits, TypeOK, Disturbed
<1>2. \A v \in Workers : job[v] = it => it \in shared' /\ it \in Disturbed'
  BY DEF Begin, Disturbed
<1>3. JobsAreNoticed'
  BY <1>1, <1>2 DEF Rows, JobsAreNoticed
<1>4. JobsInPeaceAreFirst'
  <2> SUFFICES ASSUME NEW v \in Workers, pc'[v] # "idle", job'[v] \notin Disturbed'
               PROVE  /\ ~Closed(job'[v])
                      /\ IF pc'[v] # "committed" THEN created[job'[v]] = 0
                         ELSE /\ outcome[v] = "ok" => created[job'[v]] > 0
                              /\ outcome[v] = "no_signal" => created[job'[v]] = 0
    BY <1>1 DEF JobsInPeaceAreFirst, Closed
  <2>1. CASE v = w
    <3>1. created[it] = 0
      BY <1>1, <1>2, <2>1 DEF Rows, CreationsAreReported
    <3> QED
      BY <1>1, <2>1, <3>1
  <2>2. CASE v # w
    BY <1>1, <2>2 DEF Rows, JobsInPeaceAreFirst
  <2> QED
    BY <2>1, <2>2
<1>5. CreationsAreReported'
  BY <1>1 DEF Rows, CreationsAreReported, Closed
<1>6. CapsInPeace' /\ UndisturbedRowsTellTheTruth'
  BY <1>1 DEF Rows, CapsInPeace, UndisturbedRowsTellTheTruth
<1> QED
  BY <1>3, <1>4, <1>5, <1>6 DEF Rows

LEMMA NextRows == Fits /\ Rows /\ [Next]_vars => Rows'
BY RowSteps, QuietRows, DropRows, EndRows, CommitRows, BeginRows

LEMMA RowsAlways == Spec => []Rows
BY FitsAlways, InitRows, NextRows, PTL DEF Spec

-----------------------------------------------------------------------------
(***************************************************************************)
(* What a row's jobs create is paid with its attempts.                     *)
(***************************************************************************)
Spending == {"spent", "listed", "read"}

LEMMA InitPaid == Init => AttemptsArePaid
<1> SUFFICES ASSUME Init
             PROVE  AttemptsArePaid
  OBVIOUS
<1>1. MaxAccounts \in Nat /\ InitialBudget \in [Items -> Nat] /\ MaxAccounts * 0 = 0
  BY DiscoveryAssumption
<1>2. \A it \in Items : Owed(it) = 0 /\ created[it] = 0 /\ InitialBudget[it] - budget[it] = 0
  BY <1>1 DEF Init, Owed
<1> QED
  BY <1>1, <1>2 DEF Init, AttemptsArePaid

\* What the step of a job, or none, does to the pay of the rows.
KeepsPay ==
  /\ UNCHANGED <<budget, created>> /\ shared \subseteq shared'
  /\ \A v \in Workers :
       /\ pc'[v] \in Spending => pc[v] \in Spending /\ job'[v] = job[v]
       /\ pc'[v] = "begun" => pc[v] = "begun" /\ job'[v] = job[v] /\ loaded'[v] = loaded[v]

CommitsPay(w) ==
  /\ pc[w] \in Spending /\ pc'[w] \notin Spending \cup {"begun"}
  /\ \A v \in Workers \ {w} : pc'[v] = pc[v] /\ job'[v] = job[v] /\ loaded'[v] = loaded[v]
  /\ created' = [created EXCEPT ![job[w]] = @ + made[w]]
  /\ UNCHANGED <<budget, shared>>

LEMMA PaySteps ==
  ASSUME Fits, [Next]_vars
  PROVE  \/ KeepsPay
         \/ \E w \in Workers : CommitsPay(w)
         \/ \E w \in Workers : SpendAttempt(w)
         \/ \E w \in Workers : \E it \in items : Begin(w, it)
<1>1. ASSUME NEW w \in Workers,
             Refuse(w) \/ ParkExhausted(w) \/ FailAdapter(w) \/ Finish(w) \/ Deadlock(w) \/ Abort(w)
      PROVE  KeepsPay
  BY <1>1 DEF Refuse, ParkExhausted, FailAdapter, Finish, Deadlock, Abort, Close, Release, KeepsPay,
              Spending, Fits, TypeOK
<1>2. ASSUME NEW w \in Workers, AskAdapter(w) \/ Resolve(w) \/ Write(w)
      PROVE  KeepsPay
  BY <1>2 DEF AskAdapter, Resolve, Write, Advance, KeepsPay, Spending, Fits, TypeOK
<1>3. ASSUME NEW w \in Workers, BreakOff(w) \/ Conclude(w)
      PROVE  CommitsPay(w)
  <2>1. CASE BreakOff(w)
    BY <2>1 DEF BreakOff, CommitDraft, Close, Release, CommitsPay, Spending, Fits, TypeOK
  <2>2. CASE Conclude(w)
    BY <2>2 DEF Conclude, Advance, CommitDraft, CommitsPay, Spending, Fits, TypeOK
  <2> QED
    BY <1>3, <2>1, <2>2
<1>4. ASSUME NEW p \in Posted, PostAccount(p)
      PROVE  KeepsPay
  BY <1>4 DEF PostAccount, KeepsPay
<1>5. CASE UNCHANGED vars
  BY <1>5 DEF vars, KeepsPay
<1> QED
  BY <1>1, <1>2, <1>3, <1>4, <1>5 DEF Next, WorkerStep

\* What was paid is a number.
LEMMA PayIsNumber ==
  ASSUME Fits, AttemptsArePaid, NEW it \in Items \ shared
  PROVE  \E paid \in Int :
           /\ paid = MaxAccounts * (InitialBudget[it] - budget[it])
           /\ MaxAccounts * (InitialBudget[it] - (budget[it] - 1)) = paid + MaxAccounts
           /\ created[it] + Owed(it) <= paid
           /\ budget[it] \in Nat /\ budget[it] <= InitialBudget[it] /\ created[it] \in Nat
<1>1. /\ MaxAccounts \in Int /\ InitialBudget[it] \in Int /\ budget[it] \in Nat
      /\ created[it] \in Nat
  BY DiscoveryAssumption DEF Fits, TypeOK
<1>2. \A m, b, c \in Int : m * (b - c) \in Int /\ m * (b - (c - 1)) = m * (b - c) + m
  OBVIOUS
<1> QED
  BY <1>1, <1>2 DEF AttemptsArePaid

LEMMA KeepPaid ==
  ASSUME Fits, AttemptsArePaid, KeepsPay
  PROVE  AttemptsArePaid'
<1> SUFFICES ASSUME NEW it \in Items \ shared'
             PROVE  /\ budget'[it] <= InitialBudget[it]
                    /\ \A w \in Workers : pc'[w] = "begun" /\ job'[w] = it => loaded'[w] = budget'[it]
                    /\ created'[it] + Owed(it)' <= MaxAccounts * (InitialBudget[it] - budget'[it])
  BY DEF AttemptsArePaid
<1>1. it \in Items \ shared /\ budget' = budget /\ created' = created
  BY DEF KeepsPay
<1>2. Owed(it)' \in {0, Owed(it)} /\ Owed(it) \in {0, MaxAccounts}
  BY DEF KeepsPay, Owed, Spending
<1>3. PICK paid \in Int : /\ paid = MaxAccounts * (InitialBudget[it] - budget[it])
                          /\ created[it] + Owed(it) <= paid
                          /\ budget[it] <= InitialBudget[it] /\ created[it] \in Nat
  BY <1>1, PayIsNumber
<1>4. created[it] + Owed(it)' <= paid
  BY <1>2, <1>3, DiscoveryAssumption
<1>5. \A w \in Workers : pc'[w] = "begun" /\ job'[w] = it => loaded'[w] = budget[it]
  BY <1>1 DEF KeepsPay, AttemptsArePaid
<1> QED
  BY <1>1, <1>3, <1>4, <1>5

LEMMA CommitPaid ==
  ASSUME Fits, JobsAreNoticed, AttemptsArePaid, NEW w \in Workers, CommitsPay(w)
  PROVE  AttemptsArePaid'
<1> SUFFICES ASSUME NEW it \in Items \ shared'
             PROVE  /\ budget'[it] <= InitialBudget[it]
                    /\ \A v \in Workers : pc'[v] = "begun" /\ job'[v] = it => loaded'[v] = budget'[it]
                    /\ created'[it] + Owed(it)' <= MaxAccounts * (InitialBudget[it] - budget'[it])
  BY DEF AttemptsArePaid
<1>1. it \in Items \ shared /\ budget' = budget
  BY DEF CommitsPay
<1>2. PICK paid \in Int : /\ paid = MaxAccounts * (InitialBudget[it] - budget[it])
                          /\ created[it] + Owed(it) <= paid
                          /\ budget[it] <= InitialBudget[it] /\ created[it] \in Nat
  BY <1>1, PayIsNumber
<1>3. \A v \in Workers : pc'[v] = "begun" /\ job'[v] = it => loaded'[v] = budget[it]
  BY <1>1 DEF CommitsPay, AttemptsArePaid
<1>4. made[w] \in Nat /\ made[w] <= MaxAccounts /\ MaxAccounts \in Nat
  BY DiscoveryAssumption DEF Fits, TypeOK, JobsFitPlace, JobFits
<1>5. CASE job[w] = it
  <2>1. Owed(it) = MaxAccounts
    BY <1>5 DEF CommitsPay, Owed, Spending
  <2>2. \A v \in Workers \ {w} : pc[v] = "idle" \/ job[v] # it
    BY <1>1, <1>5 DEF JobsAreNoticed, CommitsPay, Spending
  <2>3. Owed(it)' = 0
    BY <2>2 DEF CommitsPay, Owed, Spending
  <2>4. created'[it] = created[it] + made[w]
    BY <1>1, <1>5 DEF CommitsPay, Fits, TypeOK
  <2>5. created'[it] + Owed(it)' <= paid
    BY <1>2, <1>4, <2>1, <2>3, <2>4
  <2> QED
    BY <1>1, <1>2, <1>3, <2>5
<1>6. CASE job[w] # it
  <2>1. Owed(it)' \in {0, Owed(it)} /\ Owed(it) \in {0, MaxAccounts}
    BY <1>6 DEF CommitsPay, Owed, Spending
  <2>2. created'[it] = created[it]
    BY <1>6 DEF CommitsPay, Fits, TypeOK
  <2>3. created'[it] + Owed(it)' <= paid
    BY <1>2, <1>4, <2>1, <2>2
  <2> QED
    BY <1>1, <1>2, <1>3, <2>3
<1> QED
  BY <1>5, <1>6

LEMMA SpendPaid ==
  ASSUME Fits, JobsAreNoticed, AttemptsArePaid, NEW w \in Workers, SpendAttempt(w)
  PROVE  AttemptsArePaid'
<1> SUFFICES ASSUME NEW it \in Items \ shared'
             PROVE  /\ budget'[it] <= InitialBudget[it]
                    /\ \A v \in Workers : pc'[v] = "begun" /\ job'[v] = it => loaded'[v] = budget'[it]
                    /\ created'[it] + Owed(it)' <= MaxAccounts * (InitialBudget[it] - budget'[it])
  BY DEF AttemptsArePaid
<1>1. /\ it \in Items \ shared /\ UNCHANGED <<created, job, loaded>>
      /\ pc[w] = "begun" /\ pc'[w] = "spent" /\ \A v \in Workers \ {w} : pc'[v] = pc[v]
      /\ budget' = [budget EXCEPT ![job[w]] = loaded[w] - 1] /\ job[w] \in Items
  BY DEF SpendAttempt, Advance, Fits, TypeOK, JobsFitPlace, JobFits
<1>2. PICK paid \in Int : /\ paid = MaxAccounts * (InitialBudget[it] - budget[it])
                          /\ MaxAccounts * (InitialBudget[it] - (budget[it] - 1)) = paid + MaxAccounts
                          /\ created[it] + Owed(it) <= paid /\ budget[it] \in Nat
                          /\ budget[it] <= InitialBudget[it] /\ created[it] \in Nat
  BY <1>1, PayIsNumber
<1>3. InitialBudget[it] \in Nat /\ MaxAccounts \in Nat /\ budget \in [Items -> Nat]
  BY DiscoveryAssumption DEF Fits, TypeOK
<1>4. CASE job[w] = it
  <2>1. loaded[w] = budget[it]
    BY <1>1, <1>4 DEF AttemptsArePaid
  <2>2. budget'[it] = budget[it] - 1
    BY <1>1, <1>3, <1>4, <2>1
  <2>3. \A v \in Workers \ {w} : pc[v] = "idle" \/ job[v] # it
    BY <1>1, <1>4 DEF JobsAreNoticed
  <2>4. Owed(it) = 0 /\ Owed(it)' \in {0, MaxAccounts}
    BY <1>1, <2>3 DEF Owed
  <2>5. created[it] + Owed(it)' <= paid + MaxAccounts
    BY <1>2, <1>3, <2>4
  <2>6. budget'[it] <= InitialBudget[it]
    BY <1>2, <1>3, <2>2
  <2>7. \A v \in Workers : ~(pc'[v] = "begun" /\ job'[v] = it)
    BY <1>1, <2>3
  <2> QED
    BY <1>1, <1>2, <2>2, <2>5, <2>6, <2>7
<1>5. CASE job[w] # it
  <2>1. budget'[it] = budget[it]
    BY <1>1, <1>3, <1>5
  <2>2. Owed(it)' = Owed(it)
    BY <1>1, <1>5 DEF Owed
  <2>3. \A v \in Workers : pc'[v] = "begun" /\ job'[v] = it => loaded'[v] = budget'[it]
    BY <1>1, <2>1 DEF AttemptsArePaid
  <2> QED
    BY <1>1, <1>2, <2>1, <2>2, <2>3
<1> QED
  BY <1>4, <1>5

LEMMA BeginPaid ==
  ASSUME Fits, AttemptsArePaid, NEW w \in Workers, NEW row \in items, Begin(w, row)
  PROVE  AttemptsArePaid'
<1> SUFFICES ASSUME NEW it \in Items \ shared'
             PROVE  /\ budget'[it] <= InitialBudget[it]
                    /\ \A v \in Workers : pc'[v] = "begun" /\ job'[v] = it => loaded'[v] = budget'[it]
                    /\ created'[it] + Owed(it)' <= MaxAccounts * (InitialBudget[it] - budget'[it])
  BY DEF AttemptsArePaid
<1>1. /\ UNCHANGED <<budget, created>> /\ it \in Items \ shared
      /\ pc[w] = "idle" /\ pc'[w] = "begun" /\ job'[w] = row /\ loaded'[w] = budget[row]
      /\ \A v \in Workers \ {w} : pc'[v] = pc[v] /\ job'[v] = job[v] /\ loaded'[v] = loaded[v]
  BY DEF Begin, Advance, Fits, TypeOK
<1>2. Owed(it)' = Owed(it)
  BY <1>1 DEF Owed
<1>3. \A v \in Workers : pc'[v] = "begun" /\ job'[v] = it => loaded'[v] = budget'[it]
  BY <1>1 DEF AttemptsArePaid
<1> QED
  BY <1>1, <1>2, <1>3 DEF AttemptsArePaid

LEMMA NextPaid == Fits /\ Rows /\ AttemptsArePaid /\ [Next]_vars => AttemptsArePaid'
BY PaySteps, KeepPaid, CommitPaid, SpendPaid, BeginPaid DEF Rows

LEMMA PaidAlways == Spec => []AttemptsArePaid
BY FitsAlways, RowsAlways, InitPaid, NextPaid, PTL DEF Spec

(***************************************************************************)
(* A row in peace creates no more accounts than one run may, and one that  *)
(* no two jobs served at once no more than that for each attempt spent.    *)
(***************************************************************************)
THEOREM RowsAreCapped == Spec => []RowsKeepTheCap
<1>1. Fits /\ Rows /\ AttemptsArePaid => RowsKeepTheCap
  <2> SUFFICES ASSUME Fits, Rows, AttemptsArePaid, NEW it \in Items, it \notin shared
               PROVE  created[it] <= MaxAccounts * (InitialBudget[it] - budget[it])
    BY DEF Rows, CapsInPeace, RowsKeepTheCap
  <2>1. PICK paid \in Int : /\ paid = MaxAccounts * (InitialBudget[it] - budget[it])
                            /\ created[it] + Owed(it) <= paid /\ created[it] \in Nat
    BY PayIsNumber
  <2>2. Owed(it) \in Nat
    BY DiscoveryAssumption DEF Owed
  <2>3. created[it] <= paid
    BY <2>1, <2>2
  <2> QED
    BY <2>1, <2>3
<1> QED
  BY <1>1, FitsAlways, RowsAlways, PaidAlways, PTL

(***************************************************************************)
(* A row in peace has one terminal event, which says what its jobs did.    *)
(***************************************************************************)
THEOREM RowsTellTheTruth == Spec => []UndisturbedRowsTellTheTruth
<1>1. Rows => UndisturbedRowsTellTheTruth
  BY DEF Rows
<1> QED
  BY <1>1, RowsAlways, PTL

-----------------------------------------------------------------------------
(***************************************************************************)
(* Tables that fit together.                                               *)
(***************************************************************************)
Tables == DraftsFitTables /\ TablesFitTogether

\* What becomes of a job's transaction when a step leaves it alone, or ends it.
Untouched(v) ==
  /\ draft'[v] = draft[v]
  /\ pc'[v] = "read" => /\ pc[v] = "read"
                        /\ todo'[v] = todo[v] /\ target'[v] = target[v] /\ base'[v] = base[v]

Emptied(v) == pc'[v] # "read" /\ draft'[v] = NoDraft

LeavesTables ==
  /\ UNCHANGED <<accounts, aliases, evidence, scorings, offered, raced, posted>>
  /\ \A v \in Workers : Untouched(v) \/ Emptied(v)

ReadsAccount(w, k) ==
  /\ k \in Ids /\ k \in Resolutions(w, Head(todo[w])) /\ todo[w] # <<>>
  /\ pc'[w] = "read" /\ todo'[w] = todo[w]
  /\ target'[w] = k /\ base'[w] = Sees(w, k)
  /\ draft'[w].accounts = draft[w].accounts /\ draft'[w].aliases = draft[w].aliases
  /\ draft'[w].evidence = draft[w].evidence /\ draft'[w].scorings = draft[w].scorings
  /\ draft'[w].offers = draft[w].offers /\ draft'[w].touched = draft[w].touched \cup {k}
  /\ raced' = IF \E v \in Workers \ {w} : k \in draft[v].touched
              THEN raced \cup {k} ELSE raced
  /\ \A v \in Workers \ {w} : Untouched(v)
  /\ UNCHANGED <<accounts, aliases, evidence, scorings, offered, posted>>

WritesCandidate(w) ==
  /\ pc[w] = "read" /\ pc'[w] # "read"
  /\ draft'[w] = Drafted(w)
  /\ \A v \in Workers \ {w} : Untouched(v)
  /\ UNCHANGED <<accounts, aliases, evidence, scorings, offered, raced, posted>>

CommitsTables(w) ==
  /\ \E ids \in SUBSET Evidence : CommitDraft(w, ids)
  /\ Emptied(w)
  /\ \A v \in Workers \ {w} : Untouched(v)
  /\ UNCHANGED <<raced, posted>>

\* x, offered as o, is the row of a posted account, and its aliases are there.
PostsAccount(k, x, o) ==
  /\ accounts[k] = NoAccount /\ x # NoAccount
  /\ o.account = k /\ o.source = x.source /\ o.evidence = x.evidence
  /\ accounts'[k] = x /\ \A j \in Ids \ {k} : accounts'[j] = accounts[j]
  /\ posted' = posted \cup {o}
  /\ aliases \subseteq aliases' /\ \A a \in aliases' \ aliases : a[1] = k
  /\ raced' = IF InHand(k) THEN raced \cup {k} ELSE raced
  /\ \A v \in Workers : Untouched(v)
  /\ UNCHANGED <<evidence, scorings, offered>>

LEMMA TableSteps ==
  ASSUME Fits, [Next]_vars
  PROVE  \/ LeavesTables
         \/ \E w \in Workers, k \in Ids : ReadsAccount(w, k)
         \/ \E w \in Workers : WritesCandidate(w)
         \/ \E w \in Workers : CommitsTables(w)
         \/ \E k \in Ids, x \in Account, o \in Offer : PostsAccount(k, x, o)
<1>1. ASSUME NEW w \in Workers, Release(w)
      PROVE  Emptied(w) /\ \A v \in Workers \ {w} : Untouched(v)
  BY <1>1 DEF Release, Emptied, Untouched, Fits, TypeOK
<1>2. ASSUME NEW w \in Workers,
             Refuse(w) \/ ParkExhausted(w) \/ FailAdapter(w) \/ Finish(w) \/ Deadlock(w) \/ Abort(w)
      PROVE  LeavesTables
  BY <1>1, <1>2
  DEF Refuse, ParkExhausted, FailAdapter, Finish, Deadlock, Abort, Close, LeavesTables
<1>3. ASSUME NEW w \in Workers, SpendAttempt(w) \/ AskAdapter(w)
      PROVE  LeavesTables
  BY <1>3 DEF SpendAttempt, AskAdapter, Advance, LeavesTables, Untouched, Fits, TypeOK
<1>4. ASSUME NEW w \in Workers, NEW it \in items, Begin(w, it)
      PROVE  LeavesTables
  BY <1>4 DEF Begin, Advance, LeavesTables, Untouched, Fits, TypeOK
<1>5. ASSUME NEW w \in Workers, Resolve(w)
      PROVE  \E k \in Ids : ReadsAccount(w, k)
  <2>1. PICK k \in Resolutions(w, Head(todo[w])) :
           /\ k \in Ids /\ todo[w] # <<>> /\ made[w] < MaxAccounts
           /\ pc[w] = "listed" /\ pc' = [pc EXCEPT ![w] = "read"]
           /\ target' = [target EXCEPT ![w] = k]
           /\ base' = [base EXCEPT ![w] = Sees(w, k)]
           /\ draft' = [draft EXCEPT ![w] = [draft[w] EXCEPT !.touched = @ \cup {k}]]
           /\ raced' = IF \E v \in Workers \ {w} : k \in draft[v].touched
                       THEN raced \cup {k} ELSE raced
           /\ UNCHANGED <<tables, job, loaded, todo, made, outcome, aborts, offered, posted,
                          created, shared, cut>>
    BY <1>5, ResolveEffect
  <2>2. draft'[w] = [draft[w] EXCEPT !.touched = @ \cup {k}] /\ draft[w] \in Draft
    BY <2>1 DEF Fits, TypeOK
  <2>3. /\ draft'[w].accounts = draft[w].accounts /\ draft'[w].aliases = draft[w].aliases
        /\ draft'[w].evidence = draft[w].evidence /\ draft'[w].scorings = draft[w].scorings
        /\ draft'[w].offers = draft[w].offers /\ draft'[w].touched = draft[w].touched \cup {k}
    BY <2>2 DEF Draft
  <2>4. pc'[w] = "read" /\ target'[w] = k /\ base'[w] = Sees(w, k) /\ todo'[w] = todo[w]
    BY <2>1 DEF Fits, TypeOK
  <2>5. \A v \in Workers \ {w} : Untouched(v)
    BY <2>1 DEF Untouched, Fits, TypeOK
  <2> QED
    BY <2>1, <2>3, <2>4, <2>5 DEF ReadsAccount
<1>6. ASSUME NEW w \in Workers, Write(w)
      PROVE  WritesCandidate(w)
  <2>1. /\ pc[w] = "read" /\ pc' = [pc EXCEPT ![w] = "listed"]
        /\ draft' = [draft EXCEPT ![w] = Drafted(w)]
        /\ todo' = [todo EXCEPT ![w] = Tail(todo[w])]
        /\ target' = [target EXCEPT ![w] = NoKey] /\ base' = [base EXCEPT ![w] = NoAccount]
        /\ UNCHANGED <<tables, history>>
    BY <1>6, WriteEffect
  <2> QED
    BY <2>1 DEF WritesCandidate, Untouched, Fits, TypeOK
<1>7. ASSUME NEW w \in Workers, BreakOff(w) \/ Conclude(w)
      PROVE  CommitsTables(w)
  <2>1. CASE BreakOff(w)
    <3>1. Head(todo[w]).evidence \in SUBSET Evidence
      BY <2>1, HeadTyped DEF BreakOff, Fits, JobsFitPlace, JobFits, Candidate
    <3> QED
      BY <1>1, <2>1, <3>1 DEF BreakOff, Close, CommitsTables
  <2>2. CASE Conclude(w)
    BY <2>2 DEF Conclude, Advance, CommitsTables, Emptied, Untouched, Fits, TypeOK
  <2> QED
    BY <1>7, <2>1, <2>2
<1>8. ASSUME NEW p \in Posted, PostAccount(p)
      PROVE  \E k \in Ids, x \in Account, o \in Offer : PostsAccount(k, x, o)
  <2>1. PICK k \in Ids, x \in Account, o \in Offer :
          /\ o.account = k /\ o.source = x.source /\ o.evidence = x.evidence
          /\ accounts[k] = NoAccount /\ x # NoAccount
          /\ accounts' = [accounts EXCEPT ![k] = x]
          /\ posted' = posted \cup {o}
          /\ aliases \subseteq aliases' /\ \A a \in aliases' \ aliases : a[1] = k
          /\ raced' = IF InHand(k) THEN raced \cup {k} ELSE raced
          /\ UNCHANGED <<evidence, scorings, pc, locals, offered>>
    BY <1>8, PostEffect
  <2>2. accounts'[k] = x /\ \A j \in Ids \ {k} : accounts'[j] = accounts[j]
    BY <2>1 DEF Fits, TypeOK
  <2>3. \A v \in Workers : Untouched(v)
    BY <2>1 DEF Untouched
  <2> QED
    BY <2>1, <2>2, <2>3 DEF PostsAccount
<1>9. CASE UNCHANGED vars
  BY <1>9 DEF vars, LeavesTables, Untouched
<1> QED
  BY <1>2, <1>3, <1>4, <1>5, <1>6, <1>7, <1>8, <1>9 DEF Next, WorkerStep

LEMMA InitTables == Init => Tables
BY DEF Init, NoDraft, Tables, DraftsFitTables, DraftFits, TablesFitTogether

\* Tables grow.
Grown == /\ Kept
         /\ aliases \subseteq aliases' /\ evidence \subseteq evidence'
         /\ scorings \subseteq scorings' /\ posted \subseteq posted'

LEMMA PostedGrow ==
  ASSUME posted \subseteq posted', NEW k
  PROVE  /\ WasPosted(k) => WasPosted(k)'
         /\ \A e : PostedWith(k, e) => PostedWith(k, e)'
BY DEF PostedWith, WasPosted

LEMMA UntouchedFits ==
  ASSUME Fits, DraftsFitTables, Grown, NEW v \in Workers, Untouched(v)
  PROVE  DraftFits(v)'
<1>1. DraftFits(v) /\ draft[v] \in Draft
  BY DEF DraftsFitTables, Fits, TypeOK
<1>2. \A k \in Ids : Sees(v, k) # NoAccount => Sees(v, k)' # NoAccount
  BY DEF Sees, Untouched, Grown, Kept
<1>3. \A p \in draft[v].aliases \cup draft[v].scorings : p[1] \in Ids
  BY <1>1 DEF Draft
<1> DEFINE d == draft[v]
<1>4. \A p \in d.aliases \cup d.scorings : Sees(v, p[1])' # NoAccount
  BY <1>1, <1>2, <1>3 DEF DraftFits
<1>5. \A k \in Ids : d.accounts[k] # NoAccount =>
        /\ k \in d.touched
        /\ \A e \in d.accounts[k].evidence : e \in evidence' \cup d.evidence \/ PostedWith(k, e)'
        /\ ~WasPosted(k)' => /\ \E q \in Queries : <<k, q>> \in scorings' \cup d.scorings
                             /\ k \in Names \/ <<k, k>> \in aliases' \cup d.aliases
  BY <1>1, PostedGrow DEF DraftFits, Grown
<1>6. pc'[v] = "read" =>
        IF base'[v] = NoAccount THEN target'[v] = CanonicalId(Head(todo'[v]))
        ELSE \A e \in base'[v].evidence :
               \/ e \in evidence' \cup d.evidence
               \/ \E o \in posted' : o.account = target'[v] /\ e \in o.evidence
  BY <1>1 DEF DraftFits, Grown, Untouched, PostedWith
<1>7. draft'[v] = d
  BY DEF Untouched
<1> HIDE DEF d
<1> QED
  BY <1>4, <1>5, <1>6, <1>7 DEF DraftFits, Sees, PostedWith, WasPosted

LEMMA EmptiedFits ==
  ASSUME NEW v \in Workers, Emptied(v)
  PROVE  DraftFits(v)'
BY DEF Emptied, NoDraft, DraftFits

LEMMA LeaveTables == Fits /\ Tables /\ LeavesTables => Tables'
<1> SUFFICES ASSUME Fits, Tables, LeavesTables
             PROVE  Tables'
  OBVIOUS
<1>1. Grown
  BY DEF LeavesTables, Grown, Kept
<1>2. DraftsFitTables'
  BY <1>1, UntouchedFits, EmptiedFits DEF Tables, LeavesTables, DraftsFitTables
<1> QED
  BY <1>2 DEF Tables, LeavesTables, TablesFitTogether, PostedWith, WasPosted

\* What a job sees of an account has its evidence in the tables, and can be found.
LEMMA SeenAccountsFit ==
  ASSUME Fits, Tables, NEW w \in Workers, NEW k \in Ids, Sees(w, k) # NoAccount
  PROVE  /\ \A e \in Sees(w, k).evidence : e \in evidence \cup draft[w].evidence \/ PostedWith(k, e)
         /\ ~WasPosted(k) => /\ \E q \in Queries : <<k, q>> \in scorings \cup draft[w].scorings
                             /\ k \in Names \/ <<k, k>> \in aliases \cup draft[w].aliases
BY DEF Tables, DraftsFitTables, DraftFits, TablesFitTogether, Sees

LEMMA AliasesAreSeen ==
  ASSUME Fits, Tables, NEW w \in Workers, NEW p \in aliases \cup draft[w].aliases
  PROVE  p[1] \in Ids /\ Sees(w, p[1]) # NoAccount
<1>1. p[1] \in Ids
  BY DEF Fits, TypeOK, Draft
<1> QED
  BY <1>1 DEF Tables, DraftsFitTables, DraftFits, TablesFitTogether, Sees

LEMMA ReadTables ==
  ASSUME Fits, Tables, NEW w \in Workers, NEW k \in Ids, ReadsAccount(w, k)
  PROVE  Tables'
<1>1. Grown
  BY DEF ReadsAccount, Grown, Kept
<1>2. TablesFitTogether'
  BY DEF ReadsAccount, Tables, TablesFitTogether, PostedWith, WasPosted
<1>3. Sees(w, k) = NoAccount => k = CanonicalId(Head(todo[w]))
  <2>1. ASSUME NEW x, k \in Matches(w, x)
        PROVE  Sees(w, k) # NoAccount
    BY <2>1, AliasesAreSeen DEF Matches
  <2> QED
    BY <2>1 DEF ReadsAccount, Resolutions
<1>4. Sees(w, k) # NoAccount =>
        \A e \in Sees(w, k).evidence : e \in evidence \cup draft[w].evidence \/ PostedWith(k, e)
  BY SeenAccountsFit
<1>5. DraftFits(w)'
  <2>1. DraftFits(w)
    BY DEF Tables, DraftsFitTables
  <2> QED
    BY <1>3, <1>4, <2>1 DEF DraftFits, ReadsAccount, Sees, PostedWith, WasPosted
<1>6. \A v \in Workers \ {w} : DraftFits(v)'
  BY <1>1, UntouchedFits DEF Tables, ReadsAccount
<1> QED
  BY <1>2, <1>5, <1>6 DEF Tables, DraftsFitTables

\* What a write makes of the account: a row that is there and needs no write, a new row, or
\* one that is updated.
LeftAlone(w, c, k) ==
  /\ Sees(w, k) # NoAccount
  /\ base[w] # NoAccount => /\ ~Overwrites(c.source, base[w].source)
                            /\ c.evidence \subseteq base[w].evidence

Inserted(w, c, k, x) ==
  /\ base[w] = NoAccount /\ Sees(w, k) = NoAccount
  /\ x.source = c.source /\ x.evidence = c.evidence

Updated(w, c, k, x) ==
  /\ base[w] # NoAccount /\ Sees(w, k) # NoAccount
  /\ x.evidence = base[w].evidence \cup c.evidence
  /\ x.source = IF Overwrites(c.source, base[w].source) THEN c.source ELSE Sees(w, k).source

LEMMA EvidenceUpdate ==
  ASSUME NEW a \in Account, NEW e \in SUBSET Evidence
  PROVE  /\ [a EXCEPT !.evidence = e] \in Account
         /\ [a EXCEPT !.evidence = e].evidence = e
         /\ [a EXCEPT !.evidence = e].source = a.source
BY DEF Account

LEMMA MergedCases ==
  ASSUME Fits, NEW w \in Workers, pc[w] = "read", NEW c, c = Head(todo[w]), NEW k, k = target[w]
  PROVE  \/ LeftAlone(w, c, k) /\ Merged(w) = draft[w].accounts[k]
         \/ Merged(w) \in Account /\ (Inserted(w, c, k, Merged(w)) \/ Updated(w, c, k, Merged(w)))
<1>1. c \in Candidate /\ k \in Ids
  BY HeadTyped DEF Fits, TypeOK, JobsFitPlace, JobFits, Draft
<1>2. Sees(w, k) \in Account \cup {NoAccount} /\ base[w] \in Account \cup {NoAccount}
  BY <1>1, SeesTyped DEF Fits, TypeOK
<1>3. base[w] # NoAccount => Sees(w, k) # NoAccount
  BY DEF Fits, JobsFitPlace, JobFits
<1> DEFINE merged == base[w].evidence \cup c.evidence
<1>4. CASE base[w] = NoAccount
  <2>1. [source |-> c.source, evidence |-> c.evidence] \in Account
    BY <1>1 DEF Account, Candidate
  <2> QED
    BY <1>4, <2>1 DEF Merged, LeftAlone, Inserted
<1>5. CASE base[w] # NoAccount
  <2>1. merged \in SUBSET Evidence /\ c.source \in Source
    BY <1>1, <1>2, <1>5 DEF Account, Candidate
  <2>2. PICK x \in Account : x = [source |-> c.source, evidence |-> merged]
    BY <2>1 DEF Account
  <2>3. PICK y \in Account : /\ y = [Sees(w, k) EXCEPT !.evidence = merged]
                             /\ y.evidence = merged /\ y.source = Sees(w, k).source
    <3>1. Sees(w, k) \in Account
      BY <1>2, <1>3, <1>5
    <3> HIDE DEF merged
    <3> QED
      BY <2>1, <3>1, EvidenceUpdate
  <2>4. CASE Overwrites(c.source, base[w].source)
    <3>1. Merged(w) = x
      BY <1>5, <2>2, <2>4 DEF Merged
    <3> QED
      BY <1>3, <1>5, <2>2, <2>4, <3>1 DEF Updated
  <2>5. CASE ~Overwrites(c.source, base[w].source) /\ merged # base[w].evidence
    <3>1. Merged(w) = y
      BY <1>5, <2>3, <2>5 DEF Merged
    <3> QED
      BY <1>3, <1>5, <2>3, <2>5, <3>1 DEF Updated
  <2>6. CASE ~Overwrites(c.source, base[w].source) /\ merged = base[w].evidence
    <3>1. Merged(w) = draft[w].accounts[k] /\ c.evidence \subseteq base[w].evidence
      BY <1>5, <2>6 DEF Merged
    <3> QED
      BY <1>3, <1>5, <2>6, <3>1 DEF LeftAlone
  <2> QED
    BY <2>4, <2>5, <2>6
<1> QED
  BY <1>4, <1>5

\* What a job sees of the accounts once it has written the candidate.
LEMMA WrittenAccount ==
  ASSUME Fits, NEW w \in Workers, WritesCandidate(w), NEW c, c = Head(todo[w]),
         NEW k, k = target[w]
  PROVE  /\ k \in Ids /\ c \in Candidate /\ draft[w] \in Draft /\ k \in draft[w].touched
         /\ \A j \in Ids \ {k} : /\ Sees(w, j)' = Sees(w, j)
                                 /\ draft'[w].accounts[j] = draft[w].accounts[j]
         /\ \/ /\ LeftAlone(w, c, k)
               /\ Sees(w, k)' = Sees(w, k) /\ draft'[w].accounts[k] = draft[w].accounts[k]
            \/ \E x \in Account :
                 /\ Inserted(w, c, k, x) \/ Updated(w, c, k, x)
                 /\ Sees(w, k)' = x /\ draft'[w].accounts[k] = x
<1>1. k \in Ids /\ c \in Candidate /\ draft[w] \in Draft /\ k \in draft[w].touched
  BY MergedTyped, HeadTyped DEF WritesCandidate, Fits, TypeOK, JobsFitPlace, JobFits
<1>2. draft'[w].accounts = [draft[w].accounts EXCEPT ![k] = Merged(w)]
  BY DEF WritesCandidate, Drafted
<1>3. draft[w].accounts \in [Ids -> Account \cup {NoAccount}]
  BY <1>1 DEF Draft
<1>4. draft'[w].accounts[k] = Merged(w)
      /\ \A j \in Ids \ {k} : draft'[w].accounts[j] = draft[w].accounts[j]
  BY <1>1, <1>2, <1>3
<1>5. \A j \in Ids \ {k} : Sees(w, j)' = Sees(w, j)
  BY <1>4 DEF Sees, WritesCandidate
<1>6. CASE LeftAlone(w, c, k) /\ Merged(w) = draft[w].accounts[k]
  <2>1. Sees(w, k)' = Sees(w, k)
    BY <1>4, <1>6 DEF Sees, WritesCandidate
  <2> QED
    BY <1>1, <1>4, <1>5, <1>6, <2>1
<1>7. CASE Merged(w) \in Account /\ (Inserted(w, c, k, Merged(w)) \/ Updated(w, c, k, Merged(w)))
  <2>1. Sees(w, k)' = Merged(w)
    BY <1>4, <1>7, DiscoveryAssumption DEF Sees
  <2> QED
    BY <1>1, <1>4, <1>5, <1>7, <2>1
<1> QED
  BY <1>6, <1>7, MergedCases DEF WritesCandidate

LEMMA WriteTables ==
  ASSUME Fits, Tables, NEW w \in Workers, WritesCandidate(w)
  PROVE  Tables'
<1>0. PICK c, k, d, e : c = Head(todo[w]) /\ k = target[w] /\ d = draft[w] /\ e = draft'[w]
  OBVIOUS
<1>1. Grown
  BY DEF WritesCandidate, Grown, Kept
<1>2. TablesFitTogether'
  BY DEF WritesCandidate, Tables, TablesFitTogether, PostedWith, WasPosted
<1>3. \A v \in Workers \ {w} : DraftFits(v)'
  BY <1>1, UntouchedFits DEF Tables, WritesCandidate
<1>4. /\ k \in Ids /\ c \in Candidate /\ d \in Draft /\ k \in d.touched
      /\ \A j \in Ids \ {k} : /\ Sees(w, j)' = Sees(w, j)
                              /\ e.accounts[j] = d.accounts[j]
      /\ \/ /\ LeftAlone(w, c, k)
            /\ Sees(w, k)' = Sees(w, k) /\ e.accounts[k] = d.accounts[k]
         \/ \E x \in Account :
              /\ Inserted(w, c, k, x) \/ Updated(w, c, k, x)
              /\ Sees(w, k)' = x /\ e.accounts[k] = x
  BY <1>0, WrittenAccount
<1>5. /\ e.aliases = d.aliases \cup (AliasRows(k, c) \ aliases)
      /\ e.evidence = d.evidence \cup (c.evidence \ evidence)
      /\ e.scorings = d.scorings \cup ({<<k, job[w].query>>} \ scorings)
      /\ e.touched = d.touched
  <2>1. e = Drafted(w) /\ pc[w] = "read"
    BY <1>0 DEF WritesCandidate
  <2> QED
    BY <1>0, <2>1 DEF Drafted
<1>6. DraftFits(w) /\ job[w].query \in Queries /\ pc[w] = "read"
  BY DiscoveryAssumption
  DEF Tables, DraftsFitTables, WritesCandidate, Fits, JobsFitPlace, JobFits, OpenLabels
<1>7. UNCHANGED <<accounts, aliases, evidence, scorings, posted>> /\ pc'[w] # "read"
  BY DEF WritesCandidate
<1>8. Sees(w, k)' # NoAccount
  BY <1>4, DiscoveryAssumption DEF LeftAlone
<1>9. \A p \in e.aliases \cup e.scorings : Sees(w, p[1])' # NoAccount
  <2> SUFFICES ASSUME NEW p \in e.aliases \cup e.scorings
               PROVE  Sees(w, p[1])' # NoAccount
    OBVIOUS
  <2>1. CASE p[1] = k
    BY <1>4, <1>8, <2>1 DEF Sees
  <2>2. CASE p[1] # k
    <3>1. p \in d.aliases \cup d.scorings
      BY <1>5, <2>2 DEF AliasRows
    <3>2. p[1] \in Ids
      BY <1>4, <3>1 DEF Draft
    <3> QED
      BY <1>0, <1>4, <1>6, <2>2, <3>1, <3>2 DEF DraftFits
  <2> QED
    BY <2>1, <2>2
<1>10. ASSUME NEW j \in Ids, e.accounts[j] # NoAccount
       PROVE  /\ j \in e.touched
              /\ \A id \in e.accounts[j].evidence : id \in evidence \cup e.evidence \/ PostedWith(j, id)
              /\ ~WasPosted(j) => /\ \E q \in Queries : <<j, q>> \in scorings \cup e.scorings
                                  /\ j \in Names \/ <<j, j>> \in aliases \cup e.aliases
  <2>1. CASE d.accounts[j] = e.accounts[j]
    BY <1>0, <1>5, <1>6, <1>10, <2>1 DEF DraftFits
  <2>2. CASE d.accounts[j] # e.accounts[j]
    <3>1. j = k
      BY <1>4, <2>2
    <3>2. PICK x \in Account : /\ Inserted(w, c, k, x) \/ Updated(w, c, k, x)
                               /\ e.accounts[k] = x
      BY <1>4, <2>2, <3>1
    <3>3. c.evidence \subseteq evidence \cup e.evidence /\ d.evidence \subseteq e.evidence
          /\ d.aliases \subseteq e.aliases
      BY <1>5
    <3>4. <<k, job[w].query>> \in scorings \cup e.scorings
      BY <1>5
    <3>5. CASE Inserted(w, c, k, x)
      <4>1. k = CanonicalId(c)
        BY <1>0, <1>6, <3>5 DEF DraftFits, Inserted
      <4>2. k \in Names \/ <<k, k>> \in AliasRows(k, c)
        BY <1>4, <4>1 DEF CanonicalId, AliasRows, Candidate
      <4> QED
        BY <1>4, <1>5, <1>6, <3>1, <3>2, <3>3, <3>4, <3>5, <4>2 DEF Inserted
    <3>6. CASE Updated(w, c, k, x)
      <4>1. ~WasPosted(k) => k \in Names \/ <<k, k>> \in aliases \cup d.aliases
        BY <1>0, <1>4, <3>6, SeenAccountsFit DEF Updated
      <4>2. \A id \in base[w].evidence : id \in evidence \cup d.evidence \/ PostedWith(k, id)
        BY <1>0, <1>6, <3>6 DEF DraftFits, Updated
      <4> QED
        BY <1>4, <1>5, <1>6, <3>1, <3>2, <3>3, <3>4, <3>6, <4>1, <4>2 DEF Updated
    <3> QED
      BY <3>2, <3>5, <3>6
  <2> QED
    BY <2>1, <2>2
<1>11. DraftFits(w)'
  BY <1>0, <1>7, <1>9, <1>10 DEF DraftFits, PostedWith, WasPosted
<1> QED
  BY <1>2, <1>3, <1>11 DEF Tables, DraftsFitTables

LEMMA CommitGrows ==
  ASSUME NEW w \in Workers, CommitsTables(w)
  PROVE  Grown
BY DEF CommitsTables, CommitDraft, Grown, Kept, Sees

LEMMA CommitTables ==
  ASSUME Fits, Tables, NEW w \in Workers, CommitsTables(w)
  PROVE  Tables'
<1>1. \A v \in Workers : DraftFits(v)'
  BY CommitGrows, UntouchedFits, EmptiedFits DEF Tables, CommitsTables
<1>2. /\ \A k \in Ids : accounts'[k] = Sees(w, k)
      /\ aliases' = aliases \cup draft[w].aliases /\ evidence \cup draft[w].evidence \subseteq evidence'
      /\ scorings' = scorings \cup draft[w].scorings /\ posted' = posted
  BY DEF CommitsTables, CommitDraft
<1>3. ASSUME NEW k \in Ids, accounts'[k] # NoAccount
      PROVE  /\ \A e \in accounts'[k].evidence : e \in evidence' \/ PostedWith(k, e)'
             /\ ~WasPosted(k)' => /\ \E q \in Queries : <<k, q>> \in scorings'
                                  /\ k \in Names \/ <<k, k>> \in aliases'
  BY <1>2, <1>3, SeenAccountsFit DEF PostedWith, WasPosted
<1>4. ASSUME NEW p \in aliases' \cup scorings'
      PROVE  accounts'[p[1]] # NoAccount
  <2>1. p[1] \in Ids
    BY <1>2 DEF Fits, TypeOK, Draft
  <2>2. Sees(w, p[1]) # NoAccount
    BY <1>2, <2>1 DEF Tables, DraftsFitTables, DraftFits, TablesFitTogether, Sees
  <2> QED
    BY <1>2, <2>1, <2>2
<1>5. TablesFitTogether'
  BY <1>3, <1>4 DEF TablesFitTogether
<1> QED
  BY <1>1, <1>5 DEF Tables, DraftsFitTables

LEMMA PostGrows ==
  ASSUME NEW k \in Ids, NEW x \in Account, NEW o \in Offer, PostsAccount(k, x, o)
  PROVE  Grown
BY DEF PostsAccount, Grown, Kept

LEMMA PostTables ==
  ASSUME Fits, Tables, NEW k \in Ids, NEW x \in Account, NEW o \in Offer, PostsAccount(k, x, o)
  PROVE  Tables'
<1>1. \A v \in Workers : DraftFits(v)'
  BY PostGrows, UntouchedFits DEF Tables, PostsAccount
<1>2. /\ accounts'[k] # NoAccount /\ \A j \in Ids \ {k} : accounts'[j] = accounts[j]
      /\ WasPosted(k)' /\ \A e \in accounts'[k].evidence : PostedWith(k, e)'
  BY DEF PostsAccount, WasPosted, PostedWith
<1>3. ASSUME NEW j \in Ids, accounts'[j] # NoAccount
      PROVE  /\ \A e \in accounts'[j].evidence : e \in evidence' \/ PostedWith(j, e)'
             /\ ~WasPosted(j)' => /\ \E q \in Queries : <<j, q>> \in scorings'
                                  /\ j \in Names \/ <<j, j>> \in aliases'
  <2>1. CASE j = k
    BY <1>2, <2>1
  <2>2. CASE j # k
    BY <1>2, <1>3, <2>2, PostGrows, PostedGrow DEF Tables, TablesFitTogether, Grown
  <2> QED
    BY <2>1, <2>2
<1>4. ASSUME NEW p \in aliases' \cup scorings'
      PROVE  accounts'[p[1]] # NoAccount
  <2>1. p \in aliases \cup scorings \/ p[1] = k
    BY DEF PostsAccount
  <2>2. p \in aliases \cup scorings => p[1] \in Ids
    BY DEF Fits, TypeOK
  <2> QED
    BY <1>2, <2>1, <2>2 DEF Tables, TablesFitTogether
<1> QED
  BY <1>1, <1>3, <1>4 DEF Tables, DraftsFitTables, TablesFitTogether

LEMMA NextTables == Fits /\ Tables /\ [Next]_vars => Tables'
BY TableSteps, LeaveTables, ReadTables, WriteTables, CommitTables, PostTables

LEMMA TablesAlways == Spec => []Tables
BY FitsAlways, InitTables, NextTables, PTL DEF Spec

(***************************************************************************)
(* Whatever breaks off a run: the evidence that runs gave an account is    *)
(* there, an account a run created is queued for scoring and found again,  *)
(* and aliases and scoring rows name accounts that exist.                  *)
(***************************************************************************)
THEOREM TablesFit == Spec => []TablesFitTogether
<1>1. Tables => TablesFitTogether
  BY DEF Tables
<1> QED
  BY <1>1, TablesAlways, PTL

-----------------------------------------------------------------------------
(***************************************************************************)
(* Accounts that do not depend on the order of what they were offered.     *)
(***************************************************************************)
Converges == RacesAreNoticed /\ OffersHaveAccounts /\ SoleJobsAreCurrent /\ UnracedAccountsConverge

LEMMA InitConverges == Init => Converges
BY DEF Init, NoDraft, Converges, RacesAreNoticed, OffersHaveAccounts, SoleJobsAreCurrent, IsCurrent,
       UnracedAccountsConverge

\* should_update_account orders the sources.
LEMMA SourcesAreOrdered ==
  ASSUME NEW r \in Source, NEW s \in Source, NEW t \in Source
  PROVE  ~Overwrites(s, s) /\ (Overwrites(r, s) /\ Overwrites(s, t) => Overwrites(r, t))
<1>1. /\ r.trust \in Int /\ r.at \in Int /\ r.ref \in Int
      /\ s.trust \in Int /\ s.at \in Int /\ s.ref \in Int
      /\ t.trust \in Int /\ t.at \in Int /\ t.ref \in Int
  BY DEF Source
<1> QED
  BY <1>1 DEF Overwrites

\* An account stands for what it was offered, whatever is offered to others.
LEMMA StandsSame ==
  ASSUME NEW a, NEW k, NEW rows, NEW rows2, StandsFor(a, k, rows),
         \A o : o.account = k => (o \in rows <=> o \in rows2)
  PROVE  StandsFor(a, k, rows2)
<1>1. {o \in rows : o.account = k} = {o \in rows2 : o.account = k}
  OBVIOUS
<1> QED
  BY <1>1 DEF StandsFor

\* A new account stands for its only offer, and an updated one for the new offer as well.
LEMMA StandsInserted ==
  ASSUME NEW x \in Account, NEW k, NEW o \in Offer, NEW rows,
         o.account = k, x.source = o.source, x.evidence = o.evidence,
         \A p \in rows : p.account # k
  PROVE  StandsFor(x, k, rows \cup {o})
<1>1. {p \in rows \cup {o} : p.account = k} = {o}
  OBVIOUS
<1>2. ~Overwrites(o.source, x.source)
  BY SourcesAreOrdered DEF Offer
<1> QED
  BY <1>1, <1>2 DEF StandsFor

LEMMA StandsUpdated ==
  ASSUME NEW a \in Account, NEW x \in Account, NEW k, NEW o \in Offer, NEW rows \in SUBSET Offer,
         StandsFor(a, k, rows), o.account = k,
         x.evidence = a.evidence \cup o.evidence,
         x.source = IF Overwrites(o.source, a.source) THEN o.source ELSE a.source
  PROVE  StandsFor(x, k, rows \cup {o})
<1> DEFINE mine == {p \in rows : p.account = k}
           sources == {p.source : p \in mine}
<1>1. /\ \A e \in Evidence : e \in a.evidence <=> \E p \in mine : e \in p.evidence
      /\ a.source \in sources /\ \A s \in sources : ~Overwrites(s, a.source)
      /\ sources \subseteq Source
  BY DEF StandsFor, Offer
<1>2. {p \in rows \cup {o} : p.account = k} = mine \cup {o}
  OBVIOUS
<1>3. {p.source : p \in mine \cup {o}} = sources \cup {o.source}
  OBVIOUS
<1>4. a.source \in Source /\ o.source \in Source
  BY DEF Account, Offer
<1>5. x.source \in sources \cup {o.source}
      /\ \A s \in sources \cup {o.source} : ~Overwrites(s, x.source)
  <2> HIDE DEF sources
  <2> QED
    BY <1>1, <1>4, SourcesAreOrdered
<1>6. \A e \in Evidence : e \in x.evidence <=> \E p \in mine \cup {o} : e \in p.evidence
  <2> HIDE DEF mine
  <2> QED
    BY <1>1
<1> QED
  BY <1>2, <1>3, <1>5, <1>6 DEF StandsFor

\* What is asked of a job after a step.
LEMMA NextCurrent ==
  ASSUME NEW w \in Workers,
         pc'[w] = "read" /\ target'[w] \notin raced' =>
           base'[w] = IF draft'[w].accounts[target'[w]] # NoAccount
                      THEN draft'[w].accounts[target'[w]] ELSE accounts'[target'[w]],
         \A k \in draft'[w].touched \ raced' :
           Sees(w, k)' # NoAccount =>
             StandsFor(Sees(w, k)', k, offered' \cup posted' \cup draft'[w].offers)
  PROVE  IsCurrent(w)'
BY DEF IsCurrent, StandsFor, Sees

LEMMA Current ==
  ASSUME Converges, NEW w \in Workers, NEW k \in draft[w].touched \ raced, Sees(w, k) # NoAccount
  PROVE  StandsFor(Sees(w, k), k, offered \cup posted \cup draft[w].offers)
BY DEF Converges, SoleJobsAreCurrent, IsCurrent, StandsFor

LEMMA Converged ==
  ASSUME Converges, NEW k \in Ids \ raced, accounts[k] # NoAccount
  PROVE  StandsFor(accounts[k], k, offered \cup posted)
BY DEF Converges, UnracedAccountsConverge, StandsFor

\* A transaction writes accounts and makes offers for those it has touched.
LEMMA DraftsAreTouched ==
  ASSUME Tables, Converges, NEW w \in Workers, NEW k \in Ids, k \notin draft[w].touched
  PROVE  Sees(w, k) = accounts[k] /\ \A o \in draft[w].offers : o.account # k
<1>1. draft[w].accounts[k] # NoAccount => k \in draft[w].touched
  BY DEF Tables, DraftsFitTables, DraftFits
<1> QED
  BY <1>1 DEF Converges, OffersHaveAccounts, Sees

\* A step that leaves alone what the only job has in hand leaves the job current.
LEMMA StaysCurrent ==
  ASSUME Fits, Converges, NEW v \in Workers, Untouched(v), raced \subseteq raced',
         \A k \in draft[v].touched \ raced' :
           /\ accounts'[k] = accounts[k]
           /\ \A o : o.account = k => (o \in offered \cup posted <=> o \in offered' \cup posted')
  PROVE  IsCurrent(v)'
<1>1. IsCurrent(v) /\ draft'[v] = draft[v]
  BY DEF Converges, SoleJobsAreCurrent, Untouched
<1>2. \A k \in draft[v].touched \ raced' : Sees(v, k)' = Sees(v, k)
  BY <1>1 DEF Sees
<1>3. ASSUME pc'[v] = "read", target'[v] \notin raced'
      PROVE  base'[v] = IF draft'[v].accounts[target'[v]] # NoAccount
                        THEN draft'[v].accounts[target'[v]] ELSE accounts'[target'[v]]
  <2>1. pc[v] = "read" /\ target'[v] = target[v] /\ base'[v] = base[v]
    BY <1>3 DEF Untouched
  <2>2. target[v] \in draft[v].touched \ raced'
    BY <1>3, <2>1 DEF Fits, JobsFitPlace, JobFits
  <2> QED
    BY <1>1, <2>1, <2>2 DEF IsCurrent, Sees
<1>4. ASSUME NEW k \in draft'[v].touched \ raced', Sees(v, k)' # NoAccount
      PROVE  StandsFor(Sees(v, k)', k, offered' \cup posted' \cup draft'[v].offers)
  <2>1. k \in draft[v].touched \ raced /\ Sees(v, k)' = Sees(v, k)
    BY <1>1, <1>2, <1>4
  <2>2. StandsFor(Sees(v, k), k, offered \cup posted \cup draft[v].offers)
    BY <1>4, <2>1, Current
  <2>3. \A o : o.account = k =>
          (o \in offered \cup posted \cup draft[v].offers
             <=> o \in offered' \cup posted' \cup draft'[v].offers)
    BY <1>1, <1>4
  <2> QED
    BY <2>1, <2>2, <2>3, StandsSame
<1> QED
  BY <1>3, <1>4, NextCurrent

LEMMA EmptiedIsCurrent ==
  ASSUME NEW v \in Workers, Emptied(v)
  PROVE  IsCurrent(v)'
BY DEF Emptied, NoDraft, IsCurrent

\* No step but a reading puts an account into a second pair of hands.
LEMMA RacesStayNoticed ==
  ASSUME Converges, \A v \in Workers : draft'[v].touched \subseteq draft[v].touched,
         raced \subseteq raced'
  PROVE  RacesAreNoticed'
BY DEF Converges, RacesAreNoticed

\* The offers of a transaction left alone, or ended, have accounts.
LEMMA OffersStay ==
  ASSUME Fits, Converges, Kept, NEW v \in Workers, Untouched(v) \/ Emptied(v)
  PROVE  \A o \in draft'[v].offers :
           o.account \in draft'[v].touched /\ Sees(v, o.account)' # NoAccount
<1>1. CASE Untouched(v)
  <2> SUFFICES ASSUME NEW o \in draft[v].offers
               PROVE  o.account \in draft[v].touched /\ Sees(v, o.account)' # NoAccount
    BY <1>1 DEF Untouched
  <2>1. o.account \in Ids
    BY DEF Fits, TypeOK, Draft, Offer
  <2> QED
    BY <1>1, <2>1 DEF Converges, OffersHaveAccounts, Untouched, Kept, Sees
<1>2. CASE Emptied(v)
  BY <1>2 DEF Emptied, NoDraft
<1> QED
  BY <1>1, <1>2

LEMMA LeaveConverges == Fits /\ Converges /\ LeavesTables => Converges'
<1> SUFFICES ASSUME Fits, Converges, LeavesTables
             PROVE  Converges'
  OBVIOUS
<1>1. RacesAreNoticed'
  BY RacesStayNoticed DEF LeavesTables, Untouched, Emptied, NoDraft
<1>2. OffersHaveAccounts'
  <2>1. Kept
    BY DEF LeavesTables, Kept
  <2>2. \A o \in offered' \cup posted' : accounts'[o.account] # NoAccount
    BY DEF LeavesTables, Converges, OffersHaveAccounts
  <2> QED
    BY <2>1, <2>2, OffersStay DEF LeavesTables, OffersHaveAccounts
<1>3. SoleJobsAreCurrent'
  BY StaysCurrent, EmptiedIsCurrent DEF LeavesTables, SoleJobsAreCurrent
<1>4. UnracedAccountsConverge'
  BY DEF Converges, LeavesTables, UnracedAccountsConverge, StandsFor
<1> QED
  BY <1>1, <1>2, <1>3, <1>4 DEF Converges

LEMMA ReadConverges ==
  ASSUME Fits, Tables, Converges, NEW w \in Workers, NEW k \in Ids, ReadsAccount(w, k)
  PROVE  Converges'
<1>1. /\ UNCHANGED <<accounts, offered, posted>> /\ raced \subseteq raced'
      /\ \A v \in Workers \ {w} : Untouched(v)
  BY DEF ReadsAccount
<1>2. RacesAreNoticed'
  <2>1. \A v \in Workers \ {w} : draft'[v].touched = draft[v].touched
    BY <1>1 DEF Untouched
  <2>2. draft'[w].touched = draft[w].touched \cup {k}
    BY DEF ReadsAccount
  <2>3. \A v \in Workers \ {w} : k \in draft[v].touched => k \in raced'
    BY DEF ReadsAccount
  <2> QED
    BY <1>1, <2>1, <2>2, <2>3 DEF Converges, RacesAreNoticed
<1>3. OffersHaveAccounts'
  <2>1. Kept
    BY <1>1 DEF Kept
  <2>2. \A o \in offered' \cup posted' : accounts'[o.account] # NoAccount
    BY <1>1 DEF Converges, OffersHaveAccounts
  <2>3. \A o \in draft'[w].offers :
          o.account \in draft'[w].touched /\ Sees(w, o.account)' # NoAccount
    BY DEF Converges, OffersHaveAccounts, ReadsAccount, Sees
  <2> QED
    BY <1>1, <2>1, <2>2, <2>3, OffersStay DEF OffersHaveAccounts
<1>4. IsCurrent(w)'
  <2>1. pc'[w] = "read" /\ target'[w] \notin raced' =>
          base'[w] = IF draft'[w].accounts[target'[w]] # NoAccount
                     THEN draft'[w].accounts[target'[w]] ELSE accounts'[target'[w]]
    BY <1>1 DEF ReadsAccount, Sees
  <2>2. ASSUME NEW j \in draft'[w].touched \ raced', Sees(w, j)' # NoAccount
        PROVE  StandsFor(Sees(w, j)', j, offered' \cup posted' \cup draft'[w].offers)
    <3>1. Sees(w, j)' = Sees(w, j) /\ draft'[w].offers = draft[w].offers /\ j \notin raced
      BY <1>1, <2>2 DEF ReadsAccount, Sees
    <3>2. CASE j \in draft[w].touched
      BY <1>1, <2>2, <3>1, <3>2, Current
    <3>3. CASE j \notin draft[w].touched
      <4>1. j \in Ids
        BY <2>2, <3>3 DEF ReadsAccount
      <4>2. Sees(w, j) = accounts[j] /\ \A o \in draft[w].offers : o.account # j
        BY <3>3, <4>1, DraftsAreTouched
      <4>3. StandsFor(accounts[j], j, offered \cup posted)
        BY <2>2, <3>1, <4>1, <4>2, Converged
      <4> QED
        BY <1>1, <3>1, <4>2, <4>3, StandsSame
    <3> QED
      BY <3>2, <3>3
  <2> QED
    BY <2>1, <2>2, NextCurrent
<1>5. SoleJobsAreCurrent'
  BY <1>1, <1>4, StaysCurrent DEF SoleJobsAreCurrent
<1>6. UnracedAccountsConverge'
  BY <1>1 DEF Converges, UnracedAccountsConverge, StandsFor
<1> QED
  BY <1>2, <1>3, <1>5, <1>6 DEF Converges

LEMMA WriteConverges ==
  ASSUME Fits, Tables, Converges, NEW w \in Workers, WritesCandidate(w)
  PROVE  Converges'
<1>1. /\ UNCHANGED <<accounts, offered, posted, raced>>
      /\ \A v \in Workers \ {w} : Untouched(v)
  BY DEF WritesCandidate
<1>2. PICK c, k, d, e, o : /\ c = Head(todo[w]) /\ k = target[w] /\ d = draft[w] /\ e = draft'[w]
                           /\ o = [source |-> c.source, evidence |-> c.evidence, account |-> k]
  OBVIOUS
<1>3. /\ k \in Ids /\ c \in Candidate /\ d \in Draft /\ k \in d.touched
      /\ \A j \in Ids \ {k} : /\ Sees(w, j)' = Sees(w, j)
                              /\ e.accounts[j] = d.accounts[j]
      /\ \/ /\ LeftAlone(w, c, k)
            /\ Sees(w, k)' = Sees(w, k) /\ e.accounts[k] = d.accounts[k]
         \/ \E x \in Account :
              /\ Inserted(w, c, k, x) \/ Updated(w, c, k, x)
              /\ Sees(w, k)' = x /\ e.accounts[k] = x
  BY <1>2, WrittenAccount
<1>4. e.touched = d.touched /\ e.offers = d.offers \cup {o}
  <2>1. e = Drafted(w)
    BY <1>2 DEF WritesCandidate
  <2> QED
    BY <1>2, <2>1 DEF Drafted
<1>5. o \in Offer /\ o.account = k /\ o.source = c.source /\ o.evidence = c.evidence
  BY <1>2, <1>3 DEF Offer, Candidate
<1>6. Sees(w, k)' # NoAccount
  BY <1>3, DiscoveryAssumption DEF LeftAlone
<1>7. RacesAreNoticed'
  BY <1>1, <1>2, <1>4, RacesStayNoticed DEF Untouched
<1>8. OffersHaveAccounts'
  <2>1. Kept
    BY <1>1 DEF Kept
  <2>2. \A p \in offered' \cup posted' : accounts'[p.account] # NoAccount
    BY <1>1 DEF Converges, OffersHaveAccounts
  <2>3. ASSUME NEW p \in e.offers
        PROVE  p.account \in e.touched /\ Sees(w, p.account)' # NoAccount
    <3>1. CASE p.account = k
      BY <1>3, <1>4, <1>6, <3>1 DEF Sees
    <3>2. CASE p.account # k
      <4>1. p \in d.offers /\ p.account \in Ids
        BY <1>3, <1>4, <1>5, <3>2 DEF Draft, Offer
      <4>2. Sees(w, p.account)' = Sees(w, p.account)
        BY <1>3, <3>2, <4>1
      <4>3. p.account \in d.touched /\ Sees(w, p.account) # NoAccount
        BY <1>2, <4>1 DEF Converges, OffersHaveAccounts
      <4> QED
        BY <1>4, <4>2, <4>3
    <3> QED
      BY <3>1, <3>2
  <2> QED
    BY <1>1, <1>2, <2>1, <2>2, <2>3, OffersStay DEF OffersHaveAccounts
<1>9. ASSUME k \notin raced
      PROVE  StandsFor(Sees(w, k)', k, offered \cup posted \cup e.offers)
  <2>1. base[w] = Sees(w, k)
    BY <1>2, <1>9 DEF Converges, SoleJobsAreCurrent, IsCurrent, WritesCandidate
  <2>2. offered \cup posted \cup e.offers = (offered \cup posted \cup d.offers) \cup {o}
    BY <1>4
  <2>3. offered \cup posted \cup d.offers \in SUBSET Offer
    BY <1>3 DEF Fits, TypeOK, Draft, Offer
  <2>4. Sees(w, k) # NoAccount =>
          Sees(w, k) \in Account /\ StandsFor(Sees(w, k), k, offered \cup posted \cup d.offers)
    BY <1>2, <1>3, <1>9, SeesTyped, Current DEF Fits
  <2>5. CASE /\ LeftAlone(w, c, k) /\ Sees(w, k)' = Sees(w, k)
    <3>1. c.evidence \subseteq Sees(w, k).evidence /\ ~Overwrites(c.source, Sees(w, k).source)
      BY <2>1, <2>5 DEF LeftAlone
    <3>2. Sees(w, k).evidence = Sees(w, k).evidence \cup c.evidence
      BY <3>1
    <3> QED
      BY <1>5, <2>2, <2>3, <2>4, <2>5, <3>1, <3>2, StandsUpdated DEF LeftAlone
  <2>6. ASSUME NEW x \in Account, Inserted(w, c, k, x), Sees(w, k)' = x
        PROVE  StandsFor(x, k, offered \cup posted \cup e.offers)
    <3>1. \A p \in offered \cup posted \cup d.offers : p.account # k
      BY <1>2, <2>6 DEF Inserted, Converges, OffersHaveAccounts, Sees
    <3> QED
      BY <1>5, <2>2, <2>6, <3>1, StandsInserted DEF Inserted
  <2>7. ASSUME NEW x \in Account, Updated(w, c, k, x), Sees(w, k)' = x
        PROVE  StandsFor(x, k, offered \cup posted \cup e.offers)
    BY <1>5, <2>1, <2>2, <2>3, <2>4, <2>7, StandsUpdated DEF Updated
  <2> QED
    BY <1>3, <2>5, <2>6, <2>7
<1>10. ASSUME NEW j \in e.touched \ raced, Sees(w, j)' # NoAccount
       PROVE  StandsFor(Sees(w, j)', j, offered \cup posted \cup e.offers)
  <2>1. CASE j = k
    BY <1>9, <1>10, <2>1 DEF Sees
  <2>2. CASE j # k
    <3>1. j \in Ids /\ j \in draft[w].touched \ raced
      BY <1>2, <1>3, <1>4, <1>10 DEF Draft
    <3>2. Sees(w, j)' = Sees(w, j)
      BY <1>3, <2>2, <3>1
    <3>3. StandsFor(Sees(w, j), j, offered \cup posted \cup d.offers)
      BY <1>2, <1>10, <3>1, <3>2, Current
    <3>4. \A p : p.account = j => (p \in offered \cup posted \cup d.offers
                                     <=> p \in offered \cup posted \cup e.offers)
      BY <1>4, <1>5, <2>2
    <3> QED
      BY <3>2, <3>3, <3>4, StandsSame
  <2> QED
    BY <2>1, <2>2
<1>11. IsCurrent(w)'
  BY <1>1, <1>2, <1>10, NextCurrent DEF WritesCandidate
<1>12. SoleJobsAreCurrent'
  BY <1>1, <1>11, StaysCurrent DEF SoleJobsAreCurrent
<1>13. UnracedAccountsConverge'
  BY <1>1 DEF Converges, UnracedAccountsConverge, StandsFor
<1> QED
  BY <1>7, <1>8, <1>12, <1>13 DEF Converges

LEMMA CommitConverges ==
  ASSUME Fits, Tables, Converges, NEW w \in Workers, CommitsTables(w)
  PROVE  Converges'
<1>1. /\ \A k \in Ids : accounts'[k] = Sees(w, k)
      /\ offered' = offered \cup draft[w].offers
      /\ UNCHANGED <<raced, posted>>
      /\ Emptied(w) /\ \A v \in Workers \ {w} : Untouched(v)
  BY DEF CommitsTables, CommitDraft
<1>2. Kept
  BY CommitGrows DEF Grown
<1>3. RacesAreNoticed'
  BY <1>1, RacesStayNoticed DEF Untouched, Emptied, NoDraft
<1>4. OffersHaveAccounts'
  <2>1. ASSUME NEW o \in offered' \cup posted'
        PROVE  accounts'[o.account] # NoAccount
    <3>1. o.account \in Ids
      BY <1>1 DEF Fits, TypeOK, Draft, Offer
    <3> QED
      BY <1>1, <3>1 DEF Converges, OffersHaveAccounts, Sees
  <2> QED
    BY <1>1, <1>2, <2>1, OffersStay DEF OffersHaveAccounts
<1>5. ASSUME NEW v \in Workers \ {w}, NEW k \in draft[v].touched \ raced
      PROVE  /\ accounts'[k] = accounts[k]
             /\ \A o : o.account = k => (o \in offered <=> o \in offered')
  <2>1. k \in Ids /\ k \notin draft[w].touched
    BY <1>5 DEF Converges, RacesAreNoticed, Fits, TypeOK, Draft
  <2>2. Sees(w, k) = accounts[k] /\ \A o \in draft[w].offers : o.account # k
    BY <2>1, DraftsAreTouched
  <2> QED
    BY <1>1, <2>1, <2>2
<1>6. SoleJobsAreCurrent'
  BY <1>1, <1>5, StaysCurrent, EmptiedIsCurrent DEF SoleJobsAreCurrent
<1>7. ASSUME NEW k \in Ids \ raced, accounts'[k] # NoAccount
      PROVE  StandsFor(accounts'[k], k, offered' \cup posted')
  <2>1. CASE k \in draft[w].touched
    <3>1. StandsFor(Sees(w, k), k, offered \cup posted \cup draft[w].offers)
      BY <1>1, <1>7, <2>1, Current
    <3> QED
      BY <1>1, <3>1, StandsSame
  <2>2. CASE k \notin draft[w].touched
    <3>1. Sees(w, k) = accounts[k] /\ \A o \in draft[w].offers : o.account # k
      BY <1>7, <2>2, DraftsAreTouched
    <3>2. StandsFor(accounts[k], k, offered \cup posted)
      BY <1>1, <1>7, <3>1, Converged
    <3> QED
      BY <1>1, <1>7, <3>1, <3>2, StandsSame
  <2> QED
    BY <2>1, <2>2
<1>8. UnracedAccountsConverge'
  BY <1>1, <1>7 DEF UnracedAccountsConverge, StandsFor
<1> QED
  BY <1>3, <1>4, <1>6, <1>8 DEF Converges

LEMMA PostConverges ==
  ASSUME Fits, Tables, Converges, NEW k \in Ids, NEW x \in Account, NEW o \in Offer,
         PostsAccount(k, x, o)
  PROVE  Converges'
<1>1. Kept
  BY PostGrows DEF Grown
<1>2. /\ accounts[k] = NoAccount /\ accounts'[k] = x /\ x # NoAccount
      /\ \A j \in Ids \ {k} : accounts'[j] = accounts[j]
      /\ posted' = posted \cup {o} /\ raced \subseteq raced' /\ offered' = offered
      /\ o.account = k /\ x.source = o.source /\ x.evidence = o.evidence
      /\ \A v \in Workers : Untouched(v) /\ (k \in draft[v].touched => k \in raced')
  BY DEF PostsAccount, InHand
<1>3. RacesAreNoticed'
  BY <1>2, RacesStayNoticed DEF Untouched
<1>4. OffersHaveAccounts'
  <2>1. ASSUME NEW p \in offered' \cup posted'
        PROVE  accounts'[p.account] # NoAccount
    <3>1. p.account \in Ids /\ (p = o \/ p \in offered \cup posted)
      BY <1>2 DEF Fits, TypeOK, Offer
    <3> QED
      BY <1>1, <1>2, <3>1 DEF Converges, OffersHaveAccounts, Kept
  <2> QED
    BY <1>1, <1>2, <2>1, OffersStay DEF OffersHaveAccounts
<1>5. SoleJobsAreCurrent'
  <2>1. \A v \in Workers : draft[v].touched \subseteq Ids
    BY DEF Fits, TypeOK, Draft
  <2> QED
    BY <1>2, <2>1, StaysCurrent DEF SoleJobsAreCurrent
<1>6. ASSUME NEW j \in Ids \ raced', accounts'[j] # NoAccount
      PROVE  StandsFor(accounts'[j], j, offered' \cup posted')
  <2>1. CASE j = k
    <3>1. \A p \in offered \cup posted : p.account # k
      BY <1>2 DEF Converges, OffersHaveAccounts
    <3>2. StandsFor(x, k, (offered \cup posted) \cup {o})
      BY <1>2, <3>1, StandsInserted
    <3>3. offered' \cup posted' = (offered \cup posted) \cup {o}
      BY <1>2
    <3> QED
      BY <1>2, <2>1, <3>2, <3>3
  <2>2. CASE j # k
    BY <1>2, <1>6, <2>2, Converged, StandsSame
  <2> QED
    BY <2>1, <2>2
<1>7. UnracedAccountsConverge'
  BY <1>6 DEF UnracedAccountsConverge, StandsFor
<1> QED
  BY <1>3, <1>4, <1>5, <1>7 DEF Converges

LEMMA NextConverges == Fits /\ Tables /\ Converges /\ [Next]_vars => Converges'
BY TableSteps, LeaveConverges, ReadConverges, WriteConverges, CommitConverges, PostConverges

LEMMA ConvergesAlways == Spec => []Converges
BY FitsAlways, TablesAlways, InitConverges, NextConverges, PTL DEF Spec

(***************************************************************************)
(* An account that no two jobs, nor a job and a client, had in hand at     *)
(* once has the best of the sources it was offered and the evidence of     *)
(* them all, whatever the order of queries, candidates, deaths, replays.   *)
(***************************************************************************)
THEOREM AccountsConverge == Spec => []UnracedAccountsConverge
<1>1. Converges => UnracedAccountsConverge
  BY DEF Converges
<1> QED
  BY <1>1, ConvergesAlways, PTL

-----------------------------------------------------------------------------
(***************************************************************************)
(* Each job is one merge.                                                  *)
(***************************************************************************)

\* No two sources are of one rank, so that the best of some sources is unique.
LEMMA SourcesAreTotal ==
  ASSUME NEW r \in Source, NEW s \in Source
  PROVE  r = s \/ Overwrites(r, s) \/ Overwrites(s, r)
<1>1. /\ r.trust \in Int /\ r.at \in Int /\ r.ref \in Int
      /\ s.trust \in Int /\ s.at \in Int /\ s.ref \in Int
      /\ r = [trust |-> r.trust, at |-> r.at, ref |-> r.ref]
      /\ s = [trust |-> s.trust, at |-> s.at, ref |-> s.ref]
  BY DEF Source
<1> QED
  BY <1>1 DEF Overwrites

\* Whoever stands for some offers, and then for new ones too, was joined with the new ones.
LEMMA StandsJoined ==
  ASSUME NEW a \in Account, NEW b \in Account, NEW k,
         NEW rows \in SUBSET Offer, NEW new \in SUBSET Offer, \A o \in new : o.account = k,
         StandsFor(a, k, rows), StandsFor(b, k, rows \cup new)
  PROVE  IF new = {} THEN b = a ELSE Book!Joins(a, new, b)
<1> DEFINE old == {o \in rows : o.account = k}
           sources == {o.source : o \in old}
           added == {o.source : o \in new}
<1>1. {o \in rows \cup new : o.account = k} = old \cup new
  OBVIOUS
<1>2. {o.source : o \in old \cup new} = sources \cup added
  OBVIOUS
<1>3. /\ \A e \in Evidence : e \in a.evidence <=> \E o \in old : e \in o.evidence
      /\ \A e \in Evidence : e \in b.evidence <=> \E o \in old \cup new : e \in o.evidence
  BY <1>1 DEF StandsFor
<1>4. /\ a.source \in sources /\ \A s \in sources : ~Overwrites(s, a.source)
      /\ b.source \in sources \cup added /\ \A s \in sources \cup added : ~Overwrites(s, b.source)
  BY <1>1, <1>2 DEF StandsFor
<1>5. /\ a.evidence \subseteq Evidence /\ b.evidence \subseteq Evidence
      /\ a.source \in Source /\ b.source \in Source
      /\ \A o \in new : o.evidence \subseteq Evidence
  BY DEF Account, Offer
<1> HIDE DEF old, sources
<1>6. b.source \in sources => b.source = a.source
  BY <1>4, <1>5, SourcesAreTotal
<1>7. \A e : e \in b.evidence <=> e \in a.evidence \/ \E o \in new : e \in o.evidence
  BY <1>3, <1>5
<1>8. CASE new = {}
  <2>1. b.source = a.source /\ b.evidence = a.evidence
    BY <1>4, <1>6, <1>7, <1>8
  <2> QED
    BY <1>8, <2>1 DEF Account
<1>9. CASE new # {}
  <2>1. b.evidence = UNION ({o.evidence : o \in new} \cup {a.evidence})
    BY <1>7
  <2>2. b.source \in added \cup {a.source} /\ \A s \in added \cup {a.source} : ~Overwrites(s, b.source)
    BY <1>4, <1>6
  <2>3. a # NoAccount /\ b # NoAccount
    BY DiscoveryAssumption
  <2>4. Book!Joins(a, new, b)
    BY <2>1, <2>2, <2>3 DEF Book!Joins
  <2> QED
    BY <1>9, <2>4
<1> QED
  BY <1>8, <1>9

LEMMA StandsAlone ==
  ASSUME NEW b \in Account, NEW k, NEW new \in SUBSET Offer, \A o \in new : o.account = k,
         StandsFor(b, k, new)
  PROVE  new # {} /\ Book!Joins(NoAccount, new, b)
<1>1. {o \in new : o.account = k} = new
  OBVIOUS
<1>2. /\ \A e \in Evidence : e \in b.evidence <=> \E o \in new : e \in o.evidence
      /\ b.source \in {o.source : o \in new} /\ \A s \in {o.source : o \in new} : ~Overwrites(s, b.source)
  BY <1>1 DEF StandsFor
<1>3. b.evidence \subseteq Evidence /\ \A o \in new : o.evidence \subseteq Evidence
  BY DEF Account, Offer
<1>4. b.evidence = UNION {o.evidence : o \in new}
  BY <1>2, <1>3
<1> QED
  BY <1>2, <1>4, DiscoveryAssumption DEF Book!Joins

\* What a commit makes of the accounts nobody else had in hand.
LEMMA CommitJoins ==
  ASSUME Fits, Tables, Converges, NEW w \in Workers, CommitsTables(w), NEW k \in Ids \ raced
  PROVE  LET new == {o \in offered' \ offered : o.account = k}
         IN IF new = {} THEN accounts'[k] = accounts[k]
            ELSE Book!Joins(accounts[k], new, accounts'[k])
<1>1. PICK a, b, rows, new : /\ a = accounts[k] /\ b = accounts'[k]
                             /\ rows = offered \cup posted
                             /\ new = {o \in offered' \ offered : o.account = k}
  OBVIOUS
<1>2. /\ offered \subseteq offered' /\ UNCHANGED <<raced, posted>>
      /\ \A j \in Ids : accounts'[j] = Sees(w, j)
  BY DEF CommitsTables, CommitDraft
<1>3. /\ a \in Account \cup {NoAccount} /\ b \in Account \cup {NoAccount}
      /\ rows \in SUBSET Offer /\ new \in SUBSET Offer /\ \A o \in new : o.account = k
  <2>1. Sees(w, k) \in Account \cup {NoAccount}
    BY SeesTyped DEF Fits
  <2>2. draft[w].offers \in SUBSET Offer
    BY DEF Fits, TypeOK, Draft
  <2> QED
    BY <1>1, <1>2, <2>1, <2>2 DEF Fits, TypeOK, CommitsTables, CommitDraft
<1>4. Converges'
  BY CommitConverges
<1>5. b # NoAccount => StandsFor(b, k, rows \cup new)
  <2>1. b # NoAccount => StandsFor(b, k, offered' \cup posted')
    BY <1>1, <1>2, <1>4 DEF Converges, UnracedAccountsConverge, StandsFor
  <2>2. \A o : o.account = k => (o \in offered' \cup posted' <=> o \in rows \cup new)
    BY <1>1, <1>2
  <2> QED
    BY <2>1, <2>2, StandsSame
<1>6. a # NoAccount => StandsFor(a, k, rows)
  BY <1>1, Converged
<1>7. a # NoAccount => b # NoAccount
  BY <1>1, CommitGrows DEF Grown, Kept
<1>8. IF new = {} THEN b = a ELSE Book!Joins(a, new, b)
  <2>1. CASE a # NoAccount
    <3>1. a \in Account /\ b \in Account
      BY <1>3, <1>7, <2>1
    <3> QED
      BY <1>3, <1>5, <1>6, <1>7, <2>1, <3>1, StandsJoined
  <2>2. CASE a = NoAccount /\ b # NoAccount
    <3>1. \A o \in rows : o.account # k
      BY <1>1, <2>2 DEF Converges, OffersHaveAccounts
    <3>2. StandsFor(b, k, new)
      BY <1>5, <2>2, <3>1, StandsSame
    <3>3. b \in Account
      BY <1>3, <2>2
    <3>4. new # {} /\ Book!Joins(NoAccount, new, b)
      <4> HIDE DEF Book!Joins
      <4> QED
        BY <1>3, <3>2, <3>3, StandsAlone
    <3> QED
      BY <2>2, <3>4
  <2>3. CASE a = NoAccount /\ b = NoAccount
    <3>1. new = {}
      BY <1>1, <1>4, <2>3 DEF Converges, OffersHaveAccounts
    <3> QED
      BY <2>3, <3>1
  <2> QED
    BY <2>1, <2>2, <2>3
<1> QED
  BY <1>1, <1>8

LEMMA CommitMerges ==
  ASSUME Fits, Tables, Converges, NEW w \in Workers, CommitsTables(w)
  PROVE  Book!Merge
<1>1. offered \subseteq offered' /\ raced' = raced
  BY DEF CommitsTables, CommitDraft
<1>2. \A k \in Ids \ raced : LET new == {o \in offered' \ offered : o.account = k}
                             IN IF new = {} THEN accounts'[k] = accounts[k]
                                ELSE Book!Joins(accounts[k], new, accounts'[k])
  BY CommitJoins
<1> QED
  BY <1>1, <1>2 DEF Book!Merge, Book!OffersFor

LEMMA BookSteps ==
  ASSUME Fits, Tables, Converges, [Next]_vars
  PROVE  \/ UNCHANGED <<accounts, offered, raced>>
         \/ \E k \in Ids : raced' = raced \cup {k} /\ UNCHANGED <<accounts, offered>>
         \/ Book!Merge
         \/ \E k \in Ids, x \in Account, o \in Offer : PostsAccount(k, x, o)
BY TableSteps, CommitMerges DEF LeavesTables, ReadsAccount, WritesCandidate

LEMMA StepsRefine ==
  ASSUME Fits, Tables, Converges, [Next]_vars
  PROVE  [Book!Next]_<<[k \in Ids |-> IF k \in raced THEN NoAccount ELSE accounts[k]], offered, raced>>
<1>1. CASE UNCHANGED <<accounts, offered, raced>>
  BY <1>1
<1>2. ASSUME NEW k \in Ids, raced' = raced \cup {k}, UNCHANGED <<accounts, offered>>
      PROVE  Book!Dispute(k)
  BY <1>2 DEF Book!Dispute
<1>3. ASSUME NEW k \in Ids, NEW x \in Account, NEW o \in Offer, PostsAccount(k, x, o)
      PROVE  \/ Book!Post(k) \/ Book!Dispute(k)
             \/ UNCHANGED <<[j \in Ids |-> IF j \in raced THEN NoAccount ELSE accounts[j]], offered, raced>>
  <2> DEFINE book == [j \in Ids |-> IF j \in raced THEN NoAccount ELSE accounts[j]]
             after == [j \in Ids |-> IF j \in raced' THEN NoAccount ELSE accounts'[j]]
  <2>1. /\ accounts[k] = NoAccount /\ offered' = offered /\ accounts'[k] = x
        /\ \A j \in Ids \ {k} : accounts'[j] = accounts[j]
        /\ raced' = raced \/ raced' = raced \cup {k}
    BY <1>3 DEF PostsAccount
  <2>2. CASE raced' = raced /\ k \notin raced
    <3>1. after = [book EXCEPT ![k] = x] /\ book[k] = NoAccount /\ after[k] = x
      BY <2>1, <2>2
    <3> QED
      BY <2>1, <2>2, <3>1 DEF Book!Post
  <2>3. CASE k \in raced' /\ k \notin raced
    <3>1. after = [book EXCEPT ![k] = NoAccount] /\ raced' = raced \cup {k}
      BY <2>1, <2>3
    <3> QED
      BY <2>1, <2>3, <3>1 DEF Book!Dispute
  <2>4. CASE k \in raced
    <3>1. after = book /\ raced' = raced
      BY <2>1, <2>4
    <3> QED
      BY <2>1, <3>1
  <2> QED
    BY <2>1, <2>2, <2>3, <2>4
<1> QED
  BY <1>1, <1>2, <1>3, BookSteps DEF Book!Next

(***************************************************************************)
(* The abstract account book is implemented: a job's commit is one merge   *)
(* of all its candidates with what is in the book at that time, for every  *)
(* account that no other job nor a client had in hand meanwhile.           *)
(***************************************************************************)
THEOREM DiscoveryImplementsAccountBook == Spec => ImplementsAccountBook
<1>1. Init => Book!Init
  BY DEF Init, Book!Init
<1> QED
  BY <1>1, FitsAlways, TablesAlways, ConvergesAlways, StepsRefine, PTL DEF Spec, ImplementsAccountBook, Book!Spec

\* A join is an improvement.
LEMMA JoinsImprove ==
  ASSUME NEW a \in Account, NEW offers, NEW b, Book!Joins(a, offers, b),
         \A o \in offers : o.source \in Source
  PROVE  Improves(a, b)
<1>1. a # NoAccount
  BY DiscoveryAssumption
<1>2. /\ b # NoAccount /\ a.evidence \subseteq b.evidence
      /\ b.source \in {o.source : o \in offers} \cup {a.source} /\ ~Overwrites(a.source, b.source)
  BY <1>1 DEF Book!Joins
<1>3. a.source \in Source /\ b.source \in Source
  BY <1>2 DEF Account
<1> QED
  BY <1>2, <1>3, SourcesAreTotal DEF Improves

(***************************************************************************)
(* No step loses such an account, any of its evidence, or its source to    *)
(* one that does not precede it.                                           *)
(***************************************************************************)
THEOREM AccountsImprove == Spec => UnracedAccountsImprove
<1>1. ASSUME Fits, Tables, Converges, [Next]_vars, NEW k \in Ids \ raced', accounts[k] # NoAccount
      PROVE  Improves(accounts[k], accounts'[k])
  <2>1. accounts[k] \in Account
    BY <1>1 DEF Fits, TypeOK
  <2>2. accounts'[k] = accounts[k] => Improves(accounts[k], accounts'[k])
    BY <1>1 DEF Improves
  <2>3. ASSUME NEW j \in Ids, NEW x \in Account, NEW o \in Offer, PostsAccount(j, x, o)
        PROVE  Improves(accounts[k], accounts'[k])
    <3>1. j # k
      BY <1>1, <2>3 DEF PostsAccount
    <3>2. accounts'[k] = accounts[k]
      BY <1>1, <2>3, <3>1 DEF PostsAccount
    <3> QED
      BY <2>2, <3>2
  <2>4. ASSUME Book!Merge
        PROVE  Improves(accounts[k], accounts'[k])
    <3> DEFINE new == {o \in offered' \ offered : o.account = k}
    <3>1. raced' = raced
      BY <2>4 DEF Book!Merge
    <3>2. IF new = {} THEN accounts'[k] = accounts[k] ELSE Book!Joins(accounts[k], new, accounts'[k])
      BY <1>1, <2>4, <3>1 DEF Book!Merge, Book!OffersFor
    <3>3. \A o \in new : o.source \in Source
      <4>1. Fits'
        BY <1>1, NextFits
      <4> QED
        BY <4>1 DEF Fits, TypeOK, Offer
    <3> HIDE DEF new
    <3> QED
      BY <2>1, <2>2, <3>2, <3>3, JoinsImprove
  <2> QED
    BY <1>1, <2>2, <2>3, <2>4, BookSteps
<1>2. Fits /\ Tables /\ Converges /\ [Next]_vars =>
        [\A k \in Ids \ raced' : accounts[k] # NoAccount => Improves(accounts[k], accounts'[k])]_vars
  BY <1>1
<1> QED
  BY <1>2, FitsAlways, TablesAlways, ConvergesAlways, PTL DEF Spec, UnracedAccountsImprove

=============================================================================
