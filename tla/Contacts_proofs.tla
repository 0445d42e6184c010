-------------------------- MODULE Contacts_proofs --------------------------
(***************************************************************************)
(* Proofs about Contacts: type correctness, whole contacts, completed      *)
(* searches, the order in which candidates are kept, and both caps as      *)
(* counted caps, from which the bounds on their overshoot follow.          *)
(***************************************************************************)
EXTENDS Contacts, FiniteSetTheorems, WellFoundedInduction, TLAPS

LEMMA LeastElement ==
  ASSUME NEW S \in SUBSET Nat, S # {}
  PROVE  \E n \in S : \A m \in S : n <= m
<1> DEFINE Less == {ss \in Nat \X Nat : ss[1] < ss[2]}
<1>1. IsWellFoundedOn(Less, Nat)
  BY NatLessThanWellFounded DEF OpToRel
<1>2. \A m, n \in Nat : m < n => <<m, n>> \in Less
  OBVIOUS
<1> HIDE DEF Less
<1>3. \E n \in S : \A m \in S : <<m, n>> \notin Less
  BY <1>1, WFMin
<1>4. PICK n \in S : \A m \in S : <<m, n>> \notin Less
  BY <1>3
<1>5. \A m \in S : n <= m
  <2> SUFFICES ASSUME NEW m \in S, m < n
               PROVE  FALSE
    OBVIOUS
  <2> QED
    BY <1>2, <1>4
<1> QED
  BY <1>5

-----------------------------------------------------------------------------
(***************************************************************************)
(* What a transaction that inserts rows does to the tables.                *)
(***************************************************************************)
TablesOK ==
  /\ contacts \subseteq Contact /\ aliases \subseteq Alias /\ enrichments \subseteq Enrichment
  /\ ContactsAreWhole /\ AliasesFit
  /\ IsFiniteSet(contacts) /\ IsFiniteSet(enrichments)

\* The rows of a file or of an answer, and what is inserted for them, are finitely many.
LEMMA PickedAreFinite ==
  ASSUME NEW rows \in Seq(Candidate), NEW picked \in SUBSET DOMAIN rows
  PROVE  IsFiniteSet({ContactId(rows[i]) : i \in picked})
<1> DEFINE ids == {ContactId(rows[i]) : i \in picked}
           f == [i \in picked |-> ContactId(rows[i])]
<1>1. IsFiniteSet(picked)
  BY FS_Interval, FS_Subset
<1>2. f \in Surjection(picked, ids)
  BY DEF Surjection
<1> QED
  BY <1>1, <1>2, FS_Surjection

LEMMA InsertedAreFinite ==
  ASSUME NEW ids, IsFiniteSet(ids), NEW x
  PROVE  /\ IsFiniteSet({[id |-> id, origin |-> x] : id \in ids})
         /\ IsFiniteSet({[run |-> x, contact |-> id] : id \in ids})
<1> DEFINE T == {[id |-> id, origin |-> x] : id \in ids}
           U == {[run |-> x, contact |-> id] : id \in ids}
<1>1. [id \in ids |-> [id |-> id, origin |-> x]] \in Surjection(ids, T)
  BY DEF Surjection
<1>2. [id \in ids |-> [run |-> x, contact |-> id]] \in Surjection(ids, U)
  BY DEF Surjection
<1> QED
  BY <1>1, <1>2, FS_Surjection

LEMMA IdentitiesOfCandidates ==
  ASSUME NEW c \in Candidate, HasIdentity(c)
  PROVE  /\ ContactId(c) \in ContactIds
         /\ ContactId(c)[1] = c.account
         /\ ContactId(c)[2] \in AliasTypes
         /\ ContactId(c)[3] = Identity(c, ContactId(c)[2])
         /\ Identity(c, ContactId(c)[2]) # NoValue
BY DEF Candidate, HasIdentity, ContactId, ContactIds, Identity, AliasTypes

LEMMA NewAliasesFit ==
  ASSUME NEW rows \in Seq(Candidate), NEW picked \in SUBSET DOMAIN rows,
         \A i \in picked : HasIdentity(rows[i])
  PROVE  \A al \in NewAliases(rows, picked) :
           al \in Alias /\ (al.type = al.contact[2] => al.value = al.contact[3])
<1> SUFFICES ASSUME NEW al \in NewAliases(rows, picked)
             PROVE  al \in Alias /\ (al.type = al.contact[2] => al.value = al.contact[3])
  OBVIOUS
<1>1. PICK i \in picked, type \in AliasTypes :
        /\ al = [contact |-> ContactId(rows[i]), type |-> type, value |-> Identity(rows[i], type)]
        /\ Identity(rows[i], type) # NoValue
  BY DEF NewAliases
<1>2. rows[i] \in Candidate /\ HasIdentity(rows[i])
  OBVIOUS
<1>3. Identity(rows[i], type) \in Values
  BY <1>1, <1>2 DEF Identity, Candidate
<1> QED
  BY <1>1, <1>2, <1>3, IdentitiesOfCandidates DEF Alias

\* The identity in the id of a picked row is among the aliases afterwards: it was, or the
\* first row with that id inserts it.
LEMMA OwnAliasIsWritten ==
  ASSUME NEW rows \in Seq(Candidate), NEW picked \in SUBSET DOMAIN rows,
         \A j \in picked : HasIdentity(rows[j]), aliases \subseteq Alias, AliasesFit,
         NEW i \in picked
  PROVE  LET id == ContactId(rows[i])
         IN [contact |-> id, type |-> id[2], value |-> id[3]]
              \in aliases \cup NewAliases(rows, picked)
<1> DEFINE id == ContactId(rows[i])
           same == {j \in picked : ContactId(rows[j]) = id}
<1>1. \A j \in picked : rows[j] \in Candidate /\ HasIdentity(rows[j])
  OBVIOUS
<1>2. \A j \in same : /\ id[2] \in AliasTypes /\ id[3] = Identity(rows[j], id[2])
                      /\ Identity(rows[j], id[2]) # NoValue
  BY <1>1, IdentitiesOfCandidates
<1>3. CASE \E al \in aliases : al.contact = id /\ al.type = id[2]
  <2>1. PICK al \in aliases : al.contact = id /\ al.type = id[2]
    BY <1>3
  <2>2. al = [contact |-> id, type |-> id[2], value |-> id[3]]
    BY <2>1 DEF AliasesFit, Alias
  <2> QED
    BY <2>2
<1>4. CASE \A al \in aliases : ~(al.contact = id /\ al.type = id[2])
  <2>1. same \in SUBSET Nat /\ same # {}
    OBVIOUS
  <2>2. PICK j \in same : \A k \in same : j <= k
    BY <2>1, LeastElement
  <2>3. \A k \in picked : (k < j /\ ContactId(rows[k]) = id) => FALSE
    BY <2>1, <2>2
  <2>4. id[2] \in AliasTypes /\ ContactId(rows[j]) = id /\ j \in picked
        /\ Identity(rows[j], id[2]) # NoValue /\ id[3] = Identity(rows[j], id[2])
    BY <1>2, <2>2
  <2> HIDE DEF id
  <2>5. <<j, id[2]>> \in {q \in picked \X AliasTypes :
              LET d == ContactId(rows[q[1]])
              IN /\ Identity(rows[q[1]], q[2]) # NoValue
                 /\ \A al \in aliases : ~(al.contact = d /\ al.type = q[2])
                 /\ \A k \in picked : (k < q[1] /\ ContactId(rows[k]) = d)
                                         => Identity(rows[k], q[2]) = NoValue}
    BY <1>4, <2>3, <2>4
  <2>6. [contact |-> ContactId(rows[j]), type |-> id[2], value |-> Identity(rows[j], id[2])]
          \in NewAliases(rows, picked)
    BY <2>5 DEF NewAliases
  <2> QED
    BY <2>4, <2>6 DEF id
<1> QED
  BY <1>3, <1>4

LEMMA InsertKeepsTables ==
  ASSUME TablesOK, NEW rows \in Seq(Candidate), NEW picked \in SUBSET DOMAIN rows,
         \A i \in picked : HasIdentity(rows[i]),
         NEW origin \in {"search", "import"}, NEW run \in Runs \cup {ImportRun},
         Insert(rows, picked, origin, run)
  PROVE  /\ TablesOK'
         /\ contacts \subseteq contacts'
         /\ \A i \in picked : \E c \in contacts' : c.id = ContactId(rows[i])
<1> DEFINE ids == {ContactId(rows[i]) : i \in picked}
           unknown == {x \in ids : ~Known(x)}
           unasked == {x \in ids : \A en \in enrichments : en.contact # x}
           newContacts == {[id |-> id, origin |-> origin] : id \in unknown}
           newEnrichments == {[run |-> run, contact |-> id] : id \in unasked}
<1>1. /\ contacts' = contacts \cup newContacts
      /\ aliases' = aliases \cup NewAliases(rows, picked)
      /\ enrichments' = enrichments \cup newEnrichments
  BY DEF Insert
<1>2. ids \subseteq ContactIds
  BY IdentitiesOfCandidates
<1>3. contacts' \subseteq Contact /\ enrichments' \subseteq Enrichment
  BY <1>1, <1>2 DEF TablesOK, Contact, Enrichment
<1>4. aliases' \subseteq Alias /\ AliasesFit'
  BY <1>1, NewAliasesFit DEF TablesOK, AliasesFit
<1>5. \A id \in ids : Known(id)'
  <2>1. ASSUME NEW id \in ids
        PROVE  \E c \in contacts' : c.id = id
    <3>1. CASE Known(id)
      BY <1>1, <3>1 DEF Known
    <3>2. CASE ~Known(id)
      <4>1. [id |-> id, origin |-> origin] \in newContacts
        BY <3>2
      <4> HIDE DEF newContacts
      <4> QED
        BY <1>1, <4>1
    <3> QED
      BY <3>1, <3>2
  <2> QED
    BY <2>1 DEF Known
<1>6. \A id \in ids : \E en \in enrichments' : en.contact = id
  <2> SUFFICES ASSUME NEW id \in ids, \A en \in enrichments : en.contact # id
               PROVE  \E en \in enrichments' : en.contact = id
    BY <1>1
  <2>1. [run |-> run, contact |-> id] \in newEnrichments
    OBVIOUS
  <2> HIDE DEF newEnrichments
  <2> QED
    BY <1>1, <2>1
<1>7. \A id \in ids : [contact |-> id, type |-> id[2], value |-> id[3]] \in aliases'
  BY <1>1, OwnAliasIsWritten DEF TablesOK
<1>8. \A c \in contacts' : c \in contacts \/ c.id \in ids
  BY <1>1
<1>9. \A en \in enrichments' : en \in enrichments \/ en.contact \in ids
  BY <1>1
<1>10. \A id : Known(id) => Known(id)'
  BY <1>1 DEF Known
<1>11. ContactsAreWhole'
  <2>1. \A c \in contacts' : \E en \in enrichments' : en.contact = c.id
    BY <1>1, <1>6, <1>8 DEF TablesOK, ContactsAreWhole
  <2>2. \A c \in contacts' : [contact |-> c.id, type |-> c.id[2], value |-> c.id[3]] \in aliases'
    BY <1>1, <1>7, <1>8 DEF TablesOK, ContactsAreWhole
  <2>3. \A en \in enrichments' : Known(en.contact)'
    BY <1>5, <1>9, <1>10 DEF TablesOK, ContactsAreWhole
  <2> QED
    BY <2>1, <2>2, <2>3 DEF ContactsAreWhole
<1>12. IsFiniteSet(contacts') /\ IsFiniteSet(enrichments')
  <2>1. IsFiniteSet(unknown) /\ IsFiniteSet(unasked)
    BY PickedAreFinite, FS_Subset
  <2>2. IsFiniteSet(newContacts) /\ IsFiniteSet(newEnrichments)
    <3> HIDE DEF unknown, unasked
    <3> QED
      BY <2>1, InsertedAreFinite
  <2> HIDE DEF newContacts, newEnrichments
  <2> QED
    BY <1>1, <2>2, FS_Union DEF TablesOK
<1> QED
  BY <1>1, <1>3, <1>4, <1>5, <1>11, <1>12 DEF TablesOK, Known

-----------------------------------------------------------------------------
(***************************************************************************)
(* Candidates.                                                             *)
(***************************************************************************)
LEMMA CandidatesAreCandidates ==
  ASSUME NEW a \in Accounts
  PROVE  /\ Finds[a] \in Seq(Candidate)
         /\ Candidates(a) \in SUBSET DOMAIN Finds[a]
         /\ \A i \in Candidates(a) : /\ Finds[a][i] \in Candidate /\ HasIdentity(Finds[a][i])
                                      /\ Finds[a][i].account = a
                                      /\ ContactId(Finds[a][i])[1] = a
<1>1. Finds[a] \in Seq(Candidate) /\ Candidates(a) \in SUBSET DOMAIN Finds[a]
  BY ContactsAssumption DEF Candidates
<1>2. \A i \in Candidates(a) : Finds[a][i] \in Candidate /\ Usable(a, i)
  BY <1>1 DEF Candidates
<1> QED
  BY <1>1, <1>2, IdentitiesOfCandidates DEF Usable

\* Of two rows with the same id the first one is a candidate.
LEMMA CandidatesDiffer ==
  ASSUME NEW a \in Accounts, NEW i \in Candidates(a), NEW j \in Candidates(a),
         ContactId(Finds[a][i]) = ContactId(Finds[a][j])
  PROVE  i = j
<1>1. i \in Nat /\ j \in Nat /\ i >= 1 /\ j >= 1 /\ Usable(a, i) /\ Usable(a, j)
  BY CandidatesAreCandidates DEF Candidates
<1>2. ~(i < j) /\ ~(j < i)
  BY <1>1 DEF Candidates
<1> QED
  BY <1>1, <1>2

LEMMA BestCandidate ==
  ASSUME NEW a \in Accounts, Candidates(a) # {}
  PROVE  \E i \in Candidates(a) : NewBefore(a, i) = {}
<1> DEFINE ranks == {Finds[a][i].rank : i \in Candidates(a)}
<1>1. \A i \in Candidates(a) : Finds[a][i].rank \in Nat
  BY CandidatesAreCandidates DEF Candidate
<1>2. ranks \in SUBSET Nat /\ ranks # {}
  BY <1>1
<1>3. PICK n \in ranks : \A m \in ranks : n <= m
  BY <1>2, LeastElement
<1>4. PICK i \in Candidates(a) : Finds[a][i].rank = n
  BY <1>3
<1>5. ASSUME NEW j \in Candidates(a)
      PROVE  ~Better(a, j, i)
  <2>1. Finds[a][j].rank \in ranks
    OBVIOUS
  <2>2. n <= Finds[a][j].rank
    BY <1>3, <2>1
  <2>3. n \in Nat /\ Finds[a][j].rank \in Nat
    BY <1>1, <1>4
  <2> QED
    BY <1>4, <2>2, <2>3 DEF Better
<1> QED
  BY <1>4, <1>5 DEF NewBefore

LEMMA NewBeforeIsFinite ==
  ASSUME NEW a \in Accounts, NEW i
  PROVE  IsFiniteSet(NewBefore(a, i)) /\ Cardinality(NewBefore(a, i)) \in Nat
<1>1. Len(Finds[a]) \in Nat /\ NewBefore(a, i) \subseteq 1..Len(Finds[a])
  BY CandidatesAreCandidates DEF NewBefore
<1>2. IsFiniteSet(1..Len(Finds[a]))
  BY <1>1, FS_Interval
<1> QED
  BY <1>1, <1>2, FS_Subset, FS_CardinalityType

-----------------------------------------------------------------------------
(***************************************************************************)
(* The inductive invariant.                                                *)
(***************************************************************************)
Inv == TypeOK /\ JobsFitPlace /\ TablesOK

LEMMA InitInv == Init => Inv
BY ContactsAssumption, FS_EmptySet DEF Init, Inv, TablesOK, TypeOK, PcLabels, Outcomes,
   JobsFitPlace, ContactsAreWhole, AliasesFit

\* Freeing a worker keeps whatever holds of the tables and of the other workers' jobs.
LEMMA ReleaseInv ==
  ASSUME Inv, NEW w \in Workers, Release(w), UNCHANGED <<contacts, aliases, enrichments>>
  PROVE  /\ pc' \in [Workers -> PcLabels]
         /\ job' \in [Workers -> Item \cup {NoJob}]
         /\ loaded' \in [Workers -> Nat]
         /\ runLeft' \in [Workers -> 0..MaxContactsTotalPerRun]
         /\ accountLeft' \in [Workers -> 0..MaxContactsPerAccount]
         /\ outcome' \in [Workers -> Outcomes]
         /\ JobsFitPlace' /\ TablesOK'
<1>1. /\ pc' \in [Workers -> PcLabels] /\ job' \in [Workers -> Item \cup {NoJob}]
      /\ loaded' \in [Workers -> Nat] /\ outcome' \in [Workers -> Outcomes]
      /\ runLeft' \in [Workers -> 0..MaxContactsTotalPerRun]
      /\ accountLeft' \in [Workers -> 0..MaxContactsPerAccount]
  BY ContactsAssumption DEF Inv, TypeOK, Release, PcLabels, Outcomes
<1>2. JobsFitPlace'
  BY DEF Inv, TypeOK, Release, JobsFitPlace, WellFormed, HasContact
<1>3. TablesOK'
  BY DEF Inv, TablesOK, ContactsAreWhole, AliasesFit, Known
<1> QED
  BY <1>1, <1>2, <1>3

LEMMA JobsAreItems ==
  ASSUME Inv, NEW w \in Workers, pc[w] # "idle"
  PROVE  job[w] \in Items /\ job[w] \in Item
BY ContactsAssumption DEF Inv, JobsFitPlace

\* An account has a contact after its search has kept a candidate, or found its cap used up.
LEMMA OkFoundSomebody ==
  ASSUME Inv, NEW w \in Workers, pc[w] = "counted", Result(w) = "ok",
         contacts \subseteq contacts', UNCHANGED job,
         \A i \in Kept(w) : \E c \in contacts' : c.id = ContactId(Finds[job[w].account][i])
  PROVE  \E c \in contacts' : c.id[1] = job[w].account
<1> DEFINE a == job[w].account
<1>1. a \in Accounts
  BY JobsAreItems DEF Inv, JobsFitPlace, WellFormed, Item
<1>3. CASE accountLeft[w] = 0
  BY <1>3 DEF Inv, JobsFitPlace, HasContact
<1>4. CASE accountLeft[w] # 0
  <2>1. Candidates(a) # {}
    BY DEF Result
  <2>2. PICK i \in Candidates(a) : NewBefore(a, i) = {}
    BY <1>1, <2>1, BestCandidate
  <2>3. accountLeft[w] \in Nat /\ runLeft[w] \in Nat /\ runLeft[w] > 0
    BY ContactsAssumption DEF Inv, TypeOK, JobsFitPlace
  <2>4. Least(accountLeft[w], runLeft[w]) > 0
    BY <1>4, <2>3 DEF Least
  <2>5. Cardinality(NewBefore(a, i)) = 0
    BY <2>2, FS_EmptySet
  <2>6. i \in Kept(w)
    BY <2>4, <2>5 DEF Kept
  <2>7. PICK c \in contacts' : c.id = ContactId(Finds[a][i])
    BY <2>6
  <2>8. c.id[1] = a
    BY <1>1, <2>2, <2>7, CandidatesAreCandidates
  <2> QED
    BY <2>7, <2>8
<1> QED
  BY <1>3, <1>4

LEMMA PersistInv ==
  ASSUME Inv, NEW w \in Workers, PersistContacts(w)
  PROVE  Inv' /\ contacts \subseteq contacts'
<1> DEFINE a == job[w].account
           rows == Finds[a]
<1>1. /\ pc[w] = "counted" /\ pc' = [pc EXCEPT ![w] = "persisted"]
      /\ outcome' = [outcome EXCEPT ![w] = Result(w)]
      /\ UNCHANGED <<budget, events, job, loaded, runLeft, accountLeft, aborts>>
  BY DEF PersistContacts, Advance
<1>2. a \in Accounts /\ job[w].run \in Runs /\ job[w] \in Items /\ WellFormed(job[w])
  BY <1>1, JobsAreItems DEF Inv, JobsFitPlace, WellFormed, Item
<1>3. rows \in Seq(Candidate) /\ Kept(w) \in SUBSET DOMAIN rows
      /\ \A i \in Kept(w) : HasIdentity(rows[i])
  BY <1>2, CandidatesAreCandidates DEF Kept
<1>4. TablesOK /\ Insert(rows, Kept(w), "search", job[w].run)
  BY DEF PersistContacts, Inv
<1>5. /\ TablesOK' /\ contacts \subseteq contacts'
      /\ \A i \in Kept(w) : \E c \in contacts' : c.id = ContactId(rows[i])
  <2> DEFINE run == job[w].run
             kept == Kept(w)
  <2>1. run \in Runs \cup {ImportRun} /\ "search" \in {"search", "import"}
    BY <1>2
  <2>2. kept \in SUBSET DOMAIN rows /\ Insert(rows, kept, "search", run)
    BY <1>3, <1>4
  <2>3. \A i \in kept : HasIdentity(rows[i])
    BY <1>3
  <2> HIDE DEF rows, run, kept
  <2>4. /\ TablesOK' /\ contacts \subseteq contacts'
        /\ \A i \in kept : \E c \in contacts' : c.id = ContactId(rows[i])
    BY <1>3, <1>4, <2>1, <2>2, <2>3, InsertKeepsTables
  <2> QED
    BY <2>4 DEF kept
<1>6. Result(w) \in Outcomes
  BY DEF Result, Outcomes
<1>7. TypeOK'
  BY <1>1, <1>5, <1>6 DEF Inv, TypeOK, TablesOK, PcLabels
<1>8. Result(w) = "ok" => HasContact(a)'
  BY <1>1, <1>5, OkFoundSomebody DEF HasContact
<1>9. \A b : HasContact(b) => HasContact(b)'
  BY <1>5 DEF HasContact
<1>10. JobsFitPlace'
  BY <1>1, <1>2, <1>8, <1>9 DEF Inv, TypeOK, JobsFitPlace, WellFormed, HasContact
<1> QED
  BY <1>5, <1>7, <1>10 DEF Inv

LEMMA ImportInv ==
  ASSUME Inv, NEW file \in Files, ImportFile(file)
  PROVE  Inv' /\ contacts \subseteq contacts'
<1>1. file \in Seq(Candidate) /\ Accepted(file) \in SUBSET DOMAIN file
      /\ \A i \in Accepted(file) : HasIdentity(file[i])
  BY ContactsAssumption DEF Accepted
<1>2. TablesOK /\ Insert(file, Accepted(file), "import", ImportRun)
      /\ UNCHANGED <<budget, events, pc, job, locals, aborts>>
  BY DEF ImportFile, Inv
<1>3. TablesOK' /\ contacts \subseteq contacts'
  BY <1>1, <1>2, InsertKeepsTables
<1>4. TypeOK'
  BY <1>2, <1>3 DEF Inv, TypeOK, TablesOK, locals
<1>6. JobsFitPlace'
  BY <1>2, <1>3 DEF Inv, TypeOK, JobsFitPlace, WellFormed, HasContact, locals
<1> QED
  BY <1>3, <1>4, <1>6 DEF Inv

\* A step that changes no table keeps what holds of them.
LEMMA TablesStay ==
  ASSUME TablesOK, UNCHANGED <<contacts, aliases, enrichments>>
  PROVE  TablesOK'
BY DEF TablesOK, ContactsAreWhole, AliasesFit, Known

LEMMA CountsAreNumbers ==
  ASSUME Inv
  PROVE  /\ \A a : IsFiniteSet(ContactsOf(a)) /\ Cardinality(ContactsOf(a)) \in Nat
         /\ \A r : IsFiniteSet(EnrichmentsOf(r)) /\ Cardinality(EnrichmentsOf(r)) \in Nat
<1>1. (\A a : ContactsOf(a) \subseteq contacts) /\ (\A r : EnrichmentsOf(r) \subseteq enrichments)
  BY DEF ContactsOf, EnrichmentsOf
<1> QED
  BY <1>1, FS_Subset, FS_CardinalityType DEF Inv, TablesOK

LEMMA LeftIsInRange ==
  ASSUME NEW cap \in Nat, NEW n \in Nat
  PROVE  /\ Left(cap, n) \in 0..cap
         /\ Left(cap, n) = 0 => n >= cap
         /\ Left(cap, n) = 0 \/ n + Left(cap, n) = cap
BY DEF Left

LEMMA CountRunInv ==
  ASSUME Inv, NEW w \in Workers, CountRun(w)
  PROVE  Inv'
<1> DEFINE left == Left(MaxContactsTotalPerRun, Cardinality(EnrichmentsOf(job[w].run)))
<1>1. /\ pc[w] = "spent"
      /\ pc' = [pc EXCEPT ![w] = IF left = 0 THEN "persisted" ELSE "run_counted"]
      /\ runLeft' = [runLeft EXCEPT ![w] = left]
      /\ outcome' = [outcome EXCEPT ![w] = IF left = 0 THEN "run_cap" ELSE "ok"]
      /\ UNCHANGED <<contacts, aliases, enrichments, budget, events, job, loaded, accountLeft, aborts>>
  BY DEF CountRun, tables
<1>2. left \in 0..MaxContactsTotalPerRun
  BY CountsAreNumbers, LeftIsInRange, ContactsAssumption
<1> HIDE DEF left
<1>3. TypeOK'
  BY <1>1, <1>2 DEF Inv, TypeOK, PcLabels, Outcomes
<1>4. JobsFitPlace'
  BY <1>1, <1>2 DEF Inv, TypeOK, JobsFitPlace, WellFormed, HasContact
<1> QED
  BY <1>1, <1>3, <1>4, TablesStay DEF Inv

LEMMA CountAccountInv ==
  ASSUME Inv, NEW w \in Workers, CountAccount(w)
  PROVE  Inv'
<1> DEFINE a == job[w].account
           left == Left(MaxContactsPerAccount, Cardinality(ContactsOf(a)))
<1>1. /\ pc[w] = "run_counted" /\ pc' = [pc EXCEPT ![w] = "counted"]
      /\ accountLeft' = [accountLeft EXCEPT ![w] = left]
      /\ UNCHANGED <<contacts, aliases, enrichments, budget, events, job, loaded, runLeft, outcome, aborts>>
  BY DEF CountAccount, Advance, tables
<1>2. left \in 0..MaxContactsPerAccount /\ (left = 0 => Cardinality(ContactsOf(a)) # 0)
  BY CountsAreNumbers, LeftIsInRange, ContactsAssumption
<1>3. Cardinality(ContactsOf(a)) # 0 => HasContact(a)
  BY FS_EmptySet DEF ContactsOf, HasContact
<1> HIDE DEF left
<1>4. TypeOK'
  BY <1>1, <1>2 DEF Inv, TypeOK, PcLabels
<1>5. JobsFitPlace'
  BY <1>1, <1>2, <1>3 DEF Inv, TypeOK, JobsFitPlace, WellFormed, HasContact
<1> QED
  BY <1>1, <1>4, <1>5, TablesStay DEF Inv

LEMMA NextInv == Inv /\ [Next]_vars => Inv'
<1> SUFFICES ASSUME Inv, [Next]_vars
             PROVE  Inv'
  OBVIOUS
<1>1. ASSUME NEW w \in Workers, Refuse(w) \/ ParkExhausted(w) \/ Finish(w)
      PROVE  Inv'
  <2>1. job[w] \in Item
    BY <1>1, JobsAreItems DEF Refuse, ParkExhausted, Finish
  <2> QED
    BY <1>1, <2>1, ReleaseInv DEF Refuse, ParkExhausted, Finish, Close, tables, Inv, TypeOK, EventType
<1>2. ASSUME NEW w \in Workers, RaiseOnClash(w)
      PROVE  Inv'
  BY <1>2, ReleaseInv DEF RaiseOnClash, tables, Inv, TypeOK
<1>3. ASSUME NEW w \in Workers, Abort(w)
      PROVE  Inv'
  <2>1. aborts' \in 0..MaxAborts
    BY <1>3, ContactsAssumption DEF Abort, Inv, TypeOK
  <2> QED
    BY <1>3, <2>1, ReleaseInv DEF Abort, tables, Inv, TypeOK
<1>4. ASSUME NEW w \in Workers, SpendAttempt(w)
      PROVE  Inv'
  <2>1. job[w] \in Items /\ WellFormed(job[w])
    BY <1>4, JobsAreItems DEF SpendAttempt, Advance
  <2>2. TypeOK'
    BY <1>4, <2>1 DEF SpendAttempt, Advance, tables, locals, Inv, TypeOK, PcLabels
  <2>3. JobsFitPlace'
    BY <1>4, <2>1 DEF SpendAttempt, Advance, tables, locals, Inv, TypeOK, JobsFitPlace, WellFormed,
       HasContact
  <2> QED
    BY <1>4, <2>2, <2>3, TablesStay DEF SpendAttempt, tables, Inv
<1>5. ASSUME NEW w \in Workers, NEW it \in Items, Begin(w, it)
      PROVE  Inv'
  <2>1. TypeOK'
    BY <1>5, ContactsAssumption DEF Begin, Advance, tables, Inv, TypeOK, PcLabels
  <2>2. JobsFitPlace'
    BY <1>5 DEF Begin, Advance, tables, Inv, TypeOK, JobsFitPlace, WellFormed, HasContact
  <2> QED
    BY <1>5, <2>1, <2>2, TablesStay DEF Begin, tables, Inv
<1>6. CASE UNCHANGED vars
  BY <1>6, TablesStay DEF vars, Inv, TypeOK, JobsFitPlace, WellFormed, HasContact
<1> QED
  BY <1>1, <1>2, <1>3, <1>4, <1>5, <1>6, CountRunInv, CountAccountInv, PersistInv, ImportInv
  DEF Next, WorkerStep

LEMMA InvAlways == Spec => []Inv
BY InitInv, NextInv, PTL DEF Spec

(***************************************************************************)
(* The tables, budgets and jobs of people_search and of the import keep    *)
(* their types.                                                            *)
(***************************************************************************)
THEOREM ContactsTypeCorrect == Spec => []TypeOK
BY InvAlways, PTL DEF Inv

(***************************************************************************)
(* No import, search, clash or abort leaves a contact without its own      *)
(* alias or its enrichment row, or such a row without its contact.         *)
(***************************************************************************)
THEOREM ContactsStayWhole == Spec => []ContactsAreWhole
BY InvAlways, PTL DEF Inv, TablesOK

-----------------------------------------------------------------------------
(***************************************************************************)
(* Completed searches, and the candidates that are kept.                   *)
(***************************************************************************)
LEMMA ContactsGrow == Inv /\ [Next]_vars => contacts \subseteq contacts'
<1> SUFFICES ASSUME Inv, Next, NEW w \in Workers, WorkerStep(w), ~PersistContacts(w)
             PROVE  contacts \subseteq contacts'
  BY PersistInv, ImportInv DEF Next, WorkerStep, Abort, Begin, tables, vars
<1> QED
  BY DEF WorkerStep, Refuse, ParkExhausted, SpendAttempt, CountRun, CountAccount, RaiseOnClash,
     Finish, tables

(***************************************************************************)
(* A search that is closed as completed leaves its account with a contact, *)
(* whatever the caps and however often it is repeated.                     *)
(***************************************************************************)
THEOREM CompletedSearchesFound == Spec => []CompletedFoundSomebody
<1>1. Init => CompletedFoundSomebody
  BY DEF Init, CompletedFoundSomebody
<1>2. Inv /\ CompletedFoundSomebody /\ [Next]_vars => CompletedFoundSomebody'
  <2> SUFFICES ASSUME Inv, CompletedFoundSomebody, [Next]_vars
               PROVE  CompletedFoundSomebody'
    OBVIOUS
  <2>1. \A a : HasContact(a) => HasContact(a)'
    BY ContactsGrow DEF HasContact
  <2>2. ASSUME NEW w \in Workers, Finish(w)
        PROVE  CompletedFoundSomebody'
    <3>1. /\ pc[w] = "persisted" /\ (outcome[w] = "ok" => HasContact(job[w].account))
          /\ events' = events \cup
               {<<job[w], IF outcome[w] = "ok" THEN "work_item_completed" ELSE "work_item_parked">>}
      BY <2>2 DEF Finish, Close, Inv, JobsFitPlace
    <3> QED
      BY <2>1, <3>1 DEF CompletedFoundSomebody, HasContact
  <2>3. ASSUME \A it : <<it, "work_item_completed">> \in events' => <<it, "work_item_completed">> \in events
        PROVE  CompletedFoundSomebody'
    BY <2>1, <2>3 DEF CompletedFoundSomebody, HasContact
  <2>4. ASSUME NEW w \in Workers, WorkerStep(w), ~Finish(w)
        PROVE  CompletedFoundSomebody'
    BY <2>3, <2>4 DEF WorkerStep, Refuse, ParkExhausted, SpendAttempt, CountRun, CountAccount,
       PersistContacts, RaiseOnClash, Close
  <2>5. CASE ~\E w \in Workers : WorkerStep(w)
    BY <2>3, <2>5 DEF Next, Abort, Begin, ImportFile, vars
  <2> QED
    BY <2>2, <2>4, <2>5
<1> QED
  BY <1>1, <1>2, InvAlways, PTL DEF Spec

\* What PersistContacts inserts, and for whom.
Newcomers(w) == {i \in Kept(w) : ~Known(ContactId(Finds[job[w].account][i]))}

LEMMA PersistInserts ==
  ASSUME Inv, NEW w \in Workers, PersistContacts(w)
  PROVE  /\ job[w].account \in Accounts
         /\ \A c \in contacts' : c \notin contacts =>
              \E i \in Newcomers(w) :
                c = [id |-> ContactId(Finds[job[w].account][i]), origin |-> "search"]
         /\ \A en \in enrichments' : en \notin enrichments =>
              \E i \in Newcomers(w) :
                en = [run |-> job[w].run, contact |-> ContactId(Finds[job[w].account][i])]
         /\ \A i \in Kept(w) : \E c \in contacts' : c.id = ContactId(Finds[job[w].account][i])
<1> DEFINE a == job[w].account
           rows == Finds[a]
           ids == {ContactId(rows[i]) : i \in Kept(w)}
<1>1. a \in Accounts
  BY JobsAreItems DEF PersistContacts, Advance, Inv, JobsFitPlace, WellFormed, Item
<1>2. /\ contacts' = contacts \cup {[id |-> id, origin |-> "search"] : id \in {x \in ids : ~Known(x)}}
      /\ enrichments' = enrichments \cup {[run |-> job[w].run, contact |-> id] :
           id \in {x \in ids : \A en \in enrichments : en.contact # x}}
  BY DEF PersistContacts, Insert
<1>3. \A x : Known(x) => \E en \in enrichments : en.contact = x
  BY DEF Inv, TablesOK, ContactsAreWhole, Known
<1>4. \A c \in contacts' : c \notin contacts =>
        \E i \in Newcomers(w) : c = [id |-> ContactId(rows[i]), origin |-> "search"]
  BY <1>2 DEF Newcomers
<1>5. \A en \in enrichments' : en \notin enrichments =>
        \E i \in Newcomers(w) : en = [run |-> job[w].run, contact |-> ContactId(rows[i])]
  BY <1>2, <1>3 DEF Newcomers
<1>6. ASSUME NEW i \in Kept(w)
      PROVE  \E c \in contacts' : c.id = ContactId(rows[i])
  <2>1. CASE Known(ContactId(rows[i]))
    BY <1>2, <2>1 DEF Known
  <2>2. CASE ~Known(ContactId(rows[i]))
    <3>1. [id |-> ContactId(rows[i]), origin |-> "search"]
            \in {[id |-> id, origin |-> "search"] : id \in {x \in ids : ~Known(x)}}
      BY <2>2
    <3>2. [id |-> ContactId(rows[i]), origin |-> "search"] \in contacts'
      BY <1>2, <3>1
    <3> QED
      BY <3>2
  <2> QED
    BY <2>1, <2>2
<1> QED
  BY <1>1, <1>4, <1>5, <1>6

LEMMA PersistKeepsBest ==
  ASSUME Inv, BestAreKept, NEW w \in Workers, PersistContacts(w)
  PROVE  BestAreKept'
<1> SUFFICES ASSUME NEW a \in Accounts, NEW i \in Candidates(a), NEW j \in Candidates(a),
                    Finds[a][i].rank < Finds[a][j].rank,
                    [id |-> ContactId(Finds[a][j]), origin |-> "search"] \in contacts'
             PROVE  Known(ContactId(Finds[a][i]))'
  BY DEF BestAreKept, Candidates, Usable
<1>1. \A x : Known(x) => Known(x)'
  BY PersistInv DEF Known
<1>2. CASE [id |-> ContactId(Finds[a][j]), origin |-> "search"] \in contacts
  BY <1>1, <1>2 DEF BestAreKept
<1>3. CASE [id |-> ContactId(Finds[a][j]), origin |-> "search"] \notin contacts
  <2>1. PICK k \in Newcomers(w) : ContactId(Finds[a][j]) = ContactId(Finds[job[w].account][k])
    BY <1>3, PersistInserts
  <2>2. k \in Kept(w) /\ k \in Candidates(job[w].account)
    BY DEF Newcomers, Kept
  <2>3. job[w].account = a
    BY <2>1, <2>2, PersistInserts, CandidatesAreCandidates
  <2>4. k = j
    BY <2>1, <2>2, <2>3, CandidatesDiffer
  <2>5. \A m \in Candidates(a) : Finds[a][m].rank \in Nat
    BY CandidatesAreCandidates DEF Candidate
  <2>6. NewBefore(a, i) \subseteq NewBefore(a, j)
    BY <2>5 DEF NewBefore, Better
  <2>7. Cardinality(NewBefore(a, i)) <= Cardinality(NewBefore(a, j))
    BY <2>6, NewBeforeIsFinite, FS_Subset
  <2>8. accountLeft[w] \in Nat /\ runLeft[w] \in Nat
    BY ContactsAssumption DEF Inv, TypeOK
  <2>9. i \in Kept(w)
    <3>1. Cardinality(NewBefore(a, j)) < Least(accountLeft[w], runLeft[w])
      BY <2>2, <2>3, <2>4 DEF Kept
    <3>2. Cardinality(NewBefore(a, i)) < Least(accountLeft[w], runLeft[w])
      BY <2>7, <2>8, <3>1, NewBeforeIsFinite DEF Least
    <3> QED
      BY <2>3, <3>2 DEF Kept
  <2> QED
    BY <2>3, <2>9, PersistInserts DEF Known
<1> QED
  BY <1>2, <1>3

(***************************************************************************)
(* A search never stores a candidate before a better one of its account.   *)
(***************************************************************************)
THEOREM BestCandidatesAreKept == Spec => []BestAreKept
<1>1. Init => BestAreKept
  BY DEF Init, BestAreKept
<1>2. Inv /\ BestAreKept /\ [Next]_vars => BestAreKept'
  <2> SUFFICES ASSUME Inv, BestAreKept, [Next]_vars, ~\E w \in Workers : PersistContacts(w)
               PROVE  BestAreKept'
    BY PersistKeepsBest
  <2>1. \A x : Known(x) => Known(x)'
    BY ContactsGrow DEF Known
  <2>2. \A id : [id |-> id, origin |-> "search"] \in contacts'
                  => [id |-> id, origin |-> "search"] \in contacts
    BY DEF Next, WorkerStep, Refuse, ParkExhausted, SpendAttempt, CountRun, CountAccount,
       RaiseOnClash, Finish, Abort, Begin, ImportFile, Insert, tables, vars
  <2> QED
    BY <2>1, <2>2 DEF BestAreKept, Candidates, Usable, Known
<1> QED
  BY <1>1, <1>2, InvAlways, PTL DEF Spec

-----------------------------------------------------------------------------
(***************************************************************************)
(* The caps.  How many contacts a search inserts is counted by the rank of *)
(* each newcomer among the newcomers.                                      *)
(***************************************************************************)
LEMMA NewcomersFit ==
  ASSUME Inv, NEW w \in Workers, job[w].account \in Accounts
  PROVE  /\ IsFiniteSet(Newcomers(w))
         /\ Cardinality(Newcomers(w)) \in Nat
         /\ Cardinality(Newcomers(w)) <= accountLeft[w]
         /\ Cardinality(Newcomers(w)) <= runLeft[w]
<1> DEFINE a == job[w].account
           room == Least(accountLeft[w], runLeft[w])
           turn == [i \in Newcomers(w) |-> Cardinality(NewBefore(a, i)) + 1]
<1>1. accountLeft[w] \in Nat /\ runLeft[w] \in Nat
  BY ContactsAssumption DEF Inv, TypeOK
<1>2. room \in Nat /\ room <= accountLeft[w] /\ room <= runLeft[w]
  BY <1>1 DEF Least
<1>3. \A i \in Newcomers(w) :
        i \in Candidates(a) /\ ~Known(ContactId(Finds[a][i])) /\ Cardinality(NewBefore(a, i)) < room
  BY DEF Newcomers, Kept
<1> HIDE DEF room
<1>4. turn \in [Newcomers(w) -> 1..room]
  <2> SUFFICES ASSUME NEW i \in Newcomers(w)
               PROVE  Cardinality(NewBefore(a, i)) + 1 \in 1..room
    OBVIOUS
  <2> QED
    BY <1>2, <1>3, NewBeforeIsFinite
<1>5. ASSUME NEW i \in Newcomers(w), NEW j \in Newcomers(w), Better(a, i, j)
      PROVE  turn[i] < turn[j]
  <2>1. \A m \in Candidates(a) : Finds[a][m].rank \in Nat
    BY CandidatesAreCandidates DEF Candidate
  <2>2. NewBefore(a, i) \cup {i} \subseteq NewBefore(a, j)
    <3>1. ASSUME NEW m \in NewBefore(a, i)
          PROVE  m \in NewBefore(a, j)
      <4>1. m \in Candidates(a) /\ Better(a, m, i) /\ ~Known(ContactId(Finds[a][m]))
        BY DEF NewBefore
      <4>2. Better(a, m, j)
        <5>1. i \in Candidates(a) /\ j \in Candidates(a)
          BY <1>3
        <5>2. /\ Finds[a][m].rank \in Nat /\ Finds[a][i].rank \in Nat
              /\ Finds[a][j].rank \in Nat
          BY <2>1, <4>1, <5>1
        <5> QED
          BY <1>5, <4>1, <5>2 DEF Better
      <4> QED
        BY <4>1, <4>2 DEF NewBefore
    <3>2. i \in NewBefore(a, j)
      BY <1>3, <1>5 DEF NewBefore
    <3> QED
      BY <3>1, <3>2
  <2>3. i \notin NewBefore(a, i)
    BY <1>3, <2>1 DEF NewBefore, Better
  <2>4. Cardinality(NewBefore(a, i) \cup {i}) = Cardinality(NewBefore(a, i)) + 1
    BY <2>3, NewBeforeIsFinite, FS_AddElement
  <2>5. Cardinality(NewBefore(a, i) \cup {i}) <= Cardinality(NewBefore(a, j))
    BY <2>2, NewBeforeIsFinite, FS_Subset
  <2> QED
    BY <2>4, <2>5, NewBeforeIsFinite
<1>6. \A i, j \in Newcomers(w) : i # j => Better(a, i, j) \/ Better(a, j, i)
  <2>1. \A m \in Candidates(a) : Finds[a][m].rank \in Nat
    BY CandidatesAreCandidates DEF Candidate
  <2> QED
    BY <1>3, <2>1, RanksDiffer DEF Better
<1>7. \A i, j \in Newcomers(w) : turn[i] = turn[j] => i = j
  <2> SUFFICES ASSUME NEW i \in Newcomers(w), NEW j \in Newcomers(w), turn[i] = turn[j], i # j
               PROVE  FALSE
    OBVIOUS
  <2>1. turn[i] \in 1..room /\ turn[j] \in 1..room
    BY <1>4
  <2>2. turn[i] < turn[j] \/ turn[j] < turn[i]
    BY <1>5, <1>6
  <2> QED
    BY <1>2, <2>1, <2>2
<1> HIDE DEF turn
<1>8. turn \in Injection(Newcomers(w), 1..room)
  BY <1>4, <1>7 DEF Injection, IsInjective
<1>9. IsFiniteSet(1..room) /\ Cardinality(1..room) = room
  BY <1>2, FS_Interval
<1>10. IsFiniteSet(Newcomers(w)) /\ Cardinality(Newcomers(w)) <= room
  BY <1>8, <1>9, FS_Injection
<1> QED
  BY <1>1, <1>2, <1>10, FS_CardinalityType

LEMMA UsedIsFinite ==
  ASSUME Inv
  PROVE  /\ \A a : /\ IsFiniteSet(SearchedIn(a)) /\ Cardinality(SearchedIn(a)) \in Nat
                   /\ Cardinality(SearchedIn(a)) <= Cardinality(ContactsOf(a))
         /\ \A r : IsFiniteSet(EnrichmentsOf(r)) /\ Cardinality(EnrichmentsOf(r)) \in Nat
<1>1. \A a : SearchedIn(a) \subseteq ContactsOf(a)
  BY DEF SearchedIn
<1> QED
  BY <1>1, CountsAreNumbers, FS_Subset, FS_CardinalityType

LEMMA InsertedFit ==
  ASSUME Inv, NEW w \in Workers, PersistContacts(w)
  PROVE  \E N, M :
           /\ IsFiniteSet(N) /\ Cardinality(N) <= accountLeft[w] /\ contacts' \subseteq contacts \cup N
           /\ IsFiniteSet(M) /\ Cardinality(M) <= runLeft[w] /\ enrichments' \subseteq enrichments \cup M
           /\ \A c \in N : c.id[1] = job[w].account
           /\ \A en \in M : en.run = job[w].run
<1> DEFINE a == job[w].account
           who == Newcomers(w)
           f == [i \in who |-> [id |-> ContactId(Finds[a][i]), origin |-> "search"]]
           g == [i \in who |-> [run |-> job[w].run, contact |-> ContactId(Finds[a][i])]]
           N == {f[i] : i \in who}
           M == {g[i] : i \in who}
<1>1. a \in Accounts /\ accountLeft[w] \in Nat /\ runLeft[w] \in Nat
  BY PersistInserts, ContactsAssumption DEF Inv, TypeOK
<1>2. /\ IsFiniteSet(who) /\ Cardinality(who) \in Nat
      /\ Cardinality(who) <= accountLeft[w] /\ Cardinality(who) <= runLeft[w]
  BY <1>1, NewcomersFit
<1>3. f \in Surjection(who, N) /\ g \in Surjection(who, M)
  BY DEF Surjection
<1>4. contacts' \subseteq contacts \cup N /\ enrichments' \subseteq enrichments \cup M
  BY PersistInserts
<1>5. \A i \in who : ContactId(Finds[a][i])[1] = a
  BY <1>1, CandidatesAreCandidates DEF Newcomers, Kept
<1>6. (\A c \in N : c.id[1] = a) /\ (\A en \in M : en.run = job[w].run)
  BY <1>5
<1> HIDE DEF f, g, N, M, who, a
<1>7. /\ IsFiniteSet(N) /\ Cardinality(N) <= Cardinality(who)
      /\ IsFiniteSet(M) /\ Cardinality(M) <= Cardinality(who)
  BY <1>2, <1>3, FS_Surjection
<1>8. Cardinality(N) <= accountLeft[w] /\ Cardinality(M) <= runLeft[w]
  BY <1>1, <1>2, <1>7, FS_CardinalityType
<1> QED
  BY <1>4, <1>6, <1>7, <1>8 DEF a

\* An account in the job of a worker that has passed the payload's contract is one.
LEMMA JobsHaveKeys ==
  ASSUME Inv, NEW w \in Workers, pc[w] \in {"spent", "run_counted", "counted"}
  PROVE  job[w].account \in Accounts /\ job[w].run \in Runs
BY JobsAreItems DEF Inv, JobsFitPlace, WellFormed, Item

AccountProofs == INSTANCE CountedCap_proofs WITH
  Keys <- Accounts, Cap <- MaxContactsPerAccount, MaxGrant <- MaxContactsPerAccount,
  members <- Searched, granted <- AccountGrants

RunProofs == INSTANCE CountedCap_proofs WITH
  Keys <- Runs, Cap <- MaxContactsTotalPerRun, MaxGrant <- MaxContactsTotalPerRun,
  members <- Reached, granted <- RunGrants

\* Each instance has definitions of its own of what finite sets are, and they are the same.
LEMMA SameCardinality ==
  \A S : /\ AccountCap!Cardinality(S) = Cardinality(S) /\ RunCap!Cardinality(S) = Cardinality(S)
         /\ AccountProofs!Cardinality(S) = Cardinality(S)
         /\ RunProofs!Cardinality(S) = Cardinality(S)
         /\ AccountCap!IsFiniteSet(S) <=> IsFiniteSet(S)
         /\ RunCap!IsFiniteSet(S) <=> IsFiniteSet(S)
         /\ AccountProofs!IsFiniteSet(S) <=> IsFiniteSet(S)
         /\ RunProofs!IsFiniteSet(S) <=> IsFiniteSet(S)
BY DEF Cardinality, AccountCap!Cardinality, AccountProofs!Cardinality, RunCap!Cardinality,
   RunProofs!Cardinality, IsFiniteSet, AccountCap!IsFiniteSet, AccountProofs!IsFiniteSet,
   RunCap!IsFiniteSet, RunProofs!IsFiniteSet

-----------------------------------------------------------------------------
(***************************************************************************)
(* The cap of an account as a counted cap.                                 *)
(***************************************************************************)
LEMMA InitCountsAccounts == Init => AccountCap!Init
<1> SUFFICES ASSUME Init
             PROVE  AccountCap!Init
  OBVIOUS
<1>1. \A a : SearchedIn(a) = {}
  BY DEF Init, SearchedIn, ContactsOf
<1>2. /\ Searched = [a \in Accounts |-> {}]
      /\ AccountGrants = [a \in Accounts |-> [w \in Workers |-> 0]]
  BY <1>1 DEF Init, Searched, AccountGrants
<1> QED
  BY <1>2 DEF AccountCap!Init

LEMMA OneAccountGrant ==
  ASSUME NEW a \in Accounts, NEW w \in Workers, NEW n,
         \A k \in Accounts, u \in Workers :
           AccountGrants'[k][u] = IF k = a /\ u = w THEN n ELSE AccountGrants[k][u]
  PROVE  AccountGrants' = [AccountGrants EXCEPT ![a][w] = n]
<1> DEFINE G == [AccountGrants EXCEPT ![a][w] = n]
<1>1. \A k \in Accounts, u \in Workers :
        G[k][u] = IF k = a /\ u = w THEN n ELSE AccountGrants[k][u]
  BY DEF AccountGrants
<1>2. /\ AccountGrants' = [k \in Accounts |-> [u \in Workers |-> AccountGrants'[k][u]]]
      /\ G = [k \in Accounts |-> [u \in Workers |-> G[k][u]]]
  BY DEF AccountGrants
<1> QED
  BY <1>1, <1>2

LEMMA CountAccountCounts ==
  ASSUME Inv, NEW w \in Workers, CountAccount(w)
  PROVE  AccountCap!Next \/ UNCHANGED <<Searched, AccountGrants>>
<1> DEFINE a == job[w].account
           left == Left(MaxContactsPerAccount, Cardinality(ContactsOf(a)))
<1>1. /\ pc[w] = "run_counted" /\ pc' = [pc EXCEPT ![w] = "counted"]
      /\ accountLeft' = [accountLeft EXCEPT ![w] = left]
      /\ UNCHANGED <<contacts, job>>
  BY DEF CountAccount, Advance, tables
<1>2. a \in Accounts
  BY <1>1, JobsHaveKeys
<1>3. /\ Cardinality(ContactsOf(a)) \in Nat /\ left \in 0..MaxContactsPerAccount
      /\ left = 0 \/ Cardinality(ContactsOf(a)) + left = MaxContactsPerAccount
  BY CountsAreNumbers, LeftIsInRange, ContactsAssumption
<1> HIDE DEF left
<1>4. Searched' = Searched
  BY <1>1 DEF Searched, SearchedIn, ContactsOf
<1>5. \A k \in Accounts, u \in Workers :
        AccountGrants'[k][u] = IF k = a /\ u = w THEN left ELSE AccountGrants[k][u]
  BY <1>1 DEF AccountGrants, Inv, TypeOK
<1>6. CASE left = 0
  <2>1. AccountGrants[a][w] = 0
    BY <1>1, <1>2 DEF AccountGrants
  <2>2. \A k \in Accounts, u \in Workers : AccountGrants'[k][u] = AccountGrants[k][u]
    BY <1>5, <1>6, <2>1
  <2>3. AccountGrants' = AccountGrants
    BY <2>2 DEF AccountGrants
  <2> QED
    BY <1>4, <2>3
<1>7. CASE left # 0
  <2>1. Cardinality(Searched[a]) + left <= MaxContactsPerAccount
    BY <1>2, <1>3, <1>7, UsedIsFinite, ContactsAssumption DEF Searched
  <2>2. left \in 1..MaxContactsPerAccount
    BY <1>3, <1>7, ContactsAssumption
  <2>3. AccountGrants' = [AccountGrants EXCEPT ![a][w] = left]
    BY <1>2, <1>5, OneAccountGrant
  <2>4. AccountCap!Count(a, w)
    BY <1>4, <2>1, <2>2, <2>3, SameCardinality DEF AccountCap!Count
  <2> QED
    BY <1>2, <2>4 DEF AccountCap!Next
<1> QED
  BY <1>6, <1>7

\* What a worker leaves behind that inserts, or not, and drops what it had counted.
LEMMA SpendAccount ==
  ASSUME Inv, Inv', NEW w \in Workers, pc[w] = "counted", contacts \subseteq contacts',
         pc'[w] # "counted",
         \A u \in Workers \ {w} : UNCHANGED <<pc[u], job[u], accountLeft[u]>>,
         NEW N, IsFiniteSet(N), Cardinality(N) <= accountLeft[w],
         contacts' \subseteq contacts \cup N, \A c \in N : c.id[1] = job[w].account
  PROVE  AccountCap!Next
<1> DEFINE a == job[w].account
<1>1. a \in Accounts
  BY JobsHaveKeys
<1>2. AccountGrants' = [AccountGrants EXCEPT ![a][w] = 0] /\ AccountGrants[a][w] = accountLeft[w]
  <2>1. \A k \in Accounts, u \in Workers :
          AccountGrants'[k][u] = IF k = a /\ u = w THEN 0 ELSE AccountGrants[k][u]
    BY DEF AccountGrants
  <2>2. AccountGrants' = [AccountGrants EXCEPT ![a][w] = 0]
    BY <1>1, <2>1, OneAccountGrant
  <2> QED
    BY <1>1, <2>2 DEF AccountGrants
<1>3. \A k \in Accounts \ {a} : Searched'[k] = Searched[k]
  BY DEF Searched, SearchedIn, ContactsOf
<1>4. Searched' = [Searched EXCEPT ![a] = Searched'[a]]
  BY <1>1, <1>3 DEF Searched
<1>5. Searched[a] \subseteq Searched'[a] /\ Searched'[a] \ Searched[a] \in SUBSET N
  BY <1>1 DEF Searched, SearchedIn, ContactsOf
<1>6. IsFiniteSet(Searched'[a])
  <2>1. IsFiniteSet(contacts') /\ Searched'[a] \in SUBSET contacts'
    BY <1>1 DEF Inv, TablesOK, Searched, SearchedIn, ContactsOf
  <2> QED
    BY <2>1, FS_Subset
<1>7. Cardinality(Searched'[a] \ Searched[a]) <= accountLeft[w]
  <2>1. /\ Cardinality(Searched'[a] \ Searched[a]) <= Cardinality(N)
        /\ Cardinality(Searched'[a] \ Searched[a]) \in Nat /\ Cardinality(N) \in Nat
    BY <1>5, FS_Subset, FS_CardinalityType
  <2>2. accountLeft[w] \in Nat
    BY ContactsAssumption DEF Inv, TypeOK
  <2> QED
    BY <2>1, <2>2
<1>8. AccountCap!Spend(a, w)
  BY <1>2, <1>4, <1>5, <1>6, <1>7, SameCardinality DEF AccountCap!Spend
<1> QED
  BY <1>1, <1>8 DEF AccountCap!Next

LEMMA AccountSteps ==
  Inv /\ [Next]_vars => AccountCap!Next \/ UNCHANGED <<Searched, AccountGrants>>
<1> SUFFICES ASSUME Inv, [Next]_vars, ~\E w \in Workers : CountAccount(w)
             PROVE  AccountCap!Next \/ UNCHANGED <<Searched, AccountGrants>>
  BY CountAccountCounts
<1>1. Inv'
  BY NextInv
<1>2. ASSUME NEW w \in Workers, PersistContacts(w)
      PROVE  AccountCap!Next
  <2>1. /\ pc[w] = "counted" /\ pc' = [pc EXCEPT ![w] = "persisted"]
        /\ UNCHANGED <<job, accountLeft>>
    BY <1>2 DEF PersistContacts, Advance
  <2>2. PICK N : /\ IsFiniteSet(N) /\ Cardinality(N) <= accountLeft[w]
                 /\ contacts' \subseteq contacts \cup N /\ \A c \in N : c.id[1] = job[w].account
    BY <1>2, InsertedFit
  <2>3. contacts \subseteq contacts' /\ pc'[w] # "counted"
    BY <1>2, <2>1, PersistInv DEF Inv, TypeOK
  <2>4. \A u \in Workers \ {w} : UNCHANGED <<pc[u], job[u], accountLeft[u]>>
    BY <2>1 DEF Inv, TypeOK
  <2> QED
    BY <1>1, <2>1, <2>2, <2>3, <2>4, SpendAccount
<1>3. ASSUME NEW w \in Workers, RaiseOnClash(w) \/ Abort(w), pc[w] = "counted"
      PROVE  AccountCap!Next
  <2>1. UNCHANGED contacts /\ Release(w)
    BY <1>3 DEF RaiseOnClash, Abort, tables
  <2>2. pc'[w] # "counted" /\ \A u \in Workers \ {w} : UNCHANGED <<pc[u], job[u], accountLeft[u]>>
    BY <2>1 DEF Release, Inv, TypeOK
  <2>3. /\ IsFiniteSet({}) /\ Cardinality({}) <= accountLeft[w] /\ contacts' \subseteq contacts \cup {}
    BY <2>1, FS_EmptySet, ContactsAssumption DEF Inv, TypeOK
  <2> QED
    BY <1>1, <1>3, <2>1, <2>2, <2>3, SpendAccount
<1>4. ASSUME NEW file \in Files, ImportFile(file)
      PROVE  UNCHANGED <<Searched, AccountGrants>>
  <2>1. UNCHANGED <<pc, job, accountLeft>>
    BY <1>4 DEF ImportFile, locals
  <2>2. contacts \subseteq contacts' /\ \A c \in contacts' : c \in contacts \/ c.origin = "import"
    BY <1>4 DEF ImportFile, Insert
  <2>3. \A a : SearchedIn(a)' = SearchedIn(a)
    BY <2>2 DEF SearchedIn, ContactsOf
  <2> QED
    BY <2>1, <2>3 DEF Searched, AccountGrants
<1>5. ASSUME ~\E w \in Workers : \/ PersistContacts(w)
                                 \/ (RaiseOnClash(w) \/ Abort(w)) /\ pc[w] = "counted",
             ~\E file \in Files : ImportFile(file)
      PROVE  UNCHANGED <<Searched, AccountGrants>>
  <2>1. UNCHANGED contacts
    BY <1>5 DEF Next, WorkerStep, Refuse, ParkExhausted, SpendAttempt, CountRun, Finish, Abort,
       RaiseOnClash, Begin, tables, vars
  <2>2. \A u \in Workers : /\ (pc'[u] = "counted") <=> (pc[u] = "counted")
                           /\ pc[u] = "counted" => UNCHANGED <<job[u], accountLeft[u]>>
    BY <1>5 DEF Next, WorkerStep, Refuse, ParkExhausted, SpendAttempt, CountRun, Finish, Abort,
       RaiseOnClash, Begin, Close, Release, Advance, locals, vars, Inv, TypeOK
  <2> QED
    BY <2>1, <2>2 DEF Searched, SearchedIn, ContactsOf, AccountGrants
<1> QED
  BY <1>2, <1>3, <1>4, <1>5

-----------------------------------------------------------------------------
(***************************************************************************)
(* The cap of a run as a counted cap.                                      *)
(***************************************************************************)
LEMMA InitCountsRuns == Init => RunCap!Init
<1> SUFFICES ASSUME Init
             PROVE  RunCap!Init
  OBVIOUS
<1>1. \A r : EnrichmentsOf(r) = {}
  BY DEF Init, EnrichmentsOf
<1>2. Reached = [r \in Runs |-> {}] /\ RunGrants = [r \in Runs |-> [w \in Workers |-> 0]]
  BY <1>1 DEF Init, Reached, RunGrants
<1> QED
  BY <1>2 DEF RunCap!Init

LEMMA OneRunGrant ==
  ASSUME NEW r \in Runs, NEW w \in Workers, NEW n,
         \A k \in Runs, u \in Workers :
           RunGrants'[k][u] = IF k = r /\ u = w THEN n ELSE RunGrants[k][u]
  PROVE  RunGrants' = [RunGrants EXCEPT ![r][w] = n]
<1> DEFINE G == [RunGrants EXCEPT ![r][w] = n]
<1>1. \A k \in Runs, u \in Workers : G[k][u] = IF k = r /\ u = w THEN n ELSE RunGrants[k][u]
  BY DEF RunGrants
<1>2. /\ RunGrants' = [k \in Runs |-> [u \in Workers |-> RunGrants'[k][u]]]
      /\ G = [k \in Runs |-> [u \in Workers |-> G[k][u]]]
  BY DEF RunGrants
<1> QED
  BY <1>1, <1>2

LEMMA CountRunCounts ==
  ASSUME Inv, NEW w \in Workers, CountRun(w)
  PROVE  RunCap!Next \/ UNCHANGED <<Reached, RunGrants>>
<1> DEFINE r == job[w].run
           left == Left(MaxContactsTotalPerRun, Cardinality(EnrichmentsOf(r)))
<1>1. /\ pc[w] = "spent" /\ pc' = [pc EXCEPT ![w] = IF left = 0 THEN "persisted" ELSE "run_counted"]
      /\ runLeft' = [runLeft EXCEPT ![w] = left]
      /\ UNCHANGED <<enrichments, job>>
  BY DEF CountRun, tables
<1>2. r \in Runs
  BY <1>1, JobsHaveKeys
<1>3. /\ Cardinality(EnrichmentsOf(r)) \in Nat /\ left \in 0..MaxContactsTotalPerRun
      /\ left = 0 \/ Cardinality(EnrichmentsOf(r)) + left = MaxContactsTotalPerRun
  BY CountsAreNumbers, LeftIsInRange, ContactsAssumption
<1> HIDE DEF left
<1>4. Reached' = Reached
  BY <1>1 DEF Reached, EnrichmentsOf
<1>5. \A k \in Runs, u \in Workers :
        RunGrants'[k][u] = IF k = r /\ u = w THEN left ELSE RunGrants[k][u]
  BY <1>1 DEF RunGrants, Inv, TypeOK
<1>6. CASE left = 0
  <2>1. RunGrants[r][w] = 0
    BY <1>1, <1>2 DEF RunGrants
  <2>2. \A k \in Runs, u \in Workers : RunGrants'[k][u] = RunGrants[k][u]
    BY <1>5, <1>6, <2>1
  <2>3. RunGrants' = RunGrants
    BY <2>2 DEF RunGrants
  <2> QED
    BY <1>4, <2>3
<1>7. CASE left # 0
  <2>1. Cardinality(Reached[r]) + left <= MaxContactsTotalPerRun
    BY <1>2, <1>3, <1>7, ContactsAssumption DEF Reached
  <2>2. left \in 1..MaxContactsTotalPerRun
    BY <1>3, <1>7, ContactsAssumption
  <2>3. RunGrants' = [RunGrants EXCEPT ![r][w] = left]
    BY <1>2, <1>5, OneRunGrant
  <2>4. RunCap!Count(r, w)
    BY <1>4, <2>1, <2>2, <2>3, SameCardinality DEF RunCap!Count
  <2> QED
    BY <1>2, <2>4 DEF RunCap!Next
<1> QED
  BY <1>6, <1>7

\* The same of a run, whose count is dropped also before the account was counted.
LEMMA SpendRun ==
  ASSUME Inv, Inv', NEW w \in Workers, pc[w] \in {"run_counted", "counted"},
         enrichments \subseteq enrichments', pc'[w] \notin {"run_counted", "counted"},
         \A u \in Workers \ {w} : UNCHANGED <<pc[u], job[u], runLeft[u]>>,
         NEW M, IsFiniteSet(M), Cardinality(M) <= runLeft[w],
         enrichments' \subseteq enrichments \cup M, \A en \in M : en.run = job[w].run
  PROVE  RunCap!Next
<1> DEFINE r == job[w].run
<1>1. r \in Runs
  BY JobsHaveKeys
<1>2. RunGrants' = [RunGrants EXCEPT ![r][w] = 0] /\ RunGrants[r][w] = runLeft[w]
  <2>1. \A k \in Runs, u \in Workers :
          RunGrants'[k][u] = IF k = r /\ u = w THEN 0 ELSE RunGrants[k][u]
    BY DEF RunGrants
  <2>2. RunGrants' = [RunGrants EXCEPT ![r][w] = 0]
    BY <1>1, <2>1, OneRunGrant
  <2> QED
    BY <1>1, <2>2 DEF RunGrants
<1>3. \A k \in Runs \ {r} : Reached'[k] = Reached[k]
  BY DEF Reached, EnrichmentsOf
<1>4. Reached' = [Reached EXCEPT ![r] = Reached'[r]]
  BY <1>1, <1>3 DEF Reached
<1>5. Reached[r] \subseteq Reached'[r] /\ Reached'[r] \ Reached[r] \in SUBSET M
  BY <1>1 DEF Reached, EnrichmentsOf
<1>6. IsFiniteSet(Reached'[r])
  <2>1. IsFiniteSet(enrichments') /\ Reached'[r] \in SUBSET enrichments'
    BY <1>1 DEF Inv, TablesOK, Reached, EnrichmentsOf
  <2> QED
    BY <2>1, FS_Subset
<1>7. Cardinality(Reached'[r] \ Reached[r]) <= runLeft[w]
  <2>1. /\ Cardinality(Reached'[r] \ Reached[r]) <= Cardinality(M)
        /\ Cardinality(Reached'[r] \ Reached[r]) \in Nat /\ Cardinality(M) \in Nat
    BY <1>5, FS_Subset, FS_CardinalityType
  <2>2. runLeft[w] \in Nat
    BY ContactsAssumption DEF Inv, TypeOK
  <2> QED
    BY <2>1, <2>2
<1>8. RunCap!Spend(r, w)
  BY <1>2, <1>4, <1>5, <1>6, <1>7, SameCardinality DEF RunCap!Spend
<1> QED
  BY <1>1, <1>8 DEF RunCap!Next

LEMMA RunSteps ==
  Inv /\ [Next]_vars => RunCap!Next \/ UNCHANGED <<Reached, RunGrants>>
<1> SUFFICES ASSUME Inv, [Next]_vars, ~\E w \in Workers : CountRun(w)
             PROVE  RunCap!Next \/ UNCHANGED <<Reached, RunGrants>>
  BY CountRunCounts
<1> DEFINE counted == {"run_counted", "counted"}
<1>1. Inv'
  BY NextInv
<1>2. ASSUME NEW w \in Workers, PersistContacts(w)
      PROVE  RunCap!Next
  <2>1. /\ pc[w] = "counted" /\ pc' = [pc EXCEPT ![w] = "persisted"]
        /\ UNCHANGED <<job, runLeft>>
    BY <1>2 DEF PersistContacts, Advance
  <2>2. PICK M : /\ IsFiniteSet(M) /\ Cardinality(M) <= runLeft[w]
                 /\ enrichments' \subseteq enrichments \cup M /\ \A en \in M : en.run = job[w].run
    BY <1>2, InsertedFit
  <2>3. enrichments \subseteq enrichments' /\ pc'[w] \notin counted
    BY <1>2, <2>1 DEF PersistContacts, Insert, Inv, TypeOK
  <2>4. \A u \in Workers \ {w} : UNCHANGED <<pc[u], job[u], runLeft[u]>>
    BY <2>1 DEF Inv, TypeOK
  <2> QED
    BY <1>1, <2>1, <2>2, <2>3, <2>4, SpendRun
<1>3. ASSUME NEW w \in Workers, Refuse(w) \/ RaiseOnClash(w) \/ Abort(w), pc[w] \in counted
      PROVE  RunCap!Next
  <2>1. UNCHANGED enrichments /\ Release(w)
    BY <1>3 DEF Refuse, Close, RaiseOnClash, Abort, tables
  <2>2. pc'[w] \notin counted /\ \A u \in Workers \ {w} : UNCHANGED <<pc[u], job[u], runLeft[u]>>
    BY <2>1 DEF Release, Inv, TypeOK
  <2>3. /\ IsFiniteSet({}) /\ Cardinality({}) <= runLeft[w]
        /\ enrichments' \subseteq enrichments \cup {}
    BY <2>1, FS_EmptySet, ContactsAssumption DEF Inv, TypeOK
  <2> QED
    BY <1>1, <1>3, <2>1, <2>2, <2>3, SpendRun
<1>4. ASSUME NEW file \in Files, ImportFile(file)
      PROVE  UNCHANGED <<Reached, RunGrants>>
  <2>1. UNCHANGED <<pc, job, runLeft>>
    BY <1>4 DEF ImportFile, locals
  <2>2. /\ enrichments \subseteq enrichments'
        /\ \A en \in enrichments' : en \in enrichments \/ en.run = ImportRun
    BY <1>4 DEF ImportFile, Insert
  <2>3. \A r \in Runs : EnrichmentsOf(r)' = EnrichmentsOf(r)
    BY <2>2, ContactsAssumption DEF EnrichmentsOf
  <2> QED
    BY <2>1, <2>3 DEF Reached, RunGrants
<1>5. ASSUME ~\E w \in Workers : \/ PersistContacts(w)
                                 \/ (Refuse(w) \/ RaiseOnClash(w) \/ Abort(w)) /\ pc[w] \in counted,
             ~\E file \in Files : ImportFile(file)
      PROVE  UNCHANGED <<Reached, RunGrants>>
  <2>1. UNCHANGED enrichments
    BY <1>5 DEF Next, WorkerStep, Refuse, ParkExhausted, SpendAttempt, CountAccount, Finish, Abort,
       RaiseOnClash, Begin, tables, vars
  <2>2. \A u \in Workers : /\ (pc'[u] \in counted) <=> (pc[u] \in counted)
                           /\ pc[u] \in counted => UNCHANGED <<job[u], runLeft[u]>>
    BY <1>5 DEF Next, WorkerStep, Refuse, ParkExhausted, SpendAttempt, CountAccount, Finish, Abort,
       RaiseOnClash, Begin, Close, Release, Advance, locals, vars, Inv, TypeOK
  <2> QED
    BY <2>1, <2>2 DEF Reached, EnrichmentsOf, RunGrants
<1> QED
  BY <1>2, <1>3, <1>4, <1>5

-----------------------------------------------------------------------------
LEMMA ImplementsAccountCap == Spec => AccountCap!Spec
<1>1. Inv /\ [Next]_vars => [AccountCap!Next]_<<Searched, AccountGrants>>
  BY AccountSteps
<1> QED
  BY <1>1, InitCountsAccounts, InvAlways, PTL DEF Spec, AccountCap!Spec

LEMMA ImplementsRunCap == Spec => RunCap!Spec
<1>1. Inv /\ [Next]_vars => [RunCap!Next]_<<Reached, RunGrants>>
  BY RunSteps
<1> QED
  BY <1>1, InitCountsRuns, InvAlways, PTL DEF Spec, RunCap!Spec

(***************************************************************************)
(* A search inserts no more contacts than both of its counts left, once,   *)
(* for any answers, files, clashes, caps and aborts.                       *)
(***************************************************************************)
THEOREM ContactsImplementCountedCaps == Spec => ImplementsCountedCaps
BY ImplementsAccountCap, ImplementsRunCap, PTL DEF ImplementsCountedCaps

\* One cap for each worker, written as the bound of a counted cap.
LEMMA OneCapEach ==
  ASSUME NEW cap \in Nat
  PROVE  cap + cap * (Cardinality(Workers) - 1) = cap * Cardinality(Workers)
BY ContactsAssumption, FS_CardinalityType

LEMMA AccountCapOvershoot == AccountCap!Spec => []AccountProofs!OvershootBounded
<1>1. AccountProofs!CapAssumption
  BY ContactsAssumption, SameCardinality DEF AccountProofs!CapAssumption
<1>2. AccountCap!Init => AccountProofs!Init
  BY DEF AccountCap!Init, AccountProofs!Init
<1>3. [AccountCap!Next]_<<Searched, AccountGrants>> => [AccountProofs!Next]_<<Searched, AccountGrants>>
  BY SameCardinality DEF AccountCap!Next, AccountCap!Count, AccountCap!Spend, AccountProofs!Next,
     AccountProofs!Count, AccountProofs!Spend
<1>4. AccountProofs!Spec => []AccountProofs!OvershootBounded
  BY <1>1, AccountProofs!CountingBoundsOvershoot
<1> QED
  BY <1>2, <1>3, <1>4, PTL DEF AccountCap!Spec, AccountProofs!Spec

LEMMA RunCapOvershoot == RunCap!Spec => []RunProofs!OvershootBounded
<1>1. RunProofs!CapAssumption
  BY ContactsAssumption, SameCardinality DEF RunProofs!CapAssumption
<1>2. RunCap!Init => RunProofs!Init
  BY DEF RunCap!Init, RunProofs!Init
<1>3. [RunCap!Next]_<<Reached, RunGrants>> => [RunProofs!Next]_<<Reached, RunGrants>>
  BY SameCardinality DEF RunCap!Next, RunCap!Count, RunCap!Spend, RunProofs!Next,
     RunProofs!Count, RunProofs!Spend
<1>4. RunProofs!Spec => []RunProofs!OvershootBounded
  BY <1>1, RunProofs!CountingBoundsOvershoot
<1> QED
  BY <1>2, <1>3, <1>4, PTL DEF RunCap!Spec, RunProofs!Spec

(***************************************************************************)
(* However many searches of an account or a run race, they store at most   *)
(* the cap once per worker, for any cap, answers, imports and aborts.      *)
(***************************************************************************)
THEOREM OvershootsAreBounded == Spec => []ContactCapsOvershootBounded
<1>1. AccountProofs!OvershootBounded /\ RunProofs!OvershootBounded => ContactCapsOvershootBounded
  <2> SUFFICES ASSUME AccountProofs!OvershootBounded, RunProofs!OvershootBounded
               PROVE  ContactCapsOvershootBounded
    OBVIOUS
  <2>1. \A a \in Accounts :
          Cardinality(SearchedIn(a)) <= MaxContactsPerAccount * Cardinality(Workers)
    BY SameCardinality, OneCapEach, ContactsAssumption
    DEF AccountProofs!OvershootBounded, Searched
  <2>2. \A run \in Runs :
          Cardinality(EnrichmentsOf(run)) <= MaxContactsTotalPerRun * Cardinality(Workers)
    BY SameCardinality, OneCapEach, ContactsAssumption
    DEF RunProofs!OvershootBounded, Reached
  <2> QED
    BY <2>1, <2>2 DEF ContactCapsOvershootBounded
<1> QED
  BY <1>1, ContactsImplementCountedCaps, AccountCapOvershoot, RunCapOvershoot, PTL
  DEF ImplementsCountedCaps
=============================================================================
