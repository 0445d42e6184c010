------------------------------ MODULE Contacts ------------------------------
(***************************************************************************)
(* How contacts come into being: people_search jobs write the best         *)
(* candidates of an account up to two caps, and the API imports CSV files. *)
(* Either writes, in one transaction, a contact, its identity aliases and  *)
(* its contact_enrichment row.                                             *)
(*                                                                         *)
(* The caps are counted in the transaction that inserts, but before the    *)
(* inserts and without a lock.  What a transaction inserts is seen by      *)
(* others when it commits, and a clash of keys makes the later one wait    *)
(* for that, so the inserts of one transaction are one action.             *)
(***************************************************************************)
EXTENDS Naturals, Sequences, FiniteSets

CONSTANTS
  Accounts, NoAccount,  \* account ids; NoAccount: the payload has none
  Stored,               \* the accounts that have a row
  Runs, ImportRun,      \* values of trace_run_id; ImportRun: that of any import
  Values, NoValue,      \* normalized e-mail addresses and LinkedIn URLs, or none
  Finds,                \* account -> the adapter's answer, a sequence of candidates
  Garbled,              \* the accounts it may answer with a candidate that is none
  Files,                \* CSV files: sequences of candidates, as far as rows parse
  Items,                \* the people_search rows of work_items
  Workers,
  MaxContactsPerAccount, MaxContactsTotalPerRun,
  InitialBudget,        \* row -> its attempt_budget_remaining
  MaxAborts             \* bound: jobs that die or raise for other reasons

AliasTypes == {"email_normalized", "linkedin_url_normalized"}

\* A ContactCandidate, or a row of a file, where the rank says nothing; a lower rank is
\* a better candidate_sort_key.
Candidate == [account : Accounts, email : Values \cup {NoValue},
              linkedin : Values \cup {NoValue}, ambiguous : BOOLEAN, rank : Nat]

Item == [account : Accounts \cup {NoAccount}, adapter : {"registered", "unknown"}, run : Runs]

ContactIds == Accounts \X AliasTypes \X Values

Contact == [id : ContactIds, origin : {"search", "import"}]

Alias == [contact : ContactIds, type : AliasTypes, value : Values]

Enrichment == [run : Runs \cup {ImportRun}, contact : ContactIds]

Outcomes == {"ok", "run_cap", "needs_human", "no_signal"}

EventType == {"work_item_completed", "work_item_parked", "work_item_failed_contract"}

ASSUME ContactsAssumption ==
  /\ NoAccount \notin Accounts /\ Stored \subseteq Accounts
  /\ ImportRun \notin Runs /\ NoValue \notin Values
  /\ Finds \in [Accounts -> Seq(Candidate)] /\ Garbled \subseteq Accounts
  /\ Files \subseteq Seq(Candidate)
  /\ Items \subseteq Item
  /\ IsFiniteSet(Workers) /\ Workers # {}
  /\ MaxContactsPerAccount \in Nat \ {0} /\ MaxContactsTotalPerRun \in Nat
  /\ InitialBudget \in [Items -> Nat] /\ MaxAborts \in Nat

VARIABLES
  contacts, aliases,  \* rows of contacts and contact_aliases
  enrichments,        \* contact_enrichment rows of work_items
  budget,             \* per item: attempt_budget_remaining
  events,             \* terminal events, as pairs of item and event type
  pc, job,            \* per worker: where its job is, and the row it loaded
  loaded,             \* per worker: the budget it loaded
  runLeft,            \* per worker: what the run cap left when it was counted
  accountLeft,        \* per worker: what the account cap left when it was counted
  outcome,            \* per worker: the result of the service
  aborts              \* how many jobs died

tables == <<contacts, aliases, enrichments>>
locals == <<loaded, runLeft, accountLeft, outcome>>
vars == <<contacts, aliases, enrichments, budget, events, pc, job, loaded,
          runLeft, accountLeft, outcome, aborts>>

NoJob == [account |-> NoAccount, adapter |-> "unknown", run |-> ImportRun]

PcLabels == {"idle", "begun", "spent", "run_counted", "counted", "persisted"}

Left(cap, used) == IF used < cap THEN cap - used ELSE 0

Least(m, n) == IF m < n THEN m ELSE n

ContactsOf(a) == {c \in contacts : c.id[1] = a}

EnrichmentsOf(run) == {en \in enrichments : en.run = run}

-----------------------------------------------------------------------------
(***************************************************************************)
(* Identities, and the rows that candidates lead to.                       *)
(***************************************************************************)

HasIdentity(c) == c.email # NoValue \/ c.linkedin # NoValue

\* make_contact_id: the e-mail address before the LinkedIn URL.
ContactId(c) ==
  IF c.email # NoValue THEN <<c.account, "email_normalized", c.email>>
                       ELSE <<c.account, "linkedin_url_normalized", c.linkedin>>

Known(id) == \E c \in contacts : c.id = id

\* The value of a candidate's alias of some type.
Identity(c, type) == IF type = "email_normalized" THEN c.email ELSE c.linkedin

\* ON CONFLICT (contact_id, alias_type) DO NOTHING: the first row to name a contact
\* and a type decides.
NewAliases(rows, picked) ==
  {[contact |-> ContactId(rows[p[1]]), type |-> p[2], value |-> Identity(rows[p[1]], p[2])] :
     p \in {q \in picked \X AliasTypes :
              LET id == ContactId(rows[q[1]])
              IN /\ Identity(rows[q[1]], q[2]) # NoValue
                 /\ \A al \in aliases : ~(al.contact = id /\ al.type = q[2])
                 /\ \A j \in picked : (j < q[1] /\ ContactId(rows[j]) = id)
                                         => Identity(rows[j], q[2]) = NoValue}}

\* uq_contact_aliases_account_type_value, which no ON CONFLICT names.
Clash(new) ==
  \E x \in new, y \in aliases \cup new :
    x # y /\ x.contact[1] = y.contact[1] /\ x.type = y.type /\ x.value = y.value

\* Contact, aliases and enrichment row of each picked row.
Insert(rows, picked, origin, run) ==
  LET ids == {ContactId(rows[i]) : i \in picked}
  IN /\ contacts' = contacts \cup {[id |-> id, origin |-> origin] : id \in {x \in ids : ~Known(x)}}
     /\ aliases' = aliases \cup NewAliases(rows, picked)
     /\ enrichments' = enrichments \cup {[run |-> run, contact |-> id] :
          id \in {x \in ids : \A en \in enrichments : en.contact # x}}

Advance(w, from, to) ==
  /\ pc[w] = from
  /\ pc' = [pc EXCEPT ![w] = to]

Release(w) ==
  /\ pc' = [pc EXCEPT ![w] = "idle"]
  /\ job' = [job EXCEPT ![w] = NoJob]
  /\ loaded' = [loaded EXCEPT ![w] = 0]
  /\ runLeft' = [runLeft EXCEPT ![w] = 0]
  /\ accountLeft' = [accountLeft EXCEPT ![w] = 0]
  /\ outcome' = [outcome EXCEPT ![w] = "ok"]

Close(w, type) ==
  /\ events' = events \cup {<<job[w], type>>}
  /\ Release(w)

-----------------------------------------------------------------------------
(***************************************************************************)
(* The API: import_contacts, a file per transaction.  Rows of accounts     *)
(* that have no row and rows without an identity are refused; a clash      *)
(* rolls the file back.                                                    *)
(***************************************************************************)
\* Mutant: the identities are not looked at.
Accepted_AnyIdentity(file) == {i \in DOMAIN file : file[i].account \in Stored}

Accepted(file) ==
  {i \in DOMAIN file : file[i].account \in Stored /\ HasIdentity(file[i])}

ImportFile(file) ==
  /\ ~Clash(NewAliases(file, Accepted(file)))
  /\ Insert(file, Accepted(file), "import", ImportRun)
  /\ UNCHANGED <<budget, events, pc, job, locals, aborts>>

-----------------------------------------------------------------------------
(***************************************************************************)
(* handle_people_search and run_people_search.                             *)
(***************************************************************************)

\* A delivered row, new or repeated; handler_started.
Begin(w, it) ==
  /\ Advance(w, "idle", "begun")
  /\ job' = [job EXCEPT ![w] = it]
  /\ loaded' = [loaded EXCEPT ![w] = budget[it]]
  /\ UNCHANGED <<tables, budget, events, runLeft, accountLeft, outcome, aborts>>

WellFormed(it) == it.account # NoAccount /\ it.adapter = "registered"

\* The payload's contract at first; after the spending, the account's row; after the run was
\* counted, the adapter, whose types refuse a malformed candidate with a ValueError.
Refuse(w) ==
  /\ \/ pc[w] = "begun" /\ ~WellFormed(job[w])
     \/ pc[w] = "spent" /\ job[w].account \notin Stored
     \/ pc[w] = "run_counted" /\ job[w].account \in Garbled
  /\ Close(w, "work_item_failed_contract")
  /\ UNCHANGED <<tables, budget, aborts>>

ParkExhausted(w) ==
  /\ pc[w] = "begun"
  /\ WellFormed(job[w])
  /\ loaded[w] = 0
  /\ Close(w, "work_item_parked")
  /\ UNCHANGED <<tables, budget, aborts>>

\* spend_budget: what was loaded less one is written back; commit.
SpendAttempt(w) ==
  /\ Advance(w, "begun", "spent")
  /\ WellFormed(job[w])
  /\ loaded[w] > 0
  /\ budget' = [budget EXCEPT ![job[w]] = loaded[w] - 1]
  /\ UNCHANGED <<tables, events, job, locals, aborts>>

\* count_run_contacts; a run at its cap writes nothing.
CountRun(w) ==
  LET left == Left(MaxContactsTotalPerRun, Cardinality(EnrichmentsOf(job[w].run)))
  IN /\ pc[w] = "spent"
     /\ job[w].account \in Stored
     /\ pc' = [pc EXCEPT ![w] = IF left = 0 THEN "persisted" ELSE "run_counted"]
     /\ runLeft' = [runLeft EXCEPT ![w] = left]
     /\ outcome' = [outcome EXCEPT ![w] = IF left = 0 THEN "run_cap" ELSE "ok"]
     /\ UNCHANGED <<tables, budget, events, job, loaded, accountLeft, aborts>>

\* _count_existing_contacts
CountAccount(w) ==
  /\ Advance(w, "run_counted", "counted")
  /\ accountLeft' = [accountLeft EXCEPT
       ![w] = Left(MaxContactsPerAccount, Cardinality(ContactsOf(job[w].account)))]
  /\ UNCHANGED <<tables, budget, events, job, loaded, runLeft, outcome, aborts>>

\* What validation leaves of the adapter's answer, before and after the dedup.
Usable(a, i) ==
  LET c == Finds[a][i]
  IN c.account = a /\ HasIdentity(c) /\ ~(c.ambiguous /\ c.linkedin = NoValue)

Candidates(a) ==
  {i \in DOMAIN Finds[a] :
     /\ Usable(a, i)
     /\ \A j \in 1..(i-1) : Usable(a, j) => ContactId(Finds[a][j]) # ContactId(Finds[a][i])}

\* candidate_sort_key ends with the contact id, so that it orders whatever is not the
\* same contact.
ASSUME RanksDiffer ==
  \A a \in Accounts : \A i, j \in Candidates(a) : i # j => Finds[a][i].rank # Finds[a][j].rank

\* Mutant: the sort is ascending.
Better_Worst(a, i, j) == Finds[a][i].rank > Finds[a][j].rank

Better(a, i, j) == Finds[a][i].rank < Finds[a][j].rank

\* The candidates that become contacts before candidate i has its turn.
NewBefore(a, i) ==
  {j \in Candidates(a) : Better(a, j, i) /\ ~Known(ContactId(Finds[a][j]))}

\* Mutant: the caps are off by one.
Kept_OffByOne(w) ==
  LET a == job[w].account
  IN {i \in Candidates(a) : Cardinality(NewBefore(a, i)) <= Least(accountLeft[w], runLeft[w])}

\* Mutant: the cap of the run is not asked.
Kept_AccountOnly(w) ==
  LET a == job[w].account
  IN {i \in Candidates(a) : Cardinality(NewBefore(a, i)) < accountLeft[w]}

\* Candidates, in order, until either cap is used up by new contacts.
Kept(w) ==
  LET a == job[w].account
  IN {i \in Candidates(a) : Cardinality(NewBefore(a, i)) < Least(accountLeft[w], runLeft[w])}

RunCapHit(w) ==
  LET a == job[w].account
  IN /\ runLeft[w] < accountLeft[w]
     /\ \E i \in Candidates(a) : Cardinality(NewBefore(a, i)) >= runLeft[w]

NeedsHuman(a) ==
  \E i \in DOMAIN Finds[a] :
    LET c == Finds[a][i]
    IN c.account = a /\ HasIdentity(c) /\ c.ambiguous /\ c.linkedin = NoValue

\* Mutant: finding nobody is not told from finding somebody.
Result_NoSignal(w) ==
  CASE RunCapHit(w)               -> "run_cap"
    [] ~RunCapHit(w) /\ NeedsHuman(job[w].account) -> "needs_human"
    [] OTHER                      -> "ok"

\* The flags of the result, in the order the handler asks for them.
Result(w) ==
  LET a == job[w].account
  IN CASE RunCapHit(w)                     -> "run_cap"
       [] ~RunCapHit(w) /\ NeedsHuman(a)   -> "needs_human"
       [] ~RunCapHit(w) /\ ~NeedsHuman(a) /\ Candidates(a) = {} -> "no_signal"
       [] OTHER                            -> "ok"

PersistContacts(w) ==
  LET rows == Finds[job[w].account]
  IN /\ Advance(w, "counted", "persisted")
     /\ ~Clash(NewAliases(rows, Kept(w)))
     /\ Insert(rows, Kept(w), "search", job[w].run)
     /\ outcome' = [outcome EXCEPT ![w] = Result(w)]
     /\ UNCHANGED <<budget, events, job, loaded, runLeft, accountLeft, aborts>>

\* Mutant: the contacts were committed before their aliases.
RaiseOnClash_KeepContacts(w) ==
  LET rows == Finds[job[w].account]
  IN /\ pc[w] = "counted"
     /\ Clash(NewAliases(rows, Kept(w)))
     /\ contacts' = contacts \cup {[id |-> ContactId(rows[i]), origin |-> "search"] :
                                     i \in {j \in Kept(w) : ~Known(ContactId(rows[j]))}}
     /\ Release(w)
     /\ UNCHANGED <<aliases, enrichments, budget, events, aborts>>

\* IntegrityError is no ValueError: the handler raises and the transaction is lost.
RaiseOnClash(w) ==
  /\ pc[w] = "counted"
  /\ Clash(NewAliases(Finds[job[w].account], Kept(w)))
  /\ Release(w)
  /\ UNCHANGED <<tables, budget, events, aborts>>

Finish(w) ==
  /\ pc[w] = "persisted"
  /\ Close(w, IF outcome[w] = "ok" THEN "work_item_completed" ELSE "work_item_parked")
  /\ UNCHANGED <<tables, budget, aborts>>

\* Any other exception, a deadlock of two transactions included, or a dead process.
Abort(w) ==
  /\ pc[w] # "idle"
  /\ aborts < MaxAborts
  /\ aborts' = aborts + 1
  /\ Release(w)
  /\ UNCHANGED <<tables, budget, events>>

-----------------------------------------------------------------------------
Init ==
  /\ contacts = {} /\ aliases = {} /\ enrichments = {} /\ events = {}
  /\ budget = InitialBudget
  /\ pc = [w \in Workers |-> "idle"]
  /\ job = [w \in Workers |-> NoJob]
  /\ loaded = [w \in Workers |-> 0]
  /\ runLeft = [w \in Workers |-> 0]
  /\ accountLeft = [w \in Workers |-> 0]
  /\ outcome = [w \in Workers |-> "ok"]
  /\ aborts = 0

WorkerStep(w) ==
  \/ Refuse(w) \/ ParkExhausted(w) \/ SpendAttempt(w) \/ CountRun(w) \/ CountAccount(w)
  \/ PersistContacts(w) \/ RaiseOnClash(w) \/ Finish(w)

Next ==
  \/ \E w \in Workers : WorkerStep(w) \/ Abort(w) \/ \E it \in Items : Begin(w, it)
  \/ \E file \in Files : ImportFile(file)

Spec == Init /\ [][Next]_vars

-----------------------------------------------------------------------------
TypeOK ==
  /\ contacts \subseteq Contact
  /\ aliases \subseteq Alias
  /\ enrichments \subseteq Enrichment
  /\ budget \in [Items -> Nat]
  /\ events \subseteq Item \X EventType
  /\ pc \in [Workers -> PcLabels]
  /\ job \in [Workers -> Item \cup {NoJob}]
  /\ loaded \in [Workers -> Nat]
  /\ runLeft \in [Workers -> 0..MaxContactsTotalPerRun]
  /\ accountLeft \in [Workers -> 0..MaxContactsPerAccount]
  /\ outcome \in [Workers -> Outcomes]
  /\ aborts \in 0..MaxAborts

(***************************************************************************)
(* A contact is in the table exactly when its enrichment row is, and it    *)
(* has an alias for the identity in its id: whatever files, searches and   *)
(* aborted searches come in whatever order, none is half written.          *)
(***************************************************************************)
ContactsAreWhole ==
  /\ \A c \in contacts :
       /\ \E en \in enrichments : en.contact = c.id
       /\ [contact |-> c.id, type |-> c.id[2], value |-> c.id[3]] \in aliases
  /\ \A en \in enrichments : Known(en.contact)

SearchedIn(a) == {c \in ContactsOf(a) : c.origin = "search"}

(***************************************************************************)
(* Searches that race past the cap of an account find at most the cap once *)
(* per worker: a second count waits for nothing, but whoever counts sees   *)
(* what is committed.  Imports, which ignore the cap, are not counted      *)
(* against it here.  So it is with the cap of a run, which is counted on   *)
(* the enrichment rows of all its accounts.  With one worker both are      *)
(* exact.                                                                  *)
(***************************************************************************)
ContactCapsOvershootBounded ==
  /\ \A a \in Accounts :
       Cardinality(SearchedIn(a)) <= MaxContactsPerAccount * Cardinality(Workers)
  /\ \A run \in Runs :
       Cardinality(EnrichmentsOf(run)) <= MaxContactsTotalPerRun * Cardinality(Workers)

Searched == [a \in Accounts |-> SearchedIn(a)]

\* What a search may still insert for its account.
AccountGrants == [a \in Accounts |-> [w \in Workers |->
  IF pc[w] = "counted" /\ job[w].account = a THEN accountLeft[w] ELSE 0]]

AccountCap == INSTANCE CountedCap WITH
  Keys <- Accounts, Cap <- MaxContactsPerAccount, MaxGrant <- MaxContactsPerAccount,
  members <- Searched, granted <- AccountGrants

Reached == [run \in Runs |-> EnrichmentsOf(run)]

\* What a search may still insert for its run.
RunGrants == [run \in Runs |-> [w \in Workers |->
  IF pc[w] \in {"run_counted", "counted"} /\ job[w].run = run THEN runLeft[w] ELSE 0]]

RunCap == INSTANCE CountedCap WITH
  Keys <- Runs, Cap <- MaxContactsTotalPerRun, MaxGrant <- MaxContactsTotalPerRun,
  members <- Reached, granted <- RunGrants

(***************************************************************************)
(* Both caps are counted ones: what a job inserts after its two counts is  *)
(* within what the one left for the account and the other for the run,     *)
(* although candidates that are contacts already use nothing up and        *)
(* imports and other jobs insert in between.                               *)
(***************************************************************************)
ImplementsCountedCaps == AccountCap!Spec /\ RunCap!Spec

(***************************************************************************)
(* A search never stores a candidate before a better one of its account:   *)
(* whoever a cap turns away, and however often and by how many workers the *)
(* search is repeated, the better candidates are contacts.                 *)
(***************************************************************************)
BestAreKept ==
  \A a \in Accounts : \A i, j \in Candidates(a) :
    (Finds[a][i].rank < Finds[a][j].rank
       /\ [id |-> ContactId(Finds[a][j]), origin |-> "search"] \in contacts)
      => Known(ContactId(Finds[a][i]))

(***************************************************************************)
(* A search closed as completed leaves its account with a contact, its own *)
(* or one that took its place under a cap.                                 *)
(***************************************************************************)
HasContact(a) == \E c \in contacts : c.id[1] = a

CompletedFoundSomebody ==
  \A it \in Items : <<it, "work_item_completed">> \in events => HasContact(it.account)

-----------------------------------------------------------------------------
(***************************************************************************)
(* The strengthening that makes the invariants inductive.                  *)
(***************************************************************************)
JobsFitPlace == \A w \in Workers :
  /\ pc[w] # "idle" => job[w] \in Items
  /\ pc[w] \in {"spent", "run_counted", "counted", "persisted"} => WellFormed(job[w])
  /\ pc[w] \in {"run_counted", "counted"} => runLeft[w] > 0
  /\ pc[w] = "counted" /\ accountLeft[w] = 0 => HasContact(job[w].account)
  /\ pc[w] = "persisted" /\ outcome[w] = "ok" => HasContact(job[w].account)

\* An alias of the type that a contact's id has holds the value that the id has.
AliasesFit == \A al \in aliases : al.type = al.contact[2] => al.value = al.contact[3]

=============================================================================
