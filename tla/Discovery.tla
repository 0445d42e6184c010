------------------------------ MODULE Discovery -------------------------------
(***************************************************************************)
(* The account_discovery stage: a worker spends an attempt, asks a source  *)
(* adapter for the companies of a query, and writes what it answers in one *)
(* long transaction: evidence, accounts (new, or merged into the ones that *)
(* are known), aliases and a scoring row for each account.                 *)
(*                                                                         *)
(* A transaction sees what is committed and what it wrote itself; a row    *)
(* another transaction has written makes it wait. Statements of one        *)
(* candidate are two steps: what is read of the account, and the writes.   *)
(***************************************************************************)
EXTENDS Integers, FiniteSets, Sequences

CONSTANTS
  Registries, Domains, Names, \* what companies are known by: keys
  NoKey, NoAccount,
  Evidence,      \* evidence ids
  Items,         \* account_discovery rows of work_items
  Enqueued,      \* what may have been enqueued: sets of rows
  Queries,       \* query ids
  Known,         \* the queries that exist, with their seller
  NoQuery,       \* the payload has none, or names an unknown adapter
  Answers,       \* query -> the candidate lists an adapter may answer
  InitialBudget, \* row -> its attempt_budget_remaining
  Posted,        \* what clients may post as accounts
  Workers,
  MaxAccounts,   \* the lower of the two account caps of a run
  MaxAborts      \* bound: jobs that raise or die

\* Account ids are made of one key each: canonical_ids.make_account_id.
Ids == Registries \cup Domains \cup Names

\* Trust of the source type, capture time, and rank of the source reference.
Source == [trust : -1..5, at : Nat, ref : Nat]

\* A posted provenance may be none that extract_account_trust_metadata can read: it raises.
Readable(s) == s.trust >= 0

Account == [source : Source, evidence : SUBSET Evidence]

\* What is said of an account: by a candidate, or by the client who posts it.
Offer == [source : Source, evidence : SUBSET Evidence, account : Ids]

\* name is the key of the legal name and the source. On a faulty one the service raises: a
\* ValueError for a timestamp that is none, or something else; evidence is then what it has
\* written before. The adapter's types refuse a candidate without legal name or country.
Candidate == [registry : Registries \cup {NoKey}, domain : Domains \cup {NoKey},
              name : Names,
              source : {s \in Source : Readable(s)}, evidence : SUBSET Evidence,
              fault : {"none", "contract_error", "transient_error"}]

\* AccountIn; its evidence_ids need not be rows.
Posting == [source : Source, evidence : SUBSET Evidence, keys : SUBSET (Registries \cup Domains),
            account : Ids]

\* capped: its payload has used up the run's queries or external calls.
Item == [key : Nat \ {0}, query : Queries \cup {NoQuery}, capped : BOOLEAN]

Outcomes == {"ok", "budget_exhausted", "no_signal", "contract_error", "transient_error"}

ASSUME DiscoveryAssumption ==
  /\ Registries \cap Domains = {} /\ Registries \cap Names = {} /\ Domains \cap Names = {}
  /\ NoKey \notin Ids /\ NoAccount \notin Account
  /\ NoQuery \notin Queries /\ Known \subseteq Queries
  /\ Items \subseteq Item /\ Enqueued \subseteq SUBSET Items
  /\ Answers \in [Queries -> SUBSET Seq(Candidate)]
  /\ InitialBudget \in [Items -> Nat]
  /\ Posted \subseteq Posting
  /\ MaxAccounts \in Nat \ {0} /\ MaxAborts \in Nat

VARIABLES
  items,      \* account_discovery rows of work_items
  budget,     \* row -> attempt_budget_remaining
  accounts,   \* id -> source and evidence_ids of its row
  aliases,    \* account_aliases: pairs of account and key
  evidence,   \* evidence rows
  scorings,   \* intent_fit_scoring rows that jobs enqueued: pairs of account and query
  events,     \* terminal events, as pairs of row and error code
  pc, job,    \* per worker: where its job is, and the row it loaded
  loaded,     \* per worker: the budget it loaded
  todo,       \* per worker: the candidates it has still to write
  target,     \* per worker: the account its candidate resolved to
  base,       \* per worker: that account as it was read
  draft,      \* per worker: what its transaction has written
  made,       \* per worker: the accounts it has created
  outcome,    \* per worker: what it will put in the terminal event
  aborts,     \* how many jobs raised or died
  offered,    \* history: account, source and evidence of each candidate committed
  raced,      \* history: accounts two jobs had in hand at once, or a job and a client
  posted,     \* history: account, source and evidence of each account posted
  created,    \* history: row -> the accounts its jobs created
  shared,     \* history: rows with two jobs at once
  cut         \* history: rows with a job that died between its commit and its event

tables == <<items, budget, accounts, aliases, evidence, scorings, events>>
locals == <<loaded, todo, target, base, draft, made, outcome>>
history == <<offered, raced, posted, created, shared, cut>>
vars == <<tables, pc, job, locals, aborts, history>>

NoJob == [key |-> 0, query |-> NoQuery, capped |-> FALSE]

\* accounts holds the rows written; touched and offers are history.
NoDraft == [evidence |-> {}, accounts |-> [k \in Ids |-> NoAccount], aliases |-> {},
            scorings |-> {}, touched |-> {}, offers |-> {}]

PcLabels == {"idle", "begun", "spent", "listed", "read", "committed"}

-----------------------------------------------------------------------------
(***************************************************************************)
(* Identity and precedence of sources.                                     *)
(***************************************************************************)

\* should_update_account
Overwrites(new, old) ==
  \/ new.trust > old.trust
  \/ /\ new.trust = old.trust
     /\ new.at > old.at \/ (new.at = old.at /\ new.ref < old.ref)

\* A transaction's view of an account.
Sees(w, k) == IF draft[w].accounts[k] # NoAccount THEN draft[w].accounts[k] ELSE accounts[k]

\* The account of that id or else one that has the key as an alias (the first by id, an
\* order the model leaves out).
Matches(w, k) ==
  IF k \in Ids /\ Sees(w, k) # NoAccount THEN {k}
  ELSE {a \in Ids : <<a, k>> \in aliases \cup draft[w].aliases}

\* make_account_id
CanonicalId(c) ==
  IF c.registry # NoKey THEN c.registry ELSE IF c.domain # NoKey THEN c.domain ELSE c.name

\* _resolve_canonical_account_id
Resolutions(w, c) ==
  IF Matches(w, c.registry) # {} THEN Matches(w, c.registry)
  ELSE IF Matches(w, c.domain) # {} THEN Matches(w, c.domain)
  ELSE {CanonicalId(c)}

\* _write_aliases; those of legal names, which nothing here looks up, are left out.
AliasRows(k, c) == {<<k, x>> : x \in {c.registry, c.domain} \ {NoKey}}

-----------------------------------------------------------------------------
(***************************************************************************)
(* Transactions.                                                           *)
(***************************************************************************)
Advance(w, from, to) ==
  /\ pc[w] = from
  /\ pc' = [pc EXCEPT ![w] = to]

\* Whether the writes of w's candidate include one of the account's row.
WritesAccount(w) ==
  LET c == Head(todo[w])
  IN base[w] # NoAccount =>
       Overwrites(c.source, base[w].source) \/ ~(c.evidence \subseteq base[w].evidence)

\* Where the service raises on w's candidate: at its own evidence, or at what the account has
\* as provenance.
FaultOf(w) ==
  IF Head(todo[w]).fault # "none" THEN Head(todo[w]).fault
  ELSE IF base[w] # NoAccount /\ ~Readable(base[w].source) THEN "transient_error"
  ELSE "none"

\* One of the rows w's candidate writes is a row v has written and not committed.
WaitsFor(w, v) ==
  LET c == Head(todo[w])
  IN /\ pc[w] = "read" /\ v # w
     /\ \/ c.evidence \cap draft[v].evidence # {}
        \/ /\ FaultOf(w) = "none"
           /\ \/ WritesAccount(w) /\ draft[v].accounts[target[w]] # NoAccount
              \/ AliasRows(target[w], c) \cap draft[v].aliases # {}
              \/ <<target[w], job[w].query>> \in draft[v].scorings

Release(w) ==
  /\ pc' = [pc EXCEPT ![w] = "idle"]
  /\ job' = [job EXCEPT ![w] = NoJob]
  /\ loaded' = [loaded EXCEPT ![w] = 0]
  /\ todo' = [todo EXCEPT ![w] = <<>>]
  /\ target' = [target EXCEPT ![w] = NoKey]
  /\ base' = [base EXCEPT ![w] = NoAccount]
  /\ draft' = [draft EXCEPT ![w] = NoDraft]
  /\ made' = [made EXCEPT ![w] = 0]
  /\ outcome' = [outcome EXCEPT ![w] = "ok"]

Close(w, code) ==
  /\ events' = events \cup {<<job[w], code>>}
  /\ Release(w)

\* With evidence rows that were written after what the draft holds.
CommitDraft(w, ids) ==
  /\ accounts' = [k \in Ids |-> Sees(w, k)]
  /\ aliases' = aliases \cup draft[w].aliases
  /\ evidence' = evidence \cup draft[w].evidence \cup ids
  /\ scorings' = scorings \cup draft[w].scorings
  /\ offered' = offered \cup draft[w].offers
  /\ created' = [created EXCEPT ![job[w]] = @ + made[w]]

-----------------------------------------------------------------------------
(***************************************************************************)
(* POST /accounts: the row and its aliases.  The id must be free.          *)
(***************************************************************************)
InHand(k) == \E v \in Workers : k \in draft[v].touched

PostAccount(p) ==
  /\ accounts[p.account] = NoAccount
  /\ \A v \in Workers : draft[v].accounts[p.account] = NoAccount
  /\ accounts' = [accounts EXCEPT ![p.account] = [source |-> p.source, evidence |-> p.evidence]]
  /\ aliases' = aliases \cup {<<p.account, x>> : x \in p.keys}
  /\ posted' = posted \cup {[source |-> p.source, evidence |-> p.evidence, account |-> p.account]}
  /\ raced' = IF InHand(p.account) THEN raced \cup {p.account} ELSE raced
  /\ UNCHANGED <<items, budget, evidence, scorings, events, pc, job, locals, aborts, offered,
                 created, shared, cut>>

-----------------------------------------------------------------------------
(***************************************************************************)
(* handle_account_discovery and run_account_discovery.                     *)
(***************************************************************************)
Closed(it) == \E e \in events : e[1] = it

\* Mutant: no replay guard.
Begin_Unguarded(w, it) ==
  /\ Advance(w, "idle", "begun")
  /\ job' = [job EXCEPT ![w] = it]
  /\ loaded' = [loaded EXCEPT ![w] = budget[it]]
  /\ shared' = IF \E v \in Workers : job[v] = it THEN shared \cup {it} ELSE shared
  /\ UNCHANGED <<tables, todo, target, base, draft, made, outcome, aborts, offered, raced,
                 posted, created, cut>>

\* A delivered row, new or repeated; one with a terminal event is a no-op.
Begin(w, it) ==
  /\ ~Closed(it)
  /\ Advance(w, "idle", "begun")
  /\ job' = [job EXCEPT ![w] = it]
  /\ loaded' = [loaded EXCEPT ![w] = budget[it]]
  /\ shared' = IF \E v \in Workers : job[v] = it THEN shared \cup {it} ELSE shared
  /\ UNCHANGED <<tables, todo, target, base, draft, made, outcome, aborts, offered, raced,
                 posted, created, cut>>

\* The payload's query and adapter; after the spending, the query's row and its seller's.
Refuse(w) ==
  /\ \/ pc[w] = "begun" /\ job[w].query = NoQuery
     \/ pc[w] = "spent" /\ job[w].query \notin Known
  /\ Close(w, "contract_error")
  /\ UNCHANGED <<items, budget, accounts, aliases, evidence, scorings, aborts, history>>

ParkExhausted(w) ==
  /\ pc[w] = "begun"
  /\ job[w].query # NoQuery
  /\ job[w].capped \/ loaded[w] = 0
  /\ Close(w, "budget_exhausted")
  /\ UNCHANGED <<items, budget, accounts, aliases, evidence, scorings, aborts, history>>

\* Mutant: an exhausted budget is spent as well.
SpendAttempt_Unchecked(w) ==
  /\ Advance(w, "begun", "spent")
  /\ job[w].query # NoQuery
  /\ ~job[w].capped
  /\ budget' = [budget EXCEPT ![job[w]] = loaded[w] - 1]
  /\ UNCHANGED <<items, accounts, aliases, evidence, scorings, events, job, locals, aborts,
                 history>>

\* spend_budget: what was loaded less one is written back; commit.
SpendAttempt(w) ==
  /\ Advance(w, "begun", "spent")
  /\ job[w].query # NoQuery
  /\ ~job[w].capped /\ loaded[w] > 0
  /\ budget' = [budget EXCEPT ![job[w]] = loaded[w] - 1]
  /\ UNCHANGED <<items, accounts, aliases, evidence, scorings, events, job, locals, aborts,
                 history>>

\* search_accounts answers.
AskAdapter(w) ==
  /\ Advance(w, "spent", "listed")
  /\ job[w].query \in Known
  /\ \E answer \in Answers[job[w].query] : todo' = [todo EXCEPT ![w] = answer]
  /\ UNCHANGED <<tables, job, loaded, target, base, draft, made, outcome, aborts, history>>

\* search_accounts raises: a ValueError for candidates that are none, or something else,
\* which ends the row too.
FailAdapter(w) ==
  /\ pc[w] = "spent"
  /\ job[w].query \in Known
  /\ \E code \in {"contract_error", "transient_error"} : Close(w, code)
  /\ UNCHANGED <<items, budget, accounts, aliases, evidence, scorings, aborts, history>>

\* Mutant: the cap lets one more through.
More_OneOver(w) == todo[w] # <<>> /\ made[w] <= MaxAccounts

\* Another candidate, and the account caps not reached.
More(w) == todo[w] # <<>> /\ made[w] < MaxAccounts

\* Mutant: an account is read as it was committed, without what the transaction wrote.
Resolve_Committed(w) ==
  /\ Advance(w, "listed", "read")
  /\ More(w)
  /\ \E k \in Resolutions(w, Head(todo[w])) :
       /\ target' = [target EXCEPT ![w] = k]
       /\ base' = [base EXCEPT ![w] = accounts[k]]
       /\ draft' = [draft EXCEPT ![w].touched = @ \cup {k}]
       /\ raced' = IF \E v \in Workers \ {w} : k \in draft[v].touched
                   THEN raced \cup {k} ELSE raced
  /\ UNCHANGED <<tables, job, loaded, todo, made, outcome, aborts, offered, posted, created,
                 shared, cut>>

\* _resolve_canonical_account_id and _load_account_state.
Resolve(w) ==
  /\ Advance(w, "listed", "read")
  /\ More(w)
  /\ \E k \in Resolutions(w, Head(todo[w])) :
       /\ target' = [target EXCEPT ![w] = k]
       /\ base' = [base EXCEPT ![w] = Sees(w, k)]
       /\ draft' = [draft EXCEPT ![w].touched = @ \cup {k}]
       /\ raced' = IF \E v \in Workers \ {w} : k \in draft[v].touched
                   THEN raced \cup {k} ELSE raced
  /\ UNCHANGED <<tables, job, loaded, todo, made, outcome, aborts, offered, posted, created,
                 shared, cut>>

\* Mutant: the candidate's evidence replaces the account's.
Merged_Replaced(w) ==
  LET c == Head(todo[w])
      k == target[w]
      merged == base[w].evidence \cup c.evidence
  IN IF base[w] = NoAccount
     THEN IF Sees(w, k) # NoAccount THEN draft[w].accounts[k]
          ELSE [source |-> c.source, evidence |-> c.evidence]
     ELSE IF Overwrites(c.source, base[w].source)
     THEN [source |-> c.source, evidence |-> c.evidence]
     ELSE IF merged # base[w].evidence THEN [Sees(w, k) EXCEPT !.evidence = merged]
     ELSE draft[w].accounts[k]

\* Mutant: the last source wins.
Merged_LastWins(w) ==
  LET c == Head(todo[w])
      k == target[w]
      merged == base[w].evidence \cup c.evidence
  IN IF base[w] = NoAccount
     THEN IF Sees(w, k) # NoAccount THEN draft[w].accounts[k]
          ELSE [source |-> c.source, evidence |-> c.evidence]
     ELSE [source |-> c.source, evidence |-> merged]

\* _write_account: an INSERT unless the id is taken meanwhile, an UPDATE of the source and
\* the evidence as merged with what was read, an UPDATE of the evidence, or nothing.
Merged(w) ==
  LET c == Head(todo[w])
      k == target[w]
      merged == base[w].evidence \cup c.evidence
  IN IF base[w] = NoAccount
     THEN IF Sees(w, k) # NoAccount THEN draft[w].accounts[k]
          ELSE [source |-> c.source, evidence |-> c.evidence]
     ELSE IF Overwrites(c.source, base[w].source)
     THEN [source |-> c.source, evidence |-> merged]
     ELSE IF merged # base[w].evidence THEN [Sees(w, k) EXCEPT !.evidence = merged]
     ELSE draft[w].accounts[k]

\* Mutant: evidence rows are written for new accounts alone.
Drafted_NewOnly(w) ==
  LET c == Head(todo[w])
      k == target[w]
      d == draft[w]
  IN [evidence |-> IF base[w] = NoAccount THEN d.evidence \cup (c.evidence \ evidence)
                   ELSE d.evidence,
      accounts |-> [d.accounts EXCEPT ![k] = Merged(w)],
      aliases |-> d.aliases \cup (AliasRows(k, c) \ aliases),
      scorings |-> d.scorings \cup ({<<k, job[w].query>>} \ scorings),
      touched |-> d.touched,
      offers |-> d.offers \cup {[source |-> c.source, evidence |-> c.evidence, account |-> k]}]

\* What a candidate adds to the transaction.
Drafted(w) ==
  LET c == Head(todo[w])
      k == target[w]
      d == draft[w]
  IN [evidence |-> d.evidence \cup (c.evidence \ evidence),
      accounts |-> [d.accounts EXCEPT ![k] = Merged(w)],
      aliases |-> d.aliases \cup (AliasRows(k, c) \ aliases),
      scorings |-> d.scorings \cup ({<<k, job[w].query>>} \ scorings),
      touched |-> d.touched,
      offers |-> d.offers \cup {[source |-> c.source, evidence |-> c.evidence, account |-> k]}]

\* Evidence, account, aliases and scoring row of the candidate.
Write(w) ==
  /\ Advance(w, "read", "listed")
  /\ FaultOf(w) = "none"
  /\ \A v \in Workers : ~WaitsFor(w, v)
  /\ draft' = [draft EXCEPT ![w] = Drafted(w)]
  /\ made' = [made EXCEPT ![w] = IF base[w] = NoAccount /\ Sees(w, target[w]) = NoAccount
                                 THEN @ + 1 ELSE @]
  /\ todo' = [todo EXCEPT ![w] = Tail(@)]
  /\ target' = [target EXCEPT ![w] = NoKey]
  /\ base' = [base EXCEPT ![w] = NoAccount]
  /\ UNCHANGED <<tables, job, loaded, outcome, aborts, history>>

\* The service raises in the middle of its candidates. The handler commits what it has
\* written until then, with the park of that error: contract_error for a ValueError.
BreakOff(w) ==
  /\ pc[w] = "read"
  /\ FaultOf(w) # "none"
  /\ \A v \in Workers : ~WaitsFor(w, v)
  /\ CommitDraft(w, Head(todo[w]).evidence)
  /\ Close(w, FaultOf(w))
  /\ UNCHANGED <<items, budget, aborts, raced, posted, shared, cut>>

\* The loop ends: candidates written, a cap reached, or the run's time up. Commit.
Conclude(w) ==
  /\ Advance(w, "listed", "committed")
  /\ \/ todo[w] = <<>> /\ outcome' = [outcome EXCEPT ![w] = IF made[w] = 0 THEN "no_signal" ELSE "ok"]
     \/ todo[w] # <<>> /\ outcome' = [outcome EXCEPT ![w] = "budget_exhausted"]
  /\ CommitDraft(w, {})
  /\ draft' = [draft EXCEPT ![w] = NoDraft]
  /\ made' = [made EXCEPT ![w] = 0]
  /\ UNCHANGED <<items, budget, events, job, loaded, todo, target, base, aborts, raced,
                 posted, shared, cut>>

\* The terminal event; commit.
Finish(w) ==
  /\ pc[w] = "committed"
  /\ Close(w, outcome[w])
  /\ UNCHANGED <<items, budget, accounts, aliases, evidence, scorings, aborts, history>>

\* The database ends a transaction of a cycle; the handler's next statement raises.
Deadlock(w) ==
  /\ \E v \in Workers : WaitsFor(w, v) /\ \E u \in Workers : WaitsFor(v, u)
  /\ Release(w)
  /\ UNCHANGED <<tables, aborts, history>>

\* The handler raises for another reason or its process dies; nothing retries the job.
Abort(w) ==
  /\ pc[w] # "idle"
  /\ aborts < MaxAborts
  /\ aborts' = aborts + 1
  /\ Release(w)
  /\ cut' = IF pc[w] = "committed" THEN cut \cup {job[w]} ELSE cut
  /\ UNCHANGED <<tables, offered, raced, posted, created, shared>>

-----------------------------------------------------------------------------
Init ==
  /\ items \in Enqueued /\ budget = InitialBudget
  /\ accounts = [k \in Ids |-> NoAccount]
  /\ aliases = {} /\ evidence = {} /\ scorings = {} /\ events = {}
  /\ pc = [w \in Workers |-> "idle"]
  /\ job = [w \in Workers |-> NoJob]
  /\ loaded = [w \in Workers |-> 0]
  /\ todo = [w \in Workers |-> <<>>]
  /\ target = [w \in Workers |-> NoKey]
  /\ base = [w \in Workers |-> NoAccount]
  /\ draft = [w \in Workers |-> NoDraft]
  /\ made = [w \in Workers |-> 0]
  /\ outcome = [w \in Workers |-> "ok"]
  /\ aborts = 0
  /\ offered = {} /\ raced = {} /\ posted = {} /\ shared = {} /\ cut = {}
  /\ created = [it \in Items |-> 0]

WorkerStep(w) ==
  \/ Refuse(w) \/ ParkExhausted(w) \/ SpendAttempt(w) \/ AskAdapter(w) \/ FailAdapter(w)
  \/ Resolve(w) \/ Write(w) \/ BreakOff(w) \/ Conclude(w) \/ Finish(w)
  \/ Deadlock(w)

Next ==
  \/ \E w \in Workers : WorkerStep(w) \/ Abort(w) \/ \E it \in items : Begin(w, it)
  \/ \E p \in Posted : PostAccount(p)

Spec == Init /\ [][Next]_vars

-----------------------------------------------------------------------------
Draft == [evidence : SUBSET Evidence, accounts : [Ids -> Account \cup {NoAccount}],
          aliases : SUBSET (Ids \X Ids), scorings : SUBSET (Ids \X Queries),
          touched : SUBSET Ids, offers : SUBSET Offer]

TypeOK ==
  /\ items \subseteq Items
  /\ budget \in [Items -> Nat]
  /\ accounts \in [Ids -> Account \cup {NoAccount}]
  /\ aliases \subseteq Ids \X Ids
  /\ evidence \subseteq Evidence
  /\ scorings \subseteq Ids \X Queries
  /\ events \subseteq Items \X Outcomes
  /\ pc \in [Workers -> PcLabels]
  /\ job \in [Workers -> Items \cup {NoJob}]
  /\ loaded \in [Workers -> Nat]
  /\ todo \in [Workers -> Seq(Candidate)]
  /\ target \in [Workers -> Ids \cup {NoKey}]
  /\ base \in [Workers -> Account \cup {NoAccount}]
  /\ draft \in [Workers -> Draft]
  /\ made \in [Workers -> Nat]
  /\ outcome \in [Workers -> Outcomes]
  /\ aborts \in 0..MaxAborts
  /\ offered \subseteq Offer /\ posted \subseteq Offer
  /\ raced \subseteq Ids
  /\ created \in [Items -> Nat]
  /\ shared \subseteq Items /\ cut \subseteq Items

WasPosted(k) == \E o \in posted : o.account = k

\* A client posted the account with that evidence id.
PostedWith(k, e) == \E o \in posted : o.account = k /\ e \in o.evidence

(***************************************************************************)
(* Whatever breaks off a run, the tables fit together: the evidence ids a  *)
(* run gives an account are rows, each account a run created is queued for *)
(* scoring and found again by the key its id is made of, and aliases and   *)
(* scoring rows name accounts that exist.                                  *)
(***************************************************************************)
TablesFitTogether ==
  /\ \A k \in Ids : accounts[k] # NoAccount =>
       /\ \A e \in accounts[k].evidence : e \in evidence \/ PostedWith(k, e)
       /\ ~WasPosted(k) => /\ \E q \in Queries : <<k, q>> \in scorings
                           /\ k \in Names \/ <<k, k>> \in aliases
  /\ \A p \in aliases \cup scorings : accounts[p[1]] # NoAccount

\* Account k stands for its offers: the best source, and all the evidence.
StandsFor(a, k, offers) ==
  LET mine == {o \in offers : o.account = k}
      sources == {o.source : o \in mine}
  IN /\ \A e \in Evidence : e \in a.evidence <=> \E o \in mine : e \in o.evidence
     /\ a.source \in sources /\ \A s \in sources : ~Overwrites(s, a.source)

(***************************************************************************)
(* An account no two jobs had in hand at once does not depend on the order *)
(* in which queries, candidates, crashes and replays came: it has the      *)
(* source that precedes all others, and the evidence of them all, of the   *)
(* candidates committed for it and of what a client posted it with.        *)
(***************************************************************************)
UnracedAccountsConverge == \A k \in Ids \ raced :
  accounts[k] # NoAccount => StandsFor(accounts[k], k, offered \cup posted)

(***************************************************************************)
(* Nor does any commit, of whatever was read long before, make it worse:   *)
(* evidence stays, and only a source that precedes replaces the source.    *)
(***************************************************************************)
Improves(a, b) ==
  /\ b # NoAccount
  /\ a.evidence \subseteq b.evidence
  /\ b.source = a.source \/ Overwrites(b.source, a.source)

UnracedAccountsImprove == [][\A k \in Ids \ raced' :
  accounts[k] # NoAccount => Improves(accounts[k], accounts'[k])]_vars

(***************************************************************************)
(* To those accounts, the transactions of the jobs are one merge each of   *)
(* their candidates with the accounts as they are at the commit, although  *)
(* they read them before and other jobs commit in between.                 *)
(***************************************************************************)
Book == INSTANCE AccountBook WITH
  book <- [k \in Ids |-> IF k \in raced THEN NoAccount ELSE accounts[k]],
  heard <- offered, disputed <- raced

ImplementsAccountBook == Book!Spec

\* Rows that two jobs served at once, or whose job died between its two commits.
Disturbed == shared \cup cut

(***************************************************************************)
(* A row creates no more accounts than the cap of one run, however often   *)
(* it is delivered and its jobs raise.  Even replays that follow the death *)
(* of a job between its two commits, and create accounts again, cannot     *)
(* create more than a cap for each attempt spent of the row's budget,      *)
(* unless two jobs serve it at once.                                       *)
(***************************************************************************)
RowsKeepTheCap == \A it \in Items :
  /\ it \notin Disturbed => created[it] <= MaxAccounts
  /\ it \notin shared => created[it] <= MaxAccounts * (InitialBudget[it] - budget[it])

(***************************************************************************)
(* A row in peace has one terminal event, and what it says of accounts is  *)
(* true: a completed row created some, one parked for no signal none.      *)
(***************************************************************************)
UndisturbedRowsTellTheTruth == \A e \in events : e[1] \notin Disturbed =>
  /\ \A f \in events : f[1] = e[1] => f = e
  /\ e[2] = "ok" => created[e[1]] > 0
  /\ e[2] = "no_signal" => created[e[1]] = 0

-----------------------------------------------------------------------------
(***************************************************************************)
(* The strengthening that makes these properties inductive.                *)
(***************************************************************************)
OpenLabels == {"listed", "read"}

\* A job that is not writing has no transaction; one that is has room for an account, and what
\* it has read is there.
JobFits(w) ==
  /\ pc[w] # "idle" => job[w] \in Items
  /\ pc[w] \in OpenLabels => job[w].query \in Known
  /\ pc[w] \notin OpenLabels => draft[w] = NoDraft /\ made[w] = 0
  /\ made[w] <= MaxAccounts
  /\ pc[w] = "read" =>
       /\ todo[w] # <<>> /\ made[w] < MaxAccounts
       /\ target[w] \in draft[w].touched
       /\ base[w] # NoAccount => Sees(w, target[w]) # NoAccount

JobsFitPlace == \A w \in Workers : JobFits(w)

\* What a transaction has written or read fits with the tables as they will be after its
\* commit; a target without a row is the candidate's own id.
DraftFits(w) ==
  LET d == draft[w]
  IN /\ \A k \in Ids : d.accounts[k] # NoAccount =>
          /\ k \in d.touched
          /\ \A e \in d.accounts[k].evidence : e \in evidence \cup d.evidence \/ PostedWith(k, e)
          /\ ~WasPosted(k) => /\ \E q \in Queries : <<k, q>> \in scorings \cup d.scorings
                              /\ k \in Names \/ <<k, k>> \in aliases \cup d.aliases
     /\ \A p \in d.aliases \cup d.scorings : Sees(w, p[1]) # NoAccount
     /\ pc[w] = "read" =>
          IF base[w] = NoAccount THEN target[w] = CanonicalId(Head(todo[w]))
          ELSE \A e \in base[w].evidence :
                 e \in evidence \cup d.evidence \/ PostedWith(target[w], e)

DraftsFitTables == \A w \in Workers : DraftFits(w)

\* Jobs that have one account in hand are noticed; what was posted or offered has an account.
RacesAreNoticed == \A v, w \in Workers : v # w => draft[v].touched \cap draft[w].touched \subseteq raced

OffersHaveAccounts ==
  /\ \A o \in offered \cup posted : accounts[o.account] # NoAccount
  /\ \A w \in Workers : \A o \in draft[w].offers :
       o.account \in draft[w].touched /\ Sees(w, o.account) # NoAccount

\* The only job that has an account in hand has read what is there, and will leave what
\* stands for all its candidates.
IsCurrent(w) ==
  /\ pc[w] = "read" /\ target[w] \notin raced => base[w] = Sees(w, target[w])
  /\ \A k \in draft[w].touched \ raced :
       Sees(w, k) # NoAccount =>
         StandsFor(Sees(w, k), k, offered \cup posted \cup draft[w].offers)

SoleJobsAreCurrent == \A w \in Workers : IsCurrent(w)

\* Two jobs of one row are noticed.
JobsAreNoticed == \A v, w \in Workers :
  v # w /\ pc[v] # "idle" /\ pc[w] # "idle" /\ job[v] = job[w] => job[w] \in shared

\* The job of a row in peace is the first to say or to create anything for it.
JobsInPeaceAreFirst == \A w \in Workers : pc[w] # "idle" /\ job[w] \notin Disturbed =>
  /\ ~Closed(job[w])
  /\ IF pc[w] # "committed" THEN created[job[w]] = 0
     ELSE /\ outcome[w] = "ok" => created[job[w]] > 0
          /\ outcome[w] = "no_signal" => created[job[w]] = 0

\* What was created for a row is reported, or about to be.
CreationsAreReported == \A it \in Items :
  \/ created[it] = 0 \/ it \in Disturbed \/ Closed(it)
  \/ \E w \in Workers : pc[w] = "committed" /\ job[w] = it

\* Each of the row's jobs has paid for what it created, or may yet create.
Owed(it) ==
  IF \E w \in Workers : pc[w] \in {"spent", "listed", "read"} /\ job[w] = it THEN MaxAccounts ELSE 0

AttemptsArePaid == \A it \in Items \ shared :
  /\ budget[it] <= InitialBudget[it]
  /\ \A w \in Workers : pc[w] = "begun" /\ job[w] = it => loaded[w] = budget[it]
  /\ created[it] + Owed(it) <= MaxAccounts * (InitialBudget[it] - budget[it])
=============================================================================
