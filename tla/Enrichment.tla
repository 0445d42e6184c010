------------------------------ MODULE Enrichment ------------------------------
(***************************************************************************)
(* The contact_enrichment stage: a worker spends an attempt, reads the     *)
(* contact, validates its e-mail address (with a DNS lookup), writes the   *)
(* whole channel list back and routes the contact: to copy generation, to  *)
(* a human, or nowhere.                                                    *)
(*                                                                         *)
(* The channel list is one validation level; the DNS answers as it likes.  *)
(* One action is one commit or one read whose answer is used later.        *)
(***************************************************************************)
EXTENDS Naturals, FiniteSets

CONSTANTS
  Contacts,      \* contact ids
  NoContact,     \* the payload has none
  Stored,        \* the contacts that have a row
  Traits,        \* stored contact -> what its row says of address and role
  Keys,          \* what tells the contact_enrichment rows of one contact apart
  Items,         \* contact_enrichment rows of work_items that may come to be
  Enqueued,      \* what people search and imports may have enqueued: sets of rows
  Posted,        \* rows that clients may post
  InitialBudget, \* row -> its attempt_budget_remaining
  Workers,
  MaxProvidersPerContact,
  MaxAborts      \* bound: jobs that raise or die

\* blocked: a free-mail domain or a generic mailbox; ambiguous: a role cluster that is
\* set and not an allowed one.
Trait == [email : BOOLEAN, wellFormed : BOOLEAN, blocked : BOOLEAN, ambiguous : BOOLEAN]

\* contact is the payload's contact_id, ref the row's entity_ref_id.
Item == [key : Keys, contact : Contacts \cup {NoContact}, ref : Contacts]

Outcomes == {"ok", "budget_exhausted", "no_signal", "policy_blocked", "needs_human",
             "contract_error"}

ASSUME EnrichmentAssumption ==
  /\ NoContact \notin Contacts /\ Stored \subseteq Contacts
  /\ Traits \in [Stored -> Trait]
  /\ Items \subseteq Item /\ IsFiniteSet(Items)
  /\ Enqueued \subseteq SUBSET Items /\ Posted \subseteq Items
  /\ InitialBudget \in [Items -> Nat]
  /\ MaxProvidersPerContact \in Nat /\ MaxAborts \in Nat

VARIABLES
  items,       \* contact_enrichment rows of work_items
  budget,      \* row -> attempt_budget_remaining
  level,       \* stored contact -> validation level of its e-mail channel
  profiles,    \* contacts with an alias linkedin_url_normalized
  copies,      \* copy_generate rows of work_items: contact and attempt budget
  events,      \* terminal events, as pairs of row and error code
  pc, job,     \* per worker: where its job is, and the row it loaded
  loaded,      \* per worker: the budget it loaded
  seen,        \* per worker: the level it read
  verdict,     \* per worker: the level validate_email returned
  outcome,     \* per worker: the route
  aborts,      \* how many jobs raised or died
  resolved,    \* history: contacts whose domain has resolved
  lookups,     \* history: row -> DNS lookups made for it
  overlapped   \* history: contacts two jobs were at work on at once

tables == <<items, budget, level, profiles, copies>>
locals == <<loaded, seen, verdict, outcome>>
history == <<resolved, lookups, overlapped>>
vars == <<tables, events, pc, job, locals, aborts, history>>

NoJob == [key |-> "none", contact |-> NoContact, ref |-> NoContact]

PcLabels == {"idle", "begun", "spent", "contact_read", "probing", "validated", "routed"}

-----------------------------------------------------------------------------
(***************************************************************************)
(* Validation levels and send policy.                                      *)
(***************************************************************************)
Levels == {"unverified", "syntax_ok", "domain_ok", "provider_verified", "human_verified"}

\* _LEVEL_ORDER
Rank == [l \in Levels |->
  CASE l = "unverified" -> 0 [] l = "syntax_ok" -> 1 [] l = "domain_ok" -> 2
    [] l = "provider_verified" -> 3 [] l = "human_verified" -> 4]

\* validation_level_gte
AtLeast(a, b) == Rank[a] >= Rank[b]

\* Mutant: the new level replaces the old one.
HigherLevel_Newest(a, b) == b

\* higher_validation_level
HigherLevel(a, b) == IF AtLeast(a, b) THEN a ELSE b

HasEmail(c) == Traits[c].email

\* _is_role_ambiguous and not _has_linkedin_alias
Unclear(c) == Traits[c].ambiguous /\ c \notin profiles

\* Mutant: the role is looked at before the send policy.
Route_RoleFirst(c, l) ==
  IF ~AtLeast(l, "domain_ok") THEN "no_signal"
  ELSE IF Unclear(c) THEN "needs_human"
  ELSE IF Traits[c].blocked THEN "policy_blocked"
  ELSE "ok"

\* Routing rules 1 to 3.
Route(c, l) ==
  IF ~AtLeast(l, "domain_ok") THEN "no_signal"
  ELSE IF Traits[c].blocked THEN "policy_blocked"
  ELSE IF Unclear(c) THEN "needs_human"
  ELSE "ok"

Copied(c) == \E r \in copies : r.contact = c

\* _enqueue_copy_generate: the budget the parent had before it spent; ON CONFLICT
\* (idempotency_key) DO NOTHING.
EnqueueCopy(c, left) ==
  IF Copied(c) THEN copies ELSE copies \cup {[contact |-> c, budget |-> left]}

\* count_contact_providers
ProviderCount(c) == Cardinality({it \in items : it.ref = c})

-----------------------------------------------------------------------------
Advance(w, from, to) ==
  /\ pc[w] = from
  /\ pc' = [pc EXCEPT ![w] = to]

Release(w) ==
  /\ pc' = [pc EXCEPT ![w] = "idle"]
  /\ job' = [job EXCEPT ![w] = NoJob]
  /\ loaded' = [loaded EXCEPT ![w] = 0]
  /\ seen' = [seen EXCEPT ![w] = "unverified"]
  /\ verdict' = [verdict EXCEPT ![w] = "unverified"]
  /\ outcome' = [outcome EXCEPT ![w] = "ok"]

Close(w, code) ==
  /\ events' = events \cup {<<job[w], code>>}
  /\ Release(w)

-----------------------------------------------------------------------------
(***************************************************************************)
(* Other components.                                                       *)
(***************************************************************************)

\* POST /work-items.
PostItem(it) ==
  /\ items' = items \cup {it}
  /\ UNCHANGED <<budget, level, profiles, copies, events, pc, job, locals, aborts, history>>

\* A search or an import finds the LinkedIn URL of a contact that is stored; it matters
\* for those with an unclear role alone.
FindProfile(c) ==
  /\ Traits[c].ambiguous
  /\ profiles' = profiles \cup {c}
  /\ UNCHANGED <<items, budget, level, copies, events, pc, job, locals, aborts, history>>

-----------------------------------------------------------------------------
(***************************************************************************)
(* handle_contact_enrichment and run_contact_enrichment.                   *)
(***************************************************************************)
Busy(c) == \E w \in Workers : pc[w] # "idle" /\ job[w].contact = c

\* A delivered row, new or repeated; handler_started.
Begin(w, it) ==
  /\ Advance(w, "idle", "begun")
  /\ job' = [job EXCEPT ![w] = it]
  /\ loaded' = [loaded EXCEPT ![w] = budget[it]]
  /\ overlapped' = IF Busy(it.contact) THEN overlapped \cup {it.contact} ELSE overlapped
  /\ UNCHANGED <<tables, events, seen, verdict, outcome, aborts, resolved, lookups>>

\* The payload's contact_id; after the spending, the contact's row.
Refuse(w) ==
  /\ \/ pc[w] = "begun" /\ job[w].contact = NoContact
     \/ pc[w] = "spent" /\ job[w].contact \notin Stored
  /\ Close(w, "contract_error")
  /\ UNCHANGED <<tables, aborts, history>>

ParkExhausted(w) ==
  /\ pc[w] = "begun"
  /\ job[w].contact # NoContact
  /\ loaded[w] = 0
  /\ Close(w, "budget_exhausted")
  /\ UNCHANGED <<tables, aborts, history>>

\* Mutant: an exhausted budget is spent as well.
SpendAttempt_Unchecked(w) ==
  /\ Advance(w, "begun", "spent")
  /\ job[w].contact # NoContact
  /\ budget' = [budget EXCEPT ![job[w]] = loaded[w] - 1]
  /\ UNCHANGED <<items, level, profiles, copies, events, job, locals, aborts, history>>

\* Mutant: nothing is spent before the lookup.
SpendAttempt_Unspent(w) ==
  /\ Advance(w, "begun", "spent")
  /\ job[w].contact # NoContact
  /\ loaded[w] > 0
  /\ UNCHANGED <<tables, events, job, locals, aborts, history>>

\* spend_budget: what was loaded less one is written back; commit.
SpendAttempt(w) ==
  /\ Advance(w, "begun", "spent")
  /\ job[w].contact # NoContact
  /\ loaded[w] > 0
  /\ budget' = [budget EXCEPT ![job[w]] = loaded[w] - 1]
  /\ UNCHANGED <<items, level, profiles, copies, events, job, locals, aborts, history>>

\* _load_contact
ReadContact(w) ==
  /\ Advance(w, "spent", "contact_read")
  /\ job[w].contact \in Stored
  /\ seen' = [seen EXCEPT ![w] = level[job[w].contact]]
  /\ UNCHANGED <<tables, events, job, loaded, verdict, outcome, aborts, history>>

\* The provider cap, then the search for an e-mail channel; both end the service with
\* nothing written.
StopShort(w) ==
  LET c == job[w].contact
  IN /\ Advance(w, "contact_read", "routed")
     /\ ProviderCount(c) >= MaxProvidersPerContact \/ ~HasEmail(c)
     /\ outcome' = [outcome EXCEPT ![w] =
          IF ProviderCount(c) >= MaxProvidersPerContact THEN "budget_exhausted"
                                                        ELSE "no_signal"]
     /\ UNCHANGED <<tables, events, job, loaded, seen, verdict, aborts, history>>

FindEmail(w) ==
  /\ Advance(w, "contact_read", "probing")
  /\ ProviderCount(job[w].contact) < MaxProvidersPerContact
  /\ HasEmail(job[w].contact)
  /\ UNCHANGED <<tables, events, job, locals, aborts, history>>

\* check_email_syntax fails: no lookup.
RejectSyntax(w) ==
  /\ Advance(w, "probing", "validated")
  /\ ~Traits[job[w].contact].wellFormed
  /\ verdict' = [verdict EXCEPT ![w] = "unverified"]
  /\ UNCHANGED <<tables, events, job, loaded, seen, outcome, aborts, history>>

\* check_domain_resolves: an address, or a gaierror.
LookUpDomain(w) ==
  /\ Advance(w, "probing", "validated")
  /\ Traits[job[w].contact].wellFormed
  /\ lookups' = [lookups EXCEPT ![job[w]] = @ + 1]
  /\ \/ /\ verdict' = [verdict EXCEPT ![w] = "domain_ok"]
        /\ resolved' = resolved \cup {job[w].contact}
     \/ /\ verdict' = [verdict EXCEPT ![w] = "syntax_ok"]
        /\ UNCHANGED resolved
  /\ UNCHANGED <<tables, events, job, loaded, seen, outcome, aborts, overlapped>>

\* TransientDnsError leaves the handler: no terminal event, no retry of the job.
TimeOut(w) ==
  /\ pc[w] = "probing"
  /\ Traits[job[w].contact].wellFormed
  /\ aborts < MaxAborts
  /\ aborts' = aborts + 1
  /\ lookups' = [lookups EXCEPT ![job[w]] = @ + 1]
  /\ Release(w)
  /\ UNCHANGED <<tables, events, resolved, overlapped>>

\* Mutant: the row gets what the parent has left.
PersistRoute_Spent(w) ==
  LET c == job[w].contact
      l == HigherLevel(seen[w], verdict[w])
  IN /\ Advance(w, "validated", "routed")
     /\ level' = [level EXCEPT ![c] = l]
     /\ outcome' = [outcome EXCEPT ![w] = Route(c, l)]
     /\ copies' = IF Route(c, l) = "ok" THEN EnqueueCopy(c, loaded[w] - 1) ELSE copies
     /\ UNCHANGED <<items, budget, profiles, events, job, loaded, seen, verdict, aborts, history>>

\* The channel list read before the lookup is written back, whatever is there now; the
\* route and its copy_generate row come with the same commit.
PersistRoute(w) ==
  LET c == job[w].contact
      l == HigherLevel(seen[w], verdict[w])
  IN /\ Advance(w, "validated", "routed")
     /\ level' = [level EXCEPT ![c] = l]
     /\ outcome' = [outcome EXCEPT ![w] = Route(c, l)]
     /\ copies' = IF Route(c, l) = "ok" THEN EnqueueCopy(c, loaded[w]) ELSE copies
     /\ UNCHANGED <<items, budget, profiles, events, job, loaded, seen, verdict, aborts, history>>

\* The terminal event of the route; commit.
Finish(w) ==
  /\ pc[w] = "routed"
  /\ Close(w, outcome[w])
  /\ UNCHANGED <<tables, aborts, history>>

\* The handler raises for another reason or its process dies; nothing retries the job.
Abort(w) ==
  /\ pc[w] # "idle"
  /\ aborts < MaxAborts
  /\ aborts' = aborts + 1
  /\ Release(w)
  /\ UNCHANGED <<tables, events, history>>

-----------------------------------------------------------------------------
Init ==
  /\ items \in Enqueued /\ budget = InitialBudget
  /\ level = [c \in Stored |-> "unverified"]
  /\ profiles = {} /\ copies = {} /\ events = {}
  /\ pc = [w \in Workers |-> "idle"]
  /\ job = [w \in Workers |-> NoJob]
  /\ loaded = [w \in Workers |-> 0]
  /\ seen = [w \in Workers |-> "unverified"]
  /\ verdict = [w \in Workers |-> "unverified"]
  /\ outcome = [w \in Workers |-> "ok"]
  /\ aborts = 0
  /\ resolved = {} /\ lookups = [it \in Items |-> 0] /\ overlapped = {}

WorkerStep(w) ==
  \/ Refuse(w) \/ ParkExhausted(w) \/ SpendAttempt(w) \/ ReadContact(w) \/ StopShort(w)
  \/ FindEmail(w) \/ RejectSyntax(w) \/ LookUpDomain(w) \/ PersistRoute(w) \/ Finish(w)

Next ==
  \/ \E w \in Workers :
       WorkerStep(w) \/ TimeOut(w) \/ Abort(w) \/ \E it \in items : Begin(w, it)
  \/ \E it \in Posted : PostItem(it)
  \/ \E c \in Stored : FindProfile(c)

Spec == Init /\ [][Next]_vars

-----------------------------------------------------------------------------
TypeOK ==
  /\ items \subseteq Items
  /\ budget \in [Items -> Nat]
  /\ level \in [Stored -> Levels]
  /\ profiles \subseteq Stored
  /\ copies \subseteq [contact : Stored, budget : Nat]
  /\ events \subseteq Items \X Outcomes
  /\ pc \in [Workers -> PcLabels]
  /\ job \in [Workers -> Items \cup {NoJob}]
  /\ loaded \in [Workers -> Nat]
  /\ seen \in [Workers -> Levels]
  /\ verdict \in [Workers -> Levels]
  /\ outcome \in [Workers -> Outcomes]
  /\ aborts \in 0..MaxAborts
  /\ resolved \subseteq Stored
  /\ lookups \in [Items -> Nat]
  /\ overlapped \subseteq Contacts \cup {NoContact}

(***************************************************************************)
(* Copy generation is asked for a contact once, and only for one whose     *)
(* domain some job found to resolve, whose address the send policy lets    *)
(* through and whose role is clear or backed by a LinkedIn profile; the    *)
(* row it gets can still spend an attempt, though its parent may have      *)
(* spent its last one.                                                     *)
(***************************************************************************)
CopiesAreDeliverable ==
  /\ \A r \in copies :
       /\ r.contact \in resolved
       /\ HasEmail(r.contact) /\ ~Traits[r.contact].blocked /\ ~Unclear(r.contact)
       /\ r.budget > 0
  /\ \A r, s \in copies : r.contact = s.contact => r = s

(***************************************************************************)
(* What a row's terminal event says is so, whatever other jobs of the same *)
(* contact did before the event was written: a completed row has its       *)
(* copy_generate row, a blocked one a blocked address on a live domain, a  *)
(* human is asked about unclear roles of sendable addresses alone, and the *)
(* contract fails only for contacts without a row.                         *)
(***************************************************************************)
OutcomesAreGrounded == \A e \in events :
  LET c == e[1].contact
  IN /\ e[2] = "ok" => Copied(c)
     /\ e[2] = "policy_blocked" => c \in resolved /\ Traits[c].blocked
     /\ e[2] = "needs_human" => c \in resolved /\ ~Traits[c].blocked /\ Traits[c].ambiguous
     /\ e[2] = "contract_error" => c \notin Stored

(***************************************************************************)
(* The budget is committed before the DNS is asked: as long as no two jobs *)
(* are at work on one contact, crashes, timeouts and repeated deliveries   *)
(* never buy a row more lookups than its budget.                           *)
(***************************************************************************)
UnsharedRowsPay == \A it \in Items :
  it.contact \notin overlapped => lookups[it] + budget[it] <= InitialBudget[it]

(***************************************************************************)
(* As long as no two jobs are at work on one contact, a domain that stops  *)
(* resolving does not take back a level the contact has reached.           *)
(***************************************************************************)
UnsharedLevelsNeverFall ==
  [][\A c \in Stored \ overlapped : AtLeast(level'[c], level[c])]_vars

-----------------------------------------------------------------------------
(***************************************************************************)
(* The strengthening that makes these properties inductive.                *)
(***************************************************************************)
ReadLabels == {"contact_read", "probing", "validated"}
PaidLabels == {"spent", "contact_read", "probing"}
MailLabels == {"probing", "validated"}

JobsFitPlace == \A w \in Workers : LET c == job[w].contact
  IN /\ pc[w] # "idle" => job[w] \in Items
     /\ pc[w] \notin {"idle", "begun"} => c # NoContact /\ loaded[w] > 0
     /\ pc[w] \in ReadLabels \cup {"routed"} => c \in Stored
     /\ pc[w] \in MailLabels => HasEmail(c)
     /\ pc[w] \in ReadLabels => (AtLeast(seen[w], "domain_ok") => c \in resolved)
     /\ pc[w] = "validated" => (AtLeast(verdict[w], "domain_ok") => c \in resolved)

RoutesAreGrounded == \A w \in Workers : LET c == job[w].contact
  IN pc[w] = "routed" =>
       /\ outcome[w] = "ok" => Copied(c)
       /\ outcome[w] = "policy_blocked" => c \in resolved /\ Traits[c].blocked
       /\ outcome[w] = "needs_human" => c \in resolved /\ ~Traits[c].blocked /\ Traits[c].ambiguous
       /\ outcome[w] # "contract_error"

LevelsAreEarned == \A c \in Stored : AtLeast(level[c], "domain_ok") => c \in resolved

OverlapsAreNoticed == \A v, w \in Workers :
  v # w /\ pc[v] # "idle" /\ pc[w] # "idle" /\ job[v].contact = job[w].contact
    => job[w].contact \in overlapped

\* What a sole job remembers of the tables is still there.
SoleJobsAreCurrent == \A w \in Workers : job[w].contact \notin overlapped =>
  /\ pc[w] = "begun" => loaded[w] = budget[job[w]]
  /\ pc[w] \in PaidLabels => lookups[job[w]] + budget[job[w]] < InitialBudget[job[w]]
  /\ pc[w] \in ReadLabels => seen[w] = level[job[w].contact]

IInv ==
  /\ TypeOK /\ JobsFitPlace /\ RoutesAreGrounded /\ LevelsAreEarned
  /\ CopiesAreDeliverable /\ OutcomesAreGrounded
  /\ OverlapsAreNoticed /\ SoleJobsAreCurrent /\ UnsharedRowsPay

-----------------------------------------------------------------------------
(***************************************************************************)
(* What a comment of the repository says and the code does not do: the     *)
(* subject of a run that finds a counterexample.                           *)
(***************************************************************************)

\* run_contact_enrichment: "Higher validation level wins (idempotent: replay produces
\* same or higher level)".
LevelsNeverFall == [][\A c \in Stored : AtLeast(level'[c], level[c])]_vars
=============================================================================
