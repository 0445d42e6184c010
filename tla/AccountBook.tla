----------------------------- MODULE AccountBook ------------------------------
(***************************************************************************)
(* What discovery promises of the accounts that are in nobody's hands but  *)
(* one job's: a book in which an entry is never lost, and in which offers  *)
(* are merged with the entries all at once.  There are no transactions,    *)
(* jobs, deaths or stale reads here.                                       *)
(***************************************************************************)
CONSTANTS Ids, NoAccount, Account,
          Overwrites(_, _)  \* which of two sources precedes

VARIABLES book,     \* id -> source and evidence of its entry
          heard,    \* the offers that were merged: source, evidence and account
          disputed  \* the ids of which nothing is promised

Init == book = [k \in Ids |-> NoAccount] /\ heard = {} /\ disputed = {}

\* b is what becomes of entry a, if it is one, by offers: all the evidence, the best source.
Joins(a, offers, b) ==
  LET evidences == {o.evidence : o \in offers} \cup (IF a = NoAccount THEN {} ELSE {a.evidence})
      sources == {o.source : o \in offers} \cup (IF a = NoAccount THEN {} ELSE {a.source})
  IN /\ b # NoAccount
     /\ b.evidence = UNION evidences
     /\ b.source \in sources /\ \A s \in sources : ~Overwrites(s, b.source)

OffersFor(k) == {o \in heard' \ heard : o.account = k}

Merge ==
  /\ heard \subseteq heard'
  /\ book' = [k \in Ids |-> book'[k]]
  /\ \A k \in Ids : IF k \in disputed \/ OffersFor(k) = {} THEN book'[k] = book[k]
                    ELSE Joins(book[k], OffersFor(k), book'[k])
  /\ UNCHANGED disputed

Post(k) ==
  /\ k \notin disputed /\ book[k] = NoAccount
  /\ book'[k] \in Account
  /\ book' = [book EXCEPT ![k] = book'[k]]
  /\ UNCHANGED <<heard, disputed>>

Dispute(k) ==
  /\ disputed' = disputed \cup {k}
  /\ book' = [book EXCEPT ![k] = NoAccount]
  /\ UNCHANGED heard

Next == Merge \/ \E k \in Ids : Post(k) \/ Dispute(k)

Spec == Init /\ [][Next]_<<book, heard, disputed>>
=============================================================================
