----------------------------- MODULE MCContacts -----------------------------
(***************************************************************************)
(* Instances of Contacts for TLC.                                          *)
(***************************************************************************)
EXTENDS Contacts, TLC

CONSTANTS a1, a2, a3, a4, run1, e1, e2, e3, e4, e5, l1, w1, w2

Person(a, e, l, n) ==
  [account |-> a, email |-> e, linkedin |-> l, ambiguous |-> FALSE, rank |-> n]

Unclear(a, e, n) ==
  [account |-> a, email |-> e, linkedin |-> NoValue, ambiguous |-> TRUE, rank |-> n]

\* Five people, one listed twice and the best one last; one with an unclear role;
\* nobody.
Many == [a \in Accounts |->
  CASE a = a1 -> <<Person(a1, e2, l1, 2), Person(a1, e4, NoValue, 4), Person(a1, e3, NoValue, 3),
                   Person(a1, e2, NoValue, 2), Person(a1, e5, NoValue, 5),
                   Person(a1, e1, NoValue, 1)>>
    [] a = a2 -> <<Person(a2, e1, NoValue, 1), Unclear(a2, e2, 2)>>
    [] OTHER  -> <<>>]

SearchOf(a) == [account |-> a, adapter |-> "registered", run |-> run1]

AnySearch == {SearchOf(a) : a \in Accounts}

TwoOrOne == [it \in Items |-> IF it = SearchOf(a1) THEN 2 ELSE 1]

\* Somebody of whom the file has the LinkedIn URL only, a row for an account that is
\* not stored, and one without an identity.
ProfileOnly == {<<Person(a1, NoValue, l1, 1), Person(a3, e1, NoValue, 1),
                  Person(a1, NoValue, NoValue, 1)>>}

SymmetricWorkers == Permutations(Workers)
=============================================================================
