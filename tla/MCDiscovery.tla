----------------------------- MODULE MCDiscovery ------------------------------
(***************************************************************************)
(* Instances of Discovery for TLC.                                         *)
(***************************************************************************)
EXTENDS Discovery, TLC

CONSTANTS r1, d1, d2, n1, e1, e2, e3, q1, q2, q3, w1, w2

SymmetricWorkers == Permutations(Workers)

From(trust, at) == [trust |-> trust, at |-> at, ref |-> 1]

Found(r, d, from, ids) ==
  [registry |-> r, domain |-> d, name |-> n1,
   source |-> from, evidence |-> ids, fault |-> "none"]

Site == Found(NoKey, d1, From(4, 1), {e1})
Register == Found(r1, d1, From(5, 1), {e2})
Listing == Found(NoKey, d1, From(1, 2), {e3})
Unknown == Found(NoKey, NoKey, From(1, 1), {e2})
Other == Found(NoKey, d2, From(1, 1), {e3})
Garbled == [Found(r1, NoKey, From(5, 3), {e1}) EXCEPT !.fault = "contract_error"]

Post(k, from, ids, keys) == [source |-> from, evidence |-> ids, keys |-> keys, account |-> k]

\* With evidence that need not be there and an alias; with a provenance that cannot be read.
TwoPosts == {Post(d1, From(4, 2), {e3}, {r1}), Post(d1, From(-1, 1), {}, {d1})}

\* In the service's sorting order.
SeveralAnswers ==
  q1 :> {<<Unknown, Site, Other>>, <<Site, Register>>}
  @@ q2 :> {<<Unknown, Listing>>, <<Listing, Garbled>>}
  @@ q3 :> {}

Row(k, q, full) == [key |-> k, query |-> q, capped |-> full]

Rows == {Row(1, q1, FALSE), Row(2, q2, FALSE), Row(3, NoQuery, FALSE), Row(4, q3, FALSE),
         Row(5, q1, TRUE)}

TwoQueriesOrOneRow ==
  {{Row(1, q1, FALSE), Row(2, q2, FALSE)}, {Row(3, NoQuery, FALSE)}, {Row(4, q3, FALSE)},
   {Row(5, q1, TRUE)}}

TwoForTheFirst == [it \in Items |-> IF it.key = 1 THEN 2 ELSE 1]
=============================================================================
