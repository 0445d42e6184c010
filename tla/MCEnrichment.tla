----------------------------- MODULE MCEnrichment -----------------------------
(***************************************************************************)
(* Instances of Enrichment for TLC.                                        *)
(***************************************************************************)
EXTENDS Enrichment, TLC

CONSTANTS c1, c2, c3, c4, c5, c6, k1, k2, w1, w2

SymmetricWorkers == Permutations(Workers)

Plain == [email |-> TRUE, wellFormed |-> TRUE, blocked |-> FALSE, ambiguous |-> FALSE]

\* A clear role, an unclear one, a blocked address with an unclear role, no address, an
\* address that is none.
SeveralTraits ==
  c1 :> Plain @@ c2 :> [Plain EXCEPT !.ambiguous = TRUE]
  @@ c3 :> [Plain EXCEPT !.blocked = TRUE, !.ambiguous = TRUE]
  @@ c4 :> [Plain EXCEPT !.email = FALSE]
  @@ c5 :> [Plain EXCEPT !.wellFormed = FALSE]

Row(k, c, r) == [key |-> k, contact |-> c, ref |-> r]

\* A second provider for c1.
FromClients == {Row(k2, c1, c1)}

\* c6 has no row in the contacts table; one row names no contact at all.
FromPipeline == {Row(k1, c, c) : c \in Contacts} \cup {Row(k1, NoContact, c6)}

Rows == FromPipeline \cup FromClients

\* One contact at a time, so that what contacts do apart is not multiplied.
OneContact == {{it} : it \in FromPipeline}

TwoForTheFirst == [it \in Items |-> IF it.key = k1 /\ it.contact = c1 THEN 2 ELSE 1]
=============================================================================
