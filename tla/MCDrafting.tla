----------------------------- MODULE MCDrafting -----------------------------
(***************************************************************************)
(* Instances of Drafting for TLC.                                          *)
(***************************************************************************)
EXTENDS Drafting, TLC

CONSTANTS c1, c2, s1, s2, s3, e1, e2, w1, w2

It(c, s, ev) == [contact |-> c, slot |-> s, evidence |-> ev]

\* The row of contact enrichment, which names no evidence.
FromEnrichment == It(c1, s1, {})

\* Three drafts for one contact.
ThreeSlots == {It(c1, s1, {e1}), It(c1, s2, {e1}), It(c1, s3, {e1})}

\* Two items for one draft id with other evidence, one for another contact, and rows
\* without evidence or without a contact.
SharedSlot == {It(c1, s1, {e1}), It(c1, s1, {e1, e2}), It(c2, s1, {e2}),
               FromEnrichment, It(NoContact, s1, {e1})}
=============================================================================
