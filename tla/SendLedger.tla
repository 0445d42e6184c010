----------------------------- MODULE SendLedger -----------------------------
(***************************************************************************)
(* What the guarded end of the pipeline promises: a draft is sent at most  *)
(* once, under an approval that was on record before the send, and neither *)
(* an approval nor a send is ever taken back.                              *)
(***************************************************************************)
CONSTANTS Drafts, Keys

VARIABLES approvals,  \* pairs of a draft and the key of a decision approving it
          ledger      \* the sends: records of a draft and the key it was sent under

Init == approvals = {} /\ ledger = {}

Approve(d, key) ==
  /\ approvals' = approvals \cup {<<d, key>>}
  /\ UNCHANGED ledger

Send(d, key) ==
  /\ <<d, key>> \in approvals
  /\ \A sent \in ledger : sent.draft # d
  /\ ledger' = ledger \cup {[draft |-> d, decision |-> key]}
  /\ UNCHANGED approvals

Next == \E d \in Drafts, key \in Keys : Approve(d, key) \/ Send(d, key)

Spec == Init /\ [][Next]_<<approvals, ledger>>
=============================================================================
