---------------------------- MODULE MCReviewSend ----------------------------
(***************************************************************************)
(* Instances of ReviewSend for TLC.                                        *)
(***************************************************************************)
EXTENDS ReviewSend, TLC

CONSTANTS d1, d2, d3, r1, r2, w1, w2

OneDomain == {"acme.example"}
ToOneDomain == [d \in Drafts |-> "acme.example"]

AllPass == [d \in Drafts |-> "pass"]
OnePassesOneBroken == [d \in Drafts |-> IF d = d1 THEN "pass" ELSE "unlinked"]

Posted(d, s, r, p) ==
  [stage |-> "approval_request", origin |-> "post", draft |-> d, reviewer |-> r1,
   status |-> s, role |-> r, override |-> FALSE, pack |-> p, budget |-> 1]

NoRows == {}

\* A viewer's approval and one under another policy pack.
OddRequests == {Posted(d1, "approved", "viewer", "safe_v0_1"),
                Posted(d2, "approved", "operator", "other")}

\* An unknown status, the row of copy generation, which nobody decided yet, and an
\* approval without a draft.
BrokenRequests == {Posted(d1, "unknown", "operator", "safe_v0_1"),
                   Posted(d1, "none", "operator", "safe_v0_1"),
                   Posted(NoDraft, "approved", "operator", "safe_v0_1")}

PostedDispatch(d, k, b) ==
  [stage |-> "sending_dispatch", origin |-> "post", draft |-> d, budget |-> b, decision |-> k]

\* Dispatches of d1 that a client posts with the reviewer's decision on d1, whatever
\* it is, and on d2; one without budget, whose decision may not be recorded yet.
ClientDispatches == {PostedDispatch(d1, <<"submit", d1, r1>>, 1),
                     PostedDispatch(d1, <<"submit", d2, r1>>, 1)}
EarlyDispatch == {PostedDispatch(d1, <<"submit", d1, r1>>, 0)}

Approve == [status |-> "approved", role |-> "operator", override |-> FALSE]
ApproveOverriding == [status |-> "approved", role |-> "admin", override |-> TRUE]
Reject == [status |-> "rejected", role |-> "admin", override |-> FALSE]
AskRewrite == [status |-> "needs_rewrite", role |-> "operator", override |-> FALSE]

ApproveOnly == {Approve}
ApproveOrReject == {Approve, Reject}
AnyChoice == {Approve, ApproveOverriding, AskRewrite}

SymmetricReviewers == Permutations(Workers) \cup Permutations(Reviewers)
SymmetricDrafts == Permutations(Workers) \cup Permutations(Drafts)
=============================================================================
