---------------------------- MODULE CountedCap ----------------------------
(***************************************************************************)
(* A cap that is kept by counting and without a lock. Who counts may add   *)
(* later what the cap left at that time, once, whatever the others added   *)
(* in between: the count is a grant that nobody takes back.                *)
(***************************************************************************)
EXTENDS Naturals, FiniteSets

CONSTANTS Keys,      \* what there is a cap for
          Workers,
          Cap,
          MaxGrant   \* the most that one count grants

VARIABLES members,   \* key -> what the cap is about
          granted    \* key -> worker -> how many members it may still add

Init ==
  /\ members = [k \in Keys |-> {}]
  /\ granted = [k \in Keys |-> [w \in Workers |-> 0]]

Count(k, w) ==
  /\ \E n \in 1..MaxGrant :
       /\ Cardinality(members[k]) + n <= Cap
       /\ granted' = [granted EXCEPT ![k][w] = n]
  /\ UNCHANGED members

\* The grant is used, as far as it is needed, or given up.
Spend(k, w) ==
  /\ members[k] \subseteq members'[k] /\ IsFiniteSet(members'[k])
  /\ Cardinality(members'[k] \ members[k]) <= granted[k][w]
  /\ members' = [members EXCEPT ![k] = members'[k]]
  /\ granted' = [granted EXCEPT ![k][w] = 0]

\* Time passes: what is too old does not count any more.
Leave(k) ==
  /\ members'[k] \subseteq members[k]
  /\ members' = [members EXCEPT ![k] = members'[k]]
  /\ UNCHANGED granted

Next == \E k \in Keys, w \in Workers : Count(k, w) \/ Spend(k, w)

Spec == Init /\ [][Next]_<<members, granted>>

\* A cap on a sliding window.
WindowNext == Next \/ \E k \in Keys : Leave(k)

WindowSpec == Init /\ [][WindowNext]_<<members, granted>>

(***************************************************************************)
(* However many workers count before the others add, a cap is overshot by  *)
(* at most one grant of each worker but one, also if members leave.        *)
(***************************************************************************)
OvershootBounded ==
  \A k \in Keys : Cardinality(members[k]) <= Cap + MaxGrant * (Cardinality(Workers) - 1)

-----------------------------------------------------------------------------
(***************************************************************************)
(* Why it is: what is there and what may still come fits the bound. Only   *)
(* the last to count can meet a count that the cap still has room for.     *)
(***************************************************************************)
\* Grants, one pair for each member that a worker may still add.
Claims(k) == {p \in Workers \X (1..MaxGrant) : p[2] <= granted[k][p[1]]}

RoomForClaims ==
  \A k \in Keys : Cardinality(members[k]) + Cardinality(Claims(k))
                    <= Cap + MaxGrant * (Cardinality(Workers) - 1)
=============================================================================
