------------------------- MODULE CountedCap_proofs -------------------------
(***************************************************************************)
(* Proofs about CountedCap: the bound on its overshoot, for any number of  *)
(* keys and workers, any cap and any grants.                               *)
(***************************************************************************)
EXTENDS CountedCap, FiniteSetTheorems, TLAPS

\* What an instance has to show of its parameters.
CapAssumption ==
  /\ IsFiniteSet(Workers) /\ Workers # {}
  /\ Cap \in Nat /\ MaxGrant \in Nat

Bound == Cap + MaxGrant * (Cardinality(Workers) - 1)

TypeOK ==
  /\ members = [k \in Keys |-> members[k]]
  /\ granted \in [Keys -> [Workers -> 0..MaxGrant]]
  /\ \A k \in Keys : IsFiniteSet(members[k])

Inv == TypeOK /\ RoomForClaims

LEMMA BoundIsNumber ==
  ASSUME CapAssumption
  PROVE  /\ Cardinality(Workers) \in Nat \ {0}
         /\ MaxGrant * (Cardinality(Workers) - 1) \in Nat /\ Bound \in Nat
<1>1. Cardinality(Workers) \in Nat \ {0}
  BY FS_CardinalityType, FS_EmptySet DEF CapAssumption
<1>2. \A m, n \in Nat : n # 0 => m * (n - 1) \in Nat
  OBVIOUS
<1>3. MaxGrant * (Cardinality(Workers) - 1) \in Nat
  BY <1>1, <1>2 DEF CapAssumption
<1> QED
  BY <1>1, <1>3 DEF CapAssumption, Bound

LEMMA ClaimsAreFinite ==
  ASSUME CapAssumption, NEW k
  PROVE  IsFiniteSet(Claims(k)) /\ Cardinality(Claims(k)) \in Nat
<1>1. IsFiniteSet(1..MaxGrant)
  BY FS_Interval DEF CapAssumption
<1>2. IsFiniteSet(Workers \X (1..MaxGrant))
  BY <1>1, FS_Product DEF CapAssumption
<1>3. Claims(k) \subseteq Workers \X (1..MaxGrant)
  BY DEF Claims
<1> QED
  BY <1>2, <1>3, FS_Subset, FS_CardinalityType

LEMMA PairsOfOne ==
  ASSUME NEW w, NEW n \in Nat
  PROVE  IsFiniteSet({w} \X (1..n)) /\ Cardinality({w} \X (1..n)) = n
<1>1. IsFiniteSet(1..n) /\ Cardinality(1..n) = n
  BY FS_Interval
<1>2. IsFiniteSet({w}) /\ Cardinality({w}) = 1
  BY FS_Singleton
<1>3. IsFiniteSet({w} \X (1..n)) /\ Cardinality({w} \X (1..n)) = 1 * n
  BY <1>1, <1>2, FS_Product
<1> QED
  BY <1>3

LEMMA UnionIsNoLarger ==
  ASSUME NEW S, NEW T, IsFiniteSet(S), IsFiniteSet(T)
  PROVE  /\ IsFiniteSet(S \cup T) /\ Cardinality(S \cup T) \in Nat
         /\ Cardinality(S \cup T) <= Cardinality(S) + Cardinality(T)
<1>1. /\ IsFiniteSet(S \cap T) /\ Cardinality(S \cap T) \in Nat
      /\ Cardinality(S) \in Nat /\ Cardinality(T) \in Nat
  BY FS_Intersection, FS_CardinalityType
<1>2. IsFiniteSet(S \cup T)
      /\ Cardinality(S \cup T) = Cardinality(S) + Cardinality(T) - Cardinality(S \cap T)
  BY FS_Union
<1> QED
  BY <1>1, <1>2, FS_CardinalityType

-----------------------------------------------------------------------------
LEMMA InitInv ==
  ASSUME CapAssumption, Init
  PROVE  Inv
<1>1. IsFiniteSet({}) /\ Cardinality({}) = 0
  BY FS_EmptySet
<1>2. \A k \in Keys : members[k] = {} /\ Claims(k) = {}
  BY DEF Init, Claims, CapAssumption
<1>3. TypeOK
  BY <1>1 DEF Init, TypeOK, CapAssumption
<1>4. RoomForClaims
  <2> SUFFICES ASSUME NEW k \in Keys
               PROVE  Cardinality(members[k]) + Cardinality(Claims(k)) <= Bound
    BY DEF RoomForClaims, Bound
  <2>1. Cardinality(members[k]) = 0 /\ Cardinality(Claims(k)) = 0
    BY <1>1, <1>2
  <2> QED
    BY <2>1, BoundIsNumber
<1> QED
  BY <1>3, <1>4 DEF Inv

\* Who counts claims no more than the cap has room for, and each other worker no more
\* than the largest grant.
LEMMA CountInv ==
  ASSUME CapAssumption, Inv, NEW k \in Keys, NEW w \in Workers, Count(k, w)
  PROVE  Inv'
<1>1. PICK n \in 1..MaxGrant :
        Cardinality(members[k]) + n <= Cap /\ granted' = [granted EXCEPT ![k][w] = n]
  BY DEF Count
<1>2. members' = members /\ n \in Nat /\ MaxGrant \in Nat /\ Cap \in Nat
  BY DEF Count, CapAssumption
<1>3. TypeOK'
  BY <1>1, <1>2 DEF Inv, TypeOK
<1>4. ASSUME NEW j \in Keys, j # k
      PROVE  Claims(j)' = Claims(j)
  BY <1>1, <1>4 DEF Claims, Inv, TypeOK
<1>5. Cardinality(members[k]) + Cardinality(Claims(k)') <= Bound
  <2> DEFINE others == Workers \ {w}
             theirs == others \X (1..MaxGrant)
             mine == {w} \X (1..n)
  <2>1. /\ IsFiniteSet(others) /\ Cardinality(others) = Cardinality(Workers) - 1
        /\ IsFiniteSet(1..MaxGrant) /\ Cardinality(1..MaxGrant) = MaxGrant
    <3>1. IsFiniteSet(others) /\ Cardinality(others) = Cardinality(Workers) - 1
      BY FS_RemoveElement DEF CapAssumption
    <3>2. IsFiniteSet(1..MaxGrant) /\ Cardinality(1..MaxGrant) = MaxGrant
      BY <1>2, FS_Interval
    <3> QED
      BY <3>1, <3>2
  <2>2. IsFiniteSet(theirs) /\ Cardinality(theirs) = (Cardinality(Workers) - 1) * MaxGrant
    BY <2>1, FS_Product
  <2>3. IsFiniteSet(mine) /\ Cardinality(mine) = n
    BY <1>2, PairsOfOne
  <2>4. Claims(k)' \subseteq theirs \cup mine
    <3> SUFFICES ASSUME NEW u \in Workers, NEW m \in 1..MaxGrant, m <= granted'[k][u]
                 PROVE  <<u, m>> \in theirs \cup mine
      BY DEF Claims
    <3>1. CASE u = w
      <4>1. granted'[k][w] = n
        BY <1>1 DEF Inv, TypeOK
      <4>2. m \in 1..n
        BY <1>2, <3>1, <4>1
      <4> QED
        BY <3>1, <4>2
    <3> QED
      BY <3>1
  <2> HIDE DEF theirs, mine, others
  <2>5. /\ IsFiniteSet(theirs \cup mine) /\ Cardinality(theirs \cup mine) \in Nat
        /\ Cardinality(theirs \cup mine) <= Cardinality(theirs) + n
    BY <2>2, <2>3, UnionIsNoLarger
  <2>6. /\ Cardinality(Claims(k)') \in Nat
        /\ Cardinality(Claims(k)') <= Cardinality(theirs \cup mine)
    BY <2>4, <2>5, FS_Subset, FS_CardinalityType
  <2>7. /\ Cardinality(members[k]) \in Nat /\ MaxGrant * (Cardinality(Workers) - 1) \in Nat
        /\ Cardinality(theirs) = MaxGrant * (Cardinality(Workers) - 1)
    BY <1>2, <2>2, BoundIsNumber, FS_CardinalityType DEF Inv, TypeOK
  <2> QED
    BY <1>1, <1>2, <2>5, <2>6, <2>7 DEF Bound
<1>6. RoomForClaims'
  <2> SUFFICES ASSUME NEW j \in Keys
               PROVE  Cardinality(members'[j]) + Cardinality(Claims(j)') <= Bound
    BY DEF RoomForClaims, Bound
  <2> QED
    BY <1>2, <1>4, <1>5 DEF Inv, RoomForClaims, Bound
<1> QED
  BY <1>3, <1>6 DEF Inv

\* Who adds what it has claimed leaves the sum as it is, or smaller.
LEMMA SpendInv ==
  ASSUME CapAssumption, Inv, NEW k \in Keys, NEW w \in Workers, Spend(k, w)
  PROVE  Inv'
<1> DEFINE n == granted[k][w]
           new == members'[k] \ members[k]
<1>1. /\ members[k] \subseteq members'[k] /\ IsFiniteSet(members'[k]) /\ Cardinality(new) <= n
      /\ members' = [members EXCEPT ![k] = members'[k]]
      /\ granted' = [granted EXCEPT ![k][w] = 0]
  BY DEF Spend
<1>2. n \in Nat /\ n <= MaxGrant /\ MaxGrant \in Nat
  BY DEF Inv, TypeOK, CapAssumption
<1>3. TypeOK'
  <2>1. members' = [j \in Keys |-> members'[j]]
    BY <1>1 DEF Inv, TypeOK
  <2>2. \A j \in Keys : IsFiniteSet(members'[j])
    BY <1>1 DEF Inv, TypeOK
  <2>3. granted' \in [Keys -> [Workers -> 0..MaxGrant]]
    BY <1>1, <1>2 DEF Inv, TypeOK
  <2> QED
    BY <2>1, <2>2, <2>3 DEF TypeOK
<1>4. ASSUME NEW j \in Keys, j # k
      PROVE  members'[j] = members[j] /\ Claims(j)' = Claims(j)
  BY <1>1, <1>4 DEF Claims, Inv, TypeOK
<1>5. Cardinality(members'[k]) + Cardinality(Claims(k)') <= Bound
  <2> DEFINE mine == {w} \X (1..n)
             rest == Claims(k)'
  <2>1. /\ IsFiniteSet(mine) /\ Cardinality(mine) = n
    BY <1>2, PairsOfOne
  <2>2. rest \cup mine \subseteq Claims(k) /\ rest \cap mine = {}
    <3>1. granted'[k] = [granted[k] EXCEPT ![w] = 0] /\ granted[k] \in [Workers -> 0..MaxGrant]
      BY <1>1 DEF Inv, TypeOK
    <3>2. mine \subseteq Claims(k)
      BY <1>2 DEF Claims
    <3>3. \A p \in rest : p \in Claims(k) /\ p[1] # w
      <4> SUFFICES ASSUME NEW p \in rest
                   PROVE  p \in Claims(k) /\ p[1] # w
        OBVIOUS
      <4>1. p \in Workers \X (1..MaxGrant) /\ p[2] <= granted'[k][p[1]]
        BY DEF Claims
      <4>2. p[1] # w
        <5> SUFFICES ASSUME p[1] = w
                     PROVE  FALSE
          OBVIOUS
        <5>1. p[2] \in 1..MaxGrant /\ p[2] <= 0
          BY <3>1, <4>1
        <5> QED
          BY <1>2, <5>1
      <4> QED
        BY <3>1, <4>1, <4>2 DEF Claims
    <3> QED
      BY <3>2, <3>3
  <2>3. IsFiniteSet(Claims(k)) /\ Cardinality(Claims(k)) \in Nat
    BY ClaimsAreFinite
  <2> HIDE DEF mine, rest
  <2>4. IsFiniteSet(rest) /\ Cardinality(rest) \in Nat /\ Cardinality(rest) + n <= Cardinality(Claims(k))
    <3>1. IsFiniteSet(rest) /\ Cardinality(rest) \in Nat
      BY <2>2, <2>3, FS_Subset, FS_CardinalityType
    <3>2. Cardinality(rest \cup mine) = Cardinality(rest) + n
      <4>1. Cardinality(rest \cup mine)
              = Cardinality(rest) + Cardinality(mine) - Cardinality(rest \cap mine)
        BY <2>1, <3>1, FS_Union
      <4>2. Cardinality(rest \cap mine) = 0
        BY <2>2, FS_EmptySet
      <4> QED
        BY <1>2, <2>1, <3>1, <4>1, <4>2
    <3>3. Cardinality(rest \cup mine) <= Cardinality(Claims(k))
      BY <2>2, <2>3, FS_Subset
    <3> QED
      BY <3>1, <3>2, <3>3
  <2>5. /\ Cardinality(members[k]) \in Nat /\ Cardinality(members'[k]) \in Nat
        /\ Cardinality(members'[k]) <= Cardinality(members[k]) + n
    <3>1. IsFiniteSet(members[k]) /\ Cardinality(members[k]) \in Nat
      BY FS_CardinalityType DEF Inv, TypeOK
    <3>2. IsFiniteSet(new) /\ Cardinality(new) \in Nat /\ members'[k] = members[k] \cup new
      <4>1. new \subseteq members'[k]
        OBVIOUS
      <4> QED
        BY <1>1, <4>1, FS_Subset, FS_CardinalityType
    <3> HIDE DEF new
    <3>3. /\ Cardinality(members[k] \cup new) \in Nat
          /\ Cardinality(members[k] \cup new) <= Cardinality(members[k]) + Cardinality(new)
      BY <3>1, <3>2, UnionIsNoLarger
    <3> QED
      BY <1>1, <1>2, <3>1, <3>2, <3>3
  <2>6. Cardinality(members[k]) + Cardinality(Claims(k)) <= Bound
    BY DEF Inv, RoomForClaims, Bound
  <2>7. Cardinality(members'[k]) + Cardinality(rest) <= Bound
    BY <1>2, <2>3, <2>4, <2>5, <2>6, BoundIsNumber
  <2> QED
    BY <2>7 DEF rest
<1>6. RoomForClaims'
  <2> SUFFICES ASSUME NEW j \in Keys
               PROVE  Cardinality(members'[j]) + Cardinality(Claims(j)') <= Bound
    BY DEF RoomForClaims, Bound
  <2> QED
    BY <1>4, <1>5 DEF Inv, RoomForClaims, Bound
<1> QED
  BY <1>3, <1>6 DEF Inv

LEMMA LeaveInv ==
  ASSUME CapAssumption, Inv, NEW k \in Keys, Leave(k)
  PROVE  Inv'
<1>1. /\ members'[k] \subseteq members[k] /\ members' = [members EXCEPT ![k] = members'[k]]
      /\ granted' = granted
  BY DEF Leave
<1>2. /\ IsFiniteSet(members[k]) /\ IsFiniteSet(members'[k])
      /\ Cardinality(members[k]) \in Nat /\ Cardinality(members'[k]) \in Nat
      /\ Cardinality(members'[k]) <= Cardinality(members[k])
  BY <1>1, FS_Subset, FS_CardinalityType DEF Inv, TypeOK
<1>3. TypeOK'
  <2>1. members' = [j \in Keys |-> members'[j]]
    BY <1>1 DEF Inv, TypeOK
  <2>2. \A j \in Keys : IsFiniteSet(members'[j])
    BY <1>1, <1>2 DEF Inv, TypeOK
  <2> QED
    BY <1>1, <2>1, <2>2 DEF Inv, TypeOK
<1>4. RoomForClaims'
  <2> SUFFICES ASSUME NEW j \in Keys
               PROVE  Cardinality(members'[j]) + Cardinality(Claims(j)') <= Bound
    BY DEF RoomForClaims, Bound
  <2>1. Claims(j)' = Claims(j) /\ Cardinality(Claims(j)) \in Nat
    BY <1>1, ClaimsAreFinite DEF Claims
  <2>2. Cardinality(members[j]) + Cardinality(Claims(j)) <= Bound
    BY DEF Inv, RoomForClaims, Bound
  <2>3. j # k => members'[j] = members[j]
    BY <1>1 DEF Inv, TypeOK
  <2> QED
    BY <1>2, <2>1, <2>2, <2>3, BoundIsNumber
<1> QED
  BY <1>3, <1>4 DEF Inv

LEMMA NextInv ==
  ASSUME CapAssumption
  PROVE  Inv /\ [WindowNext]_<<members, granted>> => Inv'
<1> SUFFICES ASSUME Inv, [WindowNext]_<<members, granted>>
             PROVE  Inv'
  OBVIOUS
<1>1. CASE WindowNext
  BY <1>1, CountInv, SpendInv, LeaveInv DEF WindowNext, Next
<1>2. CASE UNCHANGED <<members, granted>>
  BY <1>2 DEF Inv, TypeOK, RoomForClaims, Claims
<1> QED
  BY <1>1, <1>2

(***************************************************************************)
(* A cap that is counted without a lock is overshot by at most one grant   *)
(* of each worker but one, whatever is counted and however it interleaves, *)
(* and whatever leaves the window meanwhile.                               *)
(***************************************************************************)
THEOREM WindowsBoundOvershoot ==
  ASSUME CapAssumption
  PROVE  WindowSpec => []OvershootBounded
<1>1. Init => Inv
  BY InitInv
<1>2. Inv => OvershootBounded
  <2> SUFFICES ASSUME Inv, NEW k \in Keys
               PROVE  Cardinality(members[k]) <= Bound
    BY DEF OvershootBounded, Bound
  <2>1. Cardinality(members[k]) \in Nat /\ Cardinality(Claims(k)) \in Nat
    BY ClaimsAreFinite, FS_CardinalityType DEF Inv, TypeOK
  <2>2. Cardinality(members[k]) + Cardinality(Claims(k)) <= Bound
    BY DEF Inv, RoomForClaims, Bound
  <2> QED
    BY <2>1, <2>2, BoundIsNumber
<1> QED
  BY <1>1, <1>2, NextInv, PTL DEF WindowSpec

(***************************************************************************)
(* The same of a cap whose members stay.                                   *)
(***************************************************************************)
THEOREM CountingBoundsOvershoot ==
  ASSUME CapAssumption
  PROVE  Spec => []OvershootBounded
<1>1. Spec => WindowSpec
  <2>1. [Next]_<<members, granted>> => [WindowNext]_<<members, granted>>
    BY DEF WindowNext
  <2> QED
    BY <2>1, PTL DEF Spec, WindowSpec
<1> QED
  BY <1>1, WindowsBoundOvershoot, PTL
=============================================================================
