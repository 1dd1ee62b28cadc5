------------------------- MODULE AttestedCoverageProofs -------------------------
(***************************************************************************)
(* The contracts under their quorums, for any signers, thresholds, windows *)
(* and purchases.                                                          *)
(*                                                                         *)
(* A quorum first: an accepted list names a threshold of distinct signers, *)
(* so fewer leaked keys than that make none, and the attesters' own lists  *)
(* are accepted.  Then the refinement: the contracts do nothing they may   *)
(* not do when anything is attested, so EscrowInv holds.  AttestedInv adds *)
(* to it that what was read for a request and what was signed is true; a   *)
(* step never takes back what either rests on (Onward).  From there each   *)
(* call leaves a covenant that says what is so, which is all that the      *)
(* properties ask.                                                         *)
(***************************************************************************)
EXTENDS AttestedCoverage, PolicyFeeEscrowProofs, SequenceTheorems, WellFoundedInduction

-------------------------------------------------------------------------------
(* A quorum *)

(* A set of numbers that is not empty has a smallest. *)
LEMMA SmallestOf ==
  ASSUME NEW T, T \subseteq Nat, T # {}
  PROVE  \E n \in T : \A m \in T : n <= m
<1> DEFINE R == OpToRel(<, Nat)
<1>1. IsWellFoundedOn(R, Nat)
  BY NatLessThanWellFounded
<1>2. \A x, y \in Nat : x < y => <<x, y>> \in R
  BY DEF OpToRel
<1> HIDE DEF R
<1>3. PICK n \in T : \A m \in T : ~ (<<m, n>> \in R)
  BY <1>1, WFMin
<1>4. \A m \in T : ~ (m < n)
  BY <1>2, <1>3
<1> QED
  BY <1>4

(* What holds of zero, and of n + 1 if of n, holds of every number. *)
LEMMA SetInduction ==
  ASSUME NEW S, 0 \in S, \A n \in Nat : n \in S => n + 1 \in S
  PROVE  Nat \subseteq S
<1> DEFINE T == Nat \ S
<1> SUFFICES ASSUME T # {}
             PROVE  FALSE
  OBVIOUS
<1>1. PICK n \in T : \A m \in T : n <= m
  <2>1. T \subseteq Nat
    OBVIOUS
  <2> HIDE DEF T
  <2> QED
    BY <2>1, SmallestOf
<1>2. n # 0 /\ n - 1 \in Nat
  BY <1>1
<1>3. n - 1 \in S
  BY <1>1, <1>2
<1> QED
  BY <1>1, <1>2, <1>3

(* A list in the verifier's order repeats nobody: were two positions out of order, *)
(* the first such second position would be, with the one before it, in order.      *)
LEMMA OrderedRises ==
  ASSUME NEW n \in Nat, NEW recovered \in [1 .. n -> Nat],
         \A i \in 1 .. n : ~notOrdered(recovered, i)
  PROVE  \A i, j \in 1 .. n : i < j => recovered[i] < recovered[j]
<1> DEFINE Bad == {j \in 1 .. n : \E i \in 1 .. j - 1 : ~(recovered[i] < recovered[j])}
<1>1. \A i \in 2 .. n : recovered[i - 1] < recovered[i]
  <2> SUFFICES ASSUME NEW i \in 2 .. n
               PROVE  recovered[i - 1] < recovered[i]
    OBVIOUS
  <2>1. i \in 1 .. n /\ i - 1 \in 1 .. n /\ i # 1
    OBVIOUS
  <2>2. ~(recovered[i] <= recovered[i - 1])
    BY <2>1 DEF notOrdered, previous
  <2>3. recovered[i] \in Nat /\ recovered[i - 1] \in Nat
    BY <2>1
  <2> QED
    BY <2>2, <2>3
<1>2. Bad = {}
  <2> SUFFICES ASSUME Bad # {}
               PROVE  FALSE
    OBVIOUS
  <2>1. Bad \subseteq Nat
    OBVIOUS
  <2>2. PICK j \in Bad : \A m \in Bad : j <= m
    <3> HIDE DEF Bad
    <3> QED
      BY <2>1, SmallestOf
  <2>3. j \in 1 .. n
    OBVIOUS
  <2>4. PICK i \in 1 .. j - 1 : ~(recovered[i] < recovered[j])
    OBVIOUS
  <2>5. j \in 2 .. n /\ j - 1 \in 1 .. n /\ i \in 1 .. n
    BY <2>3, <2>4
  <2>6. recovered[j - 1] < recovered[j]
    BY <1>1, <2>5
  <2>7. recovered[i] \in Nat /\ recovered[j] \in Nat /\ recovered[j - 1] \in Nat
    BY <2>3, <2>5
  <2>8. i # j - 1
    BY <2>4, <2>6
  <2>9. ~(recovered[i] < recovered[j - 1])
    BY <2>4, <2>6, <2>7
  <2>10. i \in 1 .. (j - 1) - 1
    BY <2>3, <2>4, <2>8
  <2>11. j - 1 \in Bad
    BY <2>5, <2>9, <2>10
  <2> QED
    BY <2>2, <2>3, <2>11
<1> QED
  BY <1>2

\* The elements of a set of n numbers, in order.
Sorted(T, n) ==
    {list \in [1 .. n -> T] :
        /\ \A i, j \in 1 .. n : i < j => list[i] < list[j]
        /\ \A t \in T : \E i \in 1 .. n : list[i] = t}

(* A finite set of numbers can be put in order. *)
LEMMA CanBeSorted ==
  ASSUME NEW T, T \subseteq Nat, IsFiniteSet(T)
  PROVE  Sorted(T, Cardinality(T)) # {}
<1> DEFINE Sortable == {n \in Nat : \A U \in SUBSET Nat :
                          IsFiniteSet(U) /\ Cardinality(U) = n => Sorted(U, n) # {}}
<1>1. 0 \in Sortable
  <2> SUFFICES ASSUME NEW U \in SUBSET Nat, IsFiniteSet(U), Cardinality(U) = 0
               PROVE  Sorted(U, 0) # {}
    OBVIOUS
  <2>1. U = {}
    BY FS_EmptySet
  <2> DEFINE list == [i \in 1 .. 0 |-> 0]
  <2>2. list \in [1 .. 0 -> U]
    OBVIOUS
  <2>3. list \in Sorted(U, 0)
    BY <2>1, <2>2 DEF Sorted
  <2> QED
    BY <2>3
<1>2. ASSUME NEW n \in Nat, n \in Sortable
      PROVE  n + 1 \in Sortable
  <2> SUFFICES ASSUME NEW U \in SUBSET Nat, IsFiniteSet(U), Cardinality(U) = n + 1
               PROVE  Sorted(U, n + 1) # {}
    OBVIOUS
  <2>1. U # {}
    BY FS_EmptySet
  <2>2. PICK least \in U : \A m \in U : least <= m
    BY <2>1, SmallestOf
  <2> DEFINE V == U \ {least}
  <2>3. IsFiniteSet(V) /\ Cardinality(V) = n
    <3>1. IsFiniteSet(V) /\ Cardinality(V) = Cardinality(U) - 1
      BY FS_RemoveElement
    <3> HIDE DEF V
    <3> QED
      BY <3>1
  <2>4. V \in SUBSET Nat /\ \A v \in V : v \in Nat /\ least < v
    BY <2>2
  <2>5. PICK rest : rest \in Sorted(V, n)
    <3> HIDE DEF V
    <3> QED
      BY <1>2, <2>3, <2>4
  <2>6. /\ rest \in [1 .. n -> V]
        /\ \A i, j \in 1 .. n : i < j => rest[i] < rest[j]
        /\ \A v \in V : \E i \in 1 .. n : rest[i] = v
    BY <2>5 DEF Sorted
  <2> DEFINE list == [i \in 1 .. n + 1 |-> IF i = 1 THEN least ELSE rest[i - 1]]
  <2>7. \A i \in 1 .. n + 1 : i # 1 => i - 1 \in 1 .. n /\ list[i] = rest[i - 1] /\ rest[i - 1] \in V
    BY <2>6
  <2>8. list[1] = least
    OBVIOUS
  <2>9. list \in [1 .. n + 1 -> U]
    BY <2>6
  <2> HIDE DEF list
  <2>10. \A i, j \in 1 .. n + 1 : i < j => list[i] < list[j]
    <3> SUFFICES ASSUME NEW i \in 1 .. n + 1, NEW j \in 1 .. n + 1, i < j
                 PROVE  list[i] < list[j]
      OBVIOUS
    <3>1. j # 1
      OBVIOUS
    <3>2. CASE i = 1
      BY <2>4, <2>7, <2>8, <3>1, <3>2
    <3>3. CASE i # 1
      <4>1. i - 1 \in 1 .. n /\ j - 1 \in 1 .. n /\ i - 1 < j - 1
        BY <3>1, <3>3
      <4> QED
        BY <2>6, <2>7, <3>1, <3>3, <4>1
    <3> QED
      BY <3>2, <3>3
  <2>11. \A u \in U : \E i \in 1 .. n + 1 : list[i] = u
    <3> SUFFICES ASSUME NEW u \in U
                 PROVE  \E i \in 1 .. n + 1 : list[i] = u
      OBVIOUS
    <3>1. CASE u = least
      BY <2>8, <3>1
    <3>2. CASE u # least
      <4>1. PICK k \in 1 .. n : rest[k] = u
        BY <2>6, <3>2
      <4>2. k + 1 \in 1 .. n + 1 /\ k + 1 # 1 /\ (k + 1) - 1 = k
        OBVIOUS
      <4>3. list[k + 1] = u
        BY <2>7, <4>1, <4>2
      <4> QED
        BY <4>2, <4>3
    <3> QED
      BY <3>1, <3>2
  <2> QED
    BY <2>9, <2>10, <2>11 DEF Sorted
<1> HIDE DEF Sortable
<1>3. Nat \subseteq Sortable
  BY <1>1, <1>2, SetInduction
<1>4. Cardinality(T) \in Nat
  BY FS_CardinalityType
<1> QED
  BY <1>3, <1>4 DEF Sortable

(* Signatures the verifier accepts come from as many signers as its threshold asks, *)
(* however the list is put together: nobody counts twice.                           *)
THEOREM QuorumIsDistinct ==
  ASSUME NEW signers, NEW threshold, ValidConfiguration(signers, threshold),
         NEW held, NEW n \in Nat, NEW recovered \in [1 .. n -> held],
         verify(signers, threshold, recovered)
  PROVE  threshold <= Cardinality(held \cap signers)
<1> DEFINE Both == held \cap signers
<1>1. IsFiniteSet(signers) /\ threshold \in Nat
  <2>1. IsFiniteSet(signers) /\ threshold \in MIN_THRESHOLD .. Cardinality(signers)
    BY DEF ValidConfiguration
  <2> QED
    BY <2>1, FS_CardinalityType DEF MIN_THRESHOLD
<1>2. IsFiniteSet(Both)
  BY <1>1, FS_Intersection
<1>3. Len(recovered) = n
  <2>1. recovered \in Seq(held)
    BY SeqDef
  <2>2. Len(recovered) \in Nat /\ DOMAIN recovered = 1 .. Len(recovered)
    BY <2>1, LenProperties
  <2>3. 1 .. n = 1 .. Len(recovered)
    BY <2>2
  <2> QED
    BY <2>2, <2>3
<1>4. /\ n >= threshold
      /\ \A i \in 1 .. n : ~notOrdered(recovered, i) /\ recovered[i] \in signers
  BY <1>3 DEF verify
<1>5. recovered \in [1 .. n -> Nat]
  BY <1>4 DEF ValidConfiguration
<1>6. \A i, j \in 1 .. n : i < j => recovered[i] < recovered[j]
  BY <1>4, <1>5, OrderedRises
<1>7. recovered \in Injection(1 .. n, Both)
  <2>1. \A i, j \in 1 .. n : recovered[i] = recovered[j] => i = j
    <3> SUFFICES ASSUME NEW i \in 1 .. n, NEW j \in 1 .. n, i # j
                 PROVE  recovered[i] # recovered[j]
      OBVIOUS
    <3>1. i < j \/ j < i
      OBVIOUS
    <3>2. recovered[i] \in Nat /\ recovered[j] \in Nat
      BY <1>5
    <3> QED
      BY <1>6, <3>1, <3>2
  <2>2. recovered \in [1 .. n -> Both]
    BY <1>4
  <2> HIDE DEF Both
  <2> QED
    BY <2>1, <2>2 DEF Injection, IsInjective
<1>8. Cardinality(1 .. n) <= Cardinality(Both)
  <2> HIDE DEF Both
  <2> QED
    BY <1>2, <1>7, FS_Injection
<1>9. Cardinality(1 .. n) = n
  BY FS_Interval
<1>10. Cardinality(Both) \in Nat
  BY <1>2, FS_CardinalityType
<1> QED
  BY <1>1, <1>4, <1>8, <1>9, <1>10

(* While fewer keys than a quorum's have leaked, evidence takes effect only if the *)
(* quorum's attesters signed it.                                                   *)
LEMMA AttestedIsSigned ==
  ASSUME AttestationAssumption, FewLeaked, NEW q \in Quorum, NEW e, Attested(q, e)
  PROVE  <<q, e>> \in signed
<1> SUFFICES ASSUME <<q, e>> \notin signed
             PROVE  FALSE
  OBVIOUS
<1>1. PICK n \in 0 .. MaxSignatures : \E recovered \in [1 .. n -> othersKeys] :
         verify(Signers[q], Threshold[q], recovered)
  <2>1. PICK recovered \in AcceptedLists[q] :
           {recovered[i] : i \in DOMAIN recovered} \subseteq othersKeys
    BY DEF Attested, Willing
  <2>2. PICK n \in 0 .. MaxSignatures : /\ recovered \in [1 .. n -> Key]
                                        /\ verify(Signers[q], Threshold[q], recovered)
    BY DEF AcceptedLists
  <2>3. recovered \in [1 .. n -> othersKeys]
    BY <2>1, <2>2
  <2> QED
    BY <2>2, <2>3
<1>2. ValidConfiguration(Signers[q], Threshold[q]) /\ n \in Nat
  BY <1>1 DEF AttestationAssumption
<1>3. Threshold[q] <= Cardinality(othersKeys \cap Signers[q])
  BY <1>1, <1>2, QuorumIsDistinct
<1>4. Cardinality(othersKeys \cap Signers[q]) < Threshold[q]
  BY DEF FewLeaked
<1>5. Threshold[q] \in Nat /\ Cardinality(othersKeys \cap Signers[q]) \in Nat
  <2>1. IsFiniteSet(Signers[q]) /\ Threshold[q] \in MIN_THRESHOLD .. Cardinality(Signers[q])
    BY <1>2 DEF ValidConfiguration
  <2>2. IsFiniteSet(othersKeys \cap Signers[q])
    BY <2>1, FS_Intersection
  <2> QED
    BY <2>1, <2>2, FS_CardinalityType DEF MIN_THRESHOLD
<1> QED
  BY <1>3, <1>4, <1>5

(* The service's own list is in order and long enough: what the attesters of a quorum *)
(* have signed can always be sent with signatures that the verifier accepts.          *)
THEOREM SignedIsAccepted ==
  ASSUME AttestationAssumption, NEW q \in Quorum, NEW e, <<q, e>> \in signed,
         Threshold[q] <= MaxSignatures
  PROVE  Attested(q, e)
<1> DEFINE S == Signers[q]
           n == Threshold[q]
           all == Cardinality(S)
<1>1. /\ IsFiniteSet(S) /\ S \subseteq Nat \ {0}
      /\ n \in MIN_THRESHOLD .. all
  BY DEF AttestationAssumption, ValidConfiguration
<1>2. all \in Nat /\ n \in Nat /\ n <= all
  BY <1>1, FS_CardinalityType DEF MIN_THRESHOLD
<1>3. PICK list : list \in Sorted(S, all)
  BY <1>1, CanBeSorted
<1>4. /\ list \in [1 .. all -> S]
      /\ \A i, j \in 1 .. all : i < j => list[i] < list[j]
      /\ \A s \in S : \E i \in 1 .. all : list[i] = s
  BY <1>3 DEF Sorted
<1>5. \A i \in 1 .. n : i \in 1 .. all /\ list[i] \in LowestSigners(q)
  <2> SUFFICES ASSUME NEW i \in 1 .. n
               PROVE  i \in 1 .. all /\ list[i] \in LowestSigners(q)
    OBVIOUS
  <2>1. i \in 1 .. all /\ list[i] \in S
    BY <1>2, <1>4
  <2> DEFINE Lower == {t \in S : t < list[i]}
  <2>2. \A t \in Lower : \E k \in 1 .. i - 1 : list[k] = t
    <3> SUFFICES ASSUME NEW t \in Lower
                 PROVE  \E k \in 1 .. i - 1 : list[k] = t
      OBVIOUS
    <3>1. PICK k \in 1 .. all : list[k] = t
      BY <1>4
    <3>2. list[k] < list[i] /\ list[k] \in Nat /\ list[i] \in Nat
      BY <1>1, <2>1, <3>1
    <3>3. k # i /\ ~(i < k)
      <4>1. i < k => list[i] < list[k]
        BY <1>4, <2>1
      <4> QED
        BY <3>2, <4>1
    <3> QED
      BY <3>1, <3>3
  <2>3. Cardinality(Lower) <= i - 1
    <3> DEFINE head == [k \in 1 .. i - 1 |-> list[k]]
               Heads == {list[k] : k \in 1 .. i - 1}
    <3>1. IsFiniteSet(1 .. i - 1) /\ Cardinality(1 .. i - 1) = i - 1
      <4>1. i - 1 \in Int /\ 1 \in Int /\ (IF 1 > i - 1 THEN 0 ELSE (i - 1) - 1 + 1) = i - 1
        BY <2>1
      <4>2. /\ IsFiniteSet(1 .. i - 1)
            /\ Cardinality(1 .. i - 1) = IF 1 > i - 1 THEN 0 ELSE (i - 1) - 1 + 1
        BY <4>1, FS_Interval
      <4> QED
        BY <4>1, <4>2
    <3>2. head \in Surjection(1 .. i - 1, Heads)
      BY DEF Surjection
    <3> HIDE DEF head
    <3>3. Lower \in SUBSET Heads
      BY <2>2
    <3> HIDE DEF Heads, Lower
    <3>4. IsFiniteSet(Heads) /\ Cardinality(Heads) <= i - 1
      BY <3>1, <3>2, FS_Surjection
    <3>5. IsFiniteSet(Lower) /\ Cardinality(Lower) <= Cardinality(Heads)
      BY <3>3, <3>4, FS_Subset
    <3>6. Cardinality(Lower) \in Nat /\ Cardinality(Heads) \in Nat
      BY <3>4, <3>5, FS_CardinalityType
    <3> QED
      BY <3>4, <3>5, <3>6
  <2>4. Cardinality(Lower) < n
    <3>1. Cardinality(Lower) \in Nat
      <4>1. Lower \in SUBSET S
        OBVIOUS
      <4> HIDE DEF Lower
      <4> QED
        BY <1>1, <4>1, FS_Subset, FS_CardinalityType
    <3> HIDE DEF Lower
    <3> QED
      BY <1>2, <2>3, <3>1
  <2> QED
    BY <2>1, <2>4 DEF LowestSigners
<1> DEFINE recovered == [i \in 1 .. n |-> list[i]]
<1>6. recovered \in [1 .. n -> Willing(q, e)]
  BY <1>5 DEF Willing
<1>7. Len(recovered) = n
  BY <1>2
<1>8. \A i \in 1 .. n : ~notOrdered(recovered, i) /\ recovered[i] \in S
  <2> SUFFICES ASSUME NEW i \in 1 .. n
               PROVE  ~notOrdered(recovered, i) /\ recovered[i] \in S
    OBVIOUS
  <2>1. recovered[i] = list[i] /\ list[i] \in S /\ list[i] \in Nat \ {0} /\ i \in 1 .. all
    BY <1>1, <1>4, <1>5
  <2>2. CASE i = 1
    BY <2>1, <2>2 DEF notOrdered, previous
  <2>3. CASE i # 1
    <3>1. i - 1 \in 1 .. n /\ i - 1 \in 1 .. all /\ i - 1 < i
      BY <1>2, <2>1, <2>3
    <3>2. recovered[i - 1] = list[i - 1] /\ list[i - 1] \in Nat /\ list[i - 1] < list[i]
      BY <1>1, <1>4, <2>1, <3>1
    <3>3. ~(recovered[i] <= recovered[i - 1])
      BY <2>1, <3>2
    <3> HIDE DEF recovered
    <3> QED
      BY <2>1, <2>3, <3>3 DEF notOrdered, previous
  <2> QED
    BY <2>2, <2>3
<1>9. verify(S, n, recovered)
  <2> HIDE DEF recovered
  <2> QED
    BY <1>2, <1>7, <1>8 DEF verify
<1>10. n \in 0 .. MaxSignatures
  BY <1>2 DEF AttestationAssumption
<1> HIDE DEF recovered
<1>11. recovered \in AcceptedLists[q]
  <2>1. recovered \in [1 .. n -> Key]
    BY <1>5 DEF recovered, LowestSigners, AttestationAssumption
  <2> QED
    BY <1>9, <1>10, <2>1 DEF AcceptedLists
<1>12. {recovered[i] : i \in DOMAIN recovered} \subseteq Willing(q, e)
  BY <1>6
<1> QED
  BY <1>11, <1>12 DEF Attested

-------------------------------------------------------------------------------
(* The contracts with quorums are the contracts *)

(* Every step is a step of the escrow's system, where anything may be attested. *)
LEMMA AttestedStepIsEscrowStep ==
  ASSUME [AttestedNext]_allAttestedVars
  PROVE  [EscrowNext]_allEscrowVars
<1>1. AttestedFeeActions => FeeActions
  BY DEF AttestedFeeActions, AttestedOrphan, FeeActions
<1>2. AttestedPrimaryNext => PrimaryNext
  BY DEF AttestedPrimaryNext, PrimaryNext
<1>3. AttestedRecoveryNext => RecoveryNext
  BY DEF AttestedRecoveryNext, RecoveryNext, RecoveryActs
<1>4. ContractsNext => EscrowNext
  BY <1>1, <1>2, <1>3 DEF ContractsNext, EscrowNext, EscrowActions, ManagerActions
<1> QED
  BY <1>4 DEF AttestedNext, allAttestedVars

(* Escrow, manager, registry and vault behave under their quorums as they may under *)
(* any: every theorem about EscrowSpec holds here.                                  *)
THEOREM AttestedImplementsEscrow == AttestedSpec => EscrowSpec
<1>1. [AttestedNext]_allAttestedVars => [EscrowNext]_allEscrowVars
  BY AttestedStepIsEscrowStep
<1> QED
  BY <1>1, PTL DEF AttestedSpec, EscrowSpec

-------------------------------------------------------------------------------
(* What is true of the service, and stays true *)

\* The relay commits one receipt to a payment it was paid by, for the covenant that
\* the payment is for.
ReceiptsAreOfPaid ==
    \A p \in Payment : receipts[p] # NoReceipt =>
        /\ receipts[p].covenant \in Covenant /\ paymentOf(receipts[p].covenant) = p
        /\ settledAt[p] # 0
        /\ receipts[p].timely => receipts[p].delivered

\* The buyer of a covenant pays nobody for it any more.
NeverPaid(c) ==
    /\ covenantOf(feeOf(c)) = c
    /\ ~Collected(c) /\ now >= paymentOf(c).validBefore
    /\ now >= feeOf(c).validBefore
    /\ feeOf(c) \in paidIn => fees[feeOf(c)].state = "Refunded"

\* What evidence says of the service is so.
BornOut(e) ==
    LET c == e.covenant
        receipt == receiptOf(c) IN
    /\ e.action = "ISSUE" =>
          registered(c.policyId) /\ policies[c.policyId].terms.clockMode = 1
    /\ e.action = "START_CLOCK" => receipt.covenant = c /\ e.payload[1] = receipt.startedAt
    /\ e.action = "RELEASE" =>
          receipt.covenant = c /\ receipt.timely /\ e.payload[1] = receipt.completedAt
    /\ e.action = "BREACH" => Collected(c) /\ receipt.covenant = c /\ ~receipt.timely
    /\ e.action = "SETTLEMENT" => e.payload[1] = 0
    /\ e.action = "CANCEL_UNPAID" => NeverPaid(c)
    /\ e.action = "CAPTURE" => Collected(c)
    /\ e.action = "ORPHANED_REFUND" => feeOf(c) \in paidIn

\* No step takes any of this back.
Onward ==
    /\ now \in Nat /\ now' \in Nat /\ now' >= now
    /\ \A p \in Payment :
          /\ settledAt[p] # 0 => settledAt'[p] = settledAt[p]
          /\ settledAt[p] = 0 /\ settledAt'[p] # 0 => now < p.validBefore
          /\ receipts[p] # NoReceipt => receipts'[p] = receipts[p]
    /\ \A f \in FeeAuthorization :
          /\ f \in paidIn' => f \in paidIn \/ now < f.validBefore
          /\ f \in paidIn => f \in paidIn'
          /\ fees[f].state \in {"Captured", "Refunded"} => fees'[f].state = fees[f].state
    /\ \A id \in Policy : registered(id) =>
          /\ policies'[id].provider = policies[id].provider
          /\ policies'[id].terms = policies[id].terms

(* A covenant names a payment and a fee authorization with their closing times. *)
LEMMA PurchaseShape ==
  ASSUME ManagerAssumption, EscrowAssumption, AttestationAssumption, NEW c \in Covenant
  PROVE  /\ c # NoCovenant
         /\ paymentOf(c) \in Payment /\ paymentOf(c).validBefore \in Nat
         /\ feeOf(c) \in FeeAuthorization /\ feeOf(c).validBefore \in Nat
         /\ c.policyId \in Policy
<1>1. c # NoCovenant /\ feeOf(c) \in FeeAuthorization /\ c.policyId \in Policy
  BY DEF ManagerAssumption, feeOf
<1>2. feeOf(c).validBefore \in Nat
  BY <1>1 DEF EscrowAssumption
<1>3. paymentOf(c) \in Payment
  BY CovenantShape DEF AttestationAssumption, paymentOf
<1>4. paymentOf(c).validBefore \in Nat
  BY <1>3 DEF AttestationAssumption
<1> QED
  BY <1>1, <1>2, <1>3, <1>4

(* Who is never paid stays unpaid. *)
LEMMA NeverPaidStands ==
  ASSUME ManagerAssumption, EscrowAssumption, AttestationAssumption, Onward,
         NEW c \in Covenant, NeverPaid(c)
  PROVE  NeverPaid(c)'
<1> DEFINE p == paymentOf(c)
           f == feeOf(c)
<1>1. p \in Payment /\ p.validBefore \in Nat /\ f \in FeeAuthorization /\ f.validBefore \in Nat
  BY PurchaseShape
<1>2. now \in Nat /\ now' \in Nat /\ now' >= now
  BY DEF Onward
<1>3. now >= p.validBefore /\ now >= f.validBefore /\ settledAt[p] = 0
  BY DEF NeverPaid, Collected
<1>4. settledAt'[p] = 0
  BY <1>1, <1>2, <1>3 DEF Onward
<1>5. f \in paidIn' => f \in paidIn
  BY <1>1, <1>2, <1>3 DEF Onward
<1>6. f \in paidIn => fees'[f].state = "Refunded"
  BY <1>1 DEF NeverPaid, Onward
<1>7. p' = p /\ f' = f /\ covenantOf(f)' = covenantOf(f)
  BY DEF paymentOf, feeOf, covenantOf
<1>8. now' >= p.validBefore /\ now' >= f.validBefore
  BY <1>1, <1>2, <1>3
<1> HIDE DEF p, f
<1> QED
  BY <1>4, <1>5, <1>6, <1>7, <1>8 DEF NeverPaid, Collected, p, f

(* What evidence said and was so is so after any step. *)
LEMMA BornOutStands ==
  ASSUME ManagerAssumption, EscrowAssumption, AttestationAssumption, Onward, ReceiptsAreOfPaid,
         NEW e, e.covenant \in Covenant, BornOut(e)
  PROVE  BornOut(e)'
<1> DEFINE c == e.covenant
           p == paymentOf(c)
<1>1. p \in Payment /\ c.policyId \in Policy /\ c # NoCovenant /\ p' = p
  BY PurchaseShape DEF paymentOf
<1>2. receipts[p].covenant = c => receipts'[p] = receipts[p]
  BY <1>1 DEF Onward, NoReceipt
<1>3. settledAt[p] # 0 => settledAt'[p] = settledAt[p]
  BY <1>1 DEF Onward
<1>4. registered(c.policyId) =>
         registered(c.policyId)' /\ policies'[c.policyId].terms = policies[c.policyId].terms
  BY <1>1 DEF Onward, registered
<1>5. NeverPaid(c) => NeverPaid(c)'
  BY NeverPaidStands
<1>7. feeOf(c) \in paidIn => feeOf(c) \in paidIn'
  BY PurchaseShape DEF Onward
<1> HIDE DEF c, p
<1>6. e.covenant = c /\ paymentOf(c) = p /\ paymentOf(c)' = p /\ feeOf(c)' = feeOf(c)
  BY <1>1 DEF c, p, feeOf
<1> QED
  BY <1>2, <1>3, <1>4, <1>5, <1>6, <1>7 DEF BornOut, Collected, receiptOf

(* Time does not go back in the escrow's system. *)
LEMMA EscrowTimeAdvances ==
  ASSUME RegistryAssumption, ManagerAssumption, VaultAssumption, EscrowAssumption,
         EscrowInv, [EscrowNext]_allEscrowVars
  PROVE  /\ now \in Nat /\ now' \in Nat /\ now' >= now
         /\ PoliciesStand
<1>0. VaultTypeOK /\ RegistryTypeOK /\ ManagerTypeOK /\ RegistryInv /\ now \in Nat
  BY DEF EscrowInv, ManagerInv, VaultInv, RegistryInv, VaultTypeOK
<1>1. CASE EscrowActions
  BY <1>0, <1>1 DEF EscrowActions, vaultBooks, registryVars, PoliciesStand
<1>2. CASE ~EscrowActions
  <2>1. [ManagerNext]_allManagerVars
    BY <1>2, OtherSteps DEF EscrowInv
  <2>2. [RegistryNext]_allRegistryVars
    BY <1>0, <2>1, ManagerStepIsRegistryStep
  <2>3. [VaultNext]_vaultVars
    BY <2>2 DEF RegistryNext, allRegistryVars, vaultVars
  <2> QED
    BY <1>0, <2>2, <2>3, TimeAdvances, PolicyStands
<1> QED
  BY <1>1, <1>2

\* A fee that has left is left alone, and one is paid in within its window and for good.
FeesStand ==
    \A f \in FeeAuthorization :
        /\ f \in paidIn' => f \in paidIn \/ now < f.validBefore
        /\ f \in paidIn => f \in paidIn'
        /\ fees[f].state \in {"Captured", "Refunded"} => fees'[f].state = fees[f].state

(* No fee action touches a fee that has left. *)
LEMMA FeeActionsStand ==
  ASSUME EscrowTypeOK, FeeActions
  PROVE  FeesStand
<1>0. fees \in [FeeAuthorization -> FeeRecord]
  BY DEF EscrowTypeOK
<1>1. ASSUME NEW f \in FeeAuthorization, Fund(f)
      PROVE  FeesStand
  BY <1>0, <1>1 DEF Fund, TransferWithAuthorization, FeesStand
<1>2. ASSUME NEW f \in FeeAuthorization, Refund(f)
      PROVE  FeesStand
  BY <1>0, <1>2 DEF Refund, FeesStand
<1>3. ASSUME NEW f \in FeeAuthorization, PayDirectly(f)
      PROVE  FeesStand
  BY <1>0, <1>3 DEF PayDirectly, TransferWithAuthorization, FeesStand
<1>4. ASSUME NEW f \in FeeAuthorization, NEW t \in 0 .. now, Capture(f, t)
      PROVE  FeesStand
  BY <1>0, <1>4 DEF Capture, FeesStand
<1>5. ASSUME NEW f \in FeeAuthorization, NEW t \in 0 .. now, RefundOrphaned(f, t)
      PROVE  FeesStand
  BY <1>0, <1>5 DEF RefundOrphaned, Orphaned, FeesStand
<1>6. ASSUME NEW f \in FeeAuthorization, ConsumeWithoutTransfer(f)
      PROVE  FeesStand
  BY <1>6 DEF ConsumeWithoutTransfer, FeesStand
<1> QED
  BY <1>1, <1>2, <1>3, <1>4, <1>5, <1>6 DEF FeeActions

\* A payment is executed once, in its window, and its receipt is committed once.
ServiceStands ==
    \A p \in Payment :
        /\ settledAt[p] # 0 => settledAt'[p] = settledAt[p]
        /\ settledAt[p] = 0 /\ settledAt'[p] # 0 => now < p.validBefore
        /\ receipts[p] # NoReceipt => receipts'[p] = receipts[p]

(* Every step is onward. *)
LEMMA StepsOnward ==
  ASSUME RegistryAssumption, ManagerAssumption, VaultAssumption, EscrowAssumption,
         AttestationAssumption, EscrowInv, AttestedTypeOK, [AttestedNext]_allAttestedVars
  PROVE  Onward
<1>1. [EscrowNext]_allEscrowVars
  BY AttestedStepIsEscrowStep
<1>2. now \in Nat /\ now' \in Nat /\ now' >= now /\ PoliciesStand
  BY <1>1, EscrowTimeAdvances
<1>3. FeesStand
  <2>1. CASE EscrowActions
    BY <2>1, FeeActionsStand DEF EscrowActions, EscrowInv, FeesInv
  <2>2. CASE ~EscrowActions
    <3>1. UNCHANGED escrowVars
      BY <1>1, <2>2, OtherSteps DEF EscrowInv
    <3> QED
      BY <3>1 DEF escrowVars, FeesStand
  <2> QED
    BY <2>1, <2>2
<1>4. ServiceStands
  <2>1. CASE UNCHANGED serviceVars
    BY <2>1 DEF serviceVars, ServiceStands
  <2>2. ASSUME NEW p \in Payment, ProviderCollects(p)
        PROVE  ServiceStands
    BY <2>2 DEF ProviderCollects, AttestedTypeOK, ServiceStands
  <2>3. ASSUME NEW c \in Covenant, NEW receipt, CommitReceipt(c, receipt)
        PROVE  ServiceStands
    BY <2>3 DEF CommitReceipt, receiptOf, AttestedTypeOK, ServiceStands
  <2>4. ServiceNext \/ UNCHANGED serviceVars
    BY DEF AttestedNext, allAttestedVars
  <2>5. ASSUME NEW p \in Payment, BuyerVoids(p)
        PROVE  ServiceStands
    BY <2>5 DEF BuyerVoids, ServiceStands
  <2> QED
    BY <2>1, <2>2, <2>3, <2>4, <2>5 DEF ServiceNext, RelayAnswers, RelayRecovers
<1> QED
  BY <1>2, <1>3, <1>4 DEF Onward, PoliciesStand, FeesStand, ServiceStands

-------------------------------------------------------------------------------
(* What the attesters sign *)

\* What has been read for a request is so, and what it was read with.
Checked(r) ==
    LET e == r.evidence
        c == e.covenant IN
    /\ e.action = "ISSUE" =>
          registered(c.policyId) /\ policies[c.policyId].terms.clockMode = 1
    /\ e.action = "CANCEL_UNPAID" =>
          /\ e.payload[1] \in Nat
          /\ r.fee # "Unread" =>
                e.payload[1] > r.covenant.feeAuthorizationValidBefore /\ e.payload[1] <= now
          /\ r.fee = "Refunded" => fees[feeOf(c)].state = "Refunded"

RequestsAreChecked == \A r \in requests : Checked(r)

SignedIsTrue == \A s \in signed : BornOut(s[2])

AttestersInv == AttestedTypeOK /\ ReceiptsAreOfPaid /\ RequestsAreChecked /\ SignedIsTrue

(* What was found stays so, though the request wait. *)
LEMMA CheckedStands ==
  ASSUME ManagerAssumption, EscrowAssumption, AttestationAssumption, Onward,
         NEW r \in Request, Checked(r)
  PROVE  Checked(r)'
<1> DEFINE e == r.evidence
           c == e.covenant
           f == feeOf(c)
<1>1. c \in Covenant
  BY DEF Request, EvidenceRecord
<1>2. c.policyId \in Policy /\ f \in FeeAuthorization /\ f' = f
  BY <1>1, PurchaseShape DEF feeOf
<1>3. registered(c.policyId) =>
         registered(c.policyId)' /\ policies'[c.policyId].terms = policies[c.policyId].terms
  BY <1>2 DEF Onward, registered
<1>4. fees[f].state = "Refunded" => fees'[f].state = "Refunded"
  BY <1>2 DEF Onward
<1>5. ASSUME e.payload[1] \in Nat, e.payload[1] <= now
      PROVE  e.payload[1] <= now'
  BY <1>5 DEF Onward
<1> HIDE DEF f
<1>6. feeOf(c) = f /\ feeOf(c)' = f
  BY <1>2 DEF f
<1> QED
  BY <1>3, <1>4, <1>5, <1>6 DEF Checked

(* What the attesters vouch for is so: a receipt bears it out, or all that it needs *)
(* was read while neither it nor what it rests on could change any more.            *)
LEMMA VouchedIsBornOut ==
  ASSUME ManagerAssumption, EscrowAssumption, AttestationAssumption, VaultTypeOK, EscrowTypeOK,
         ReceiptsAreOfPaid, NEW r \in Request, Checked(r), r.fee # "Unread", Vouched(r)
  PROVE  BornOut(r.evidence)
<1> DEFINE e == r.evidence
           c == e.covenant
           p == paymentOf(c)
           receipt == receipts[p]
<1>1. e \in EvidenceRecord /\ c \in Covenant /\ r.covenant \in CovenantRecord
  BY DEF Request, EvidenceRecord
<1>2. /\ c # NoCovenant /\ p \in Payment /\ p.validBefore \in Nat
      /\ feeOf(c) \in FeeAuthorization /\ feeOf(c).validBefore \in Nat
  BY <1>1, PurchaseShape
<1>3. CASE e.action = "ISSUE"
  BY <1>3 DEF Checked, BornOut
<1>4. CASE e.action = "CANCEL_UNPAID"
  <2>1. VouchedCancel(r)
    BY <1>4 DEF Vouched
  <2>2. /\ FeeBound(c, r.covenant.feeAuthorizationValidBefore)
        /\ ~Collected(c) /\ (FeeUsed(c) <=> r.fee = "Refunded")
        /\ e.payload[1] > p.validBefore
    BY <2>1 DEF VouchedCancel, PaymentUsed, providerWindowClosed
  <2>3. /\ covenantOf(feeOf(c)) = c
        /\ feeOf(c).validBefore = r.covenant.feeAuthorizationValidBefore
    BY <2>2 DEF FeeBound
  <2>4. /\ e.payload[1] \in Nat /\ e.payload[1] <= now
        /\ e.payload[1] > r.covenant.feeAuthorizationValidBefore
        /\ r.fee = "Refunded" => fees[feeOf(c)].state = "Refunded"
    BY <1>4 DEF Checked
  <2>5. now >= p.validBefore /\ now >= feeOf(c).validBefore
    BY <1>2, <2>2, <2>3, <2>4 DEF VaultTypeOK
  <2>6. NeverPaid(c)
    BY <2>2, <2>3, <2>4, <2>5 DEF NeverPaid, FeeUsed, EscrowTypeOK
  <2> QED
    BY <1>4, <2>6 DEF BornOut
<1>5. CASE e.action = "ORPHANED_REFUND"
  <2>1. feeOf(c) \in paidIn
    BY <1>5 DEF Vouched, VouchedOrphan, paidEscrow
  <2> QED
    BY <1>5, <2>1 DEF BornOut
<1>6. CASE e.action \notin {"ISSUE", "CANCEL_UNPAID", "ORPHANED_REFUND"}
  <2>1. VouchedByReceipt(r)
    BY <1>6 DEF Vouched
  <2>2. Collected(c) /\ receipt.covenant = c
    BY <2>1 DEF VouchedByReceipt, receiptOf
  <2>3. receipt # NoReceipt
    BY <1>2, <2>2 DEF NoReceipt
  <2>4. receipt.timely => receipt.delivered
    BY <1>2, <2>3 DEF ReceiptsAreOfPaid
  <2>5. /\ e.action = "START_CLOCK" => e.payload[1] = receipt.startedAt
        /\ e.action = "RELEASE" => receipt.timely /\ e.payload[1] = receipt.completedAt
        /\ e.action = "BREACH" => ~(receipt.delivered /\ receipt.timely)
        /\ e.action = "SETTLEMENT" => e.payload[1] = 0
    BY <2>1 DEF VouchedByReceipt, receiptOf
  <2>6. receiptOf(c) = receipt
    BY DEF receiptOf
  <2> HIDE DEF receipt
  <2> QED
    BY <1>6, <2>2, <2>4, <2>5, <2>6 DEF BornOut
<1> QED
  BY <1>3, <1>4, <1>5, <1>6

(* A receipt is committed for a payment that was made, and to the covenant it is for. *)
LEMMA ReceiptsKept ==
  ASSUME AttestationAssumption, ManagerAssumption, AttestedTypeOK, ReceiptsAreOfPaid, Onward,
         ServiceNext \/ UNCHANGED serviceVars
  PROVE  ReceiptsAreOfPaid'
<1>1. \A p \in Payment : settledAt[p] # 0 => settledAt'[p] # 0
  BY DEF Onward
<1>2. ASSUME UNCHANGED receipts
      PROVE  ReceiptsAreOfPaid'
  BY <1>1, <1>2 DEF ReceiptsAreOfPaid, paymentOf
<1>3. ASSUME NEW c \in Covenant, NEW receipt, CommitReceipt(c, receipt),
             receipt.covenant = c, receipt.timely => receipt.delivered
      PROVE  ReceiptsAreOfPaid'
  <2>1. settledAt[paymentOf(c)] # 0
    BY <1>3 DEF CommitReceipt, Collected
  <2>2. \A p \in Payment :
           receipts'[p] = IF p = paymentOf(c) THEN receipt ELSE receipts[p]
    BY <1>3 DEF CommitReceipt, AttestedTypeOK
  <2> QED
    BY <1>1, <1>3, <2>1, <2>2 DEF ReceiptsAreOfPaid, paymentOf
<1>4. ASSUME NEW c \in Covenant, NEW t \in 1 .. now, NEW delivered \in BOOLEAN,
             NEW timely \in BOOLEAN, RelayAnswers(c, t, delivered, timely)
      PROVE  ReceiptsAreOfPaid'
  <2> DEFINE receipt == [covenant |-> c, startedAt |-> t, completedAt |-> now,
                         delivered |-> delivered, timely |-> timely]
  <2>1. CommitReceipt(c, receipt) /\ receipt.covenant = c /\ (timely => delivered)
    BY <1>4 DEF RelayAnswers
  <2>2. receipt.timely = timely /\ receipt.delivered = delivered
    OBVIOUS
  <2> HIDE DEF receipt
  <2> QED
    BY <1>3, <2>1, <2>2
<1>5. ASSUME NEW c \in Covenant, RelayRecovers(c)
      PROVE  ReceiptsAreOfPaid'
  <2> DEFINE receipt == [covenant |-> c, startedAt |-> settledAt[paymentOf(c)],
                         completedAt |-> 0, delivered |-> FALSE, timely |-> FALSE]
  <2>1. CommitReceipt(c, receipt) /\ receipt.covenant = c /\ ~receipt.timely
    BY <1>5 DEF RelayRecovers
  <2> HIDE DEF receipt
  <2> QED
    BY <1>3, <2>1
<1> QED
  BY <1>2, <1>4, <1>5 DEF ServiceNext, ProviderCollects, BuyerVoids, serviceVars

\* Evidence that can be asked for: a cancellation's bears a time.
Wellformed(e) ==
    e \in EvidenceRecord /\ (e.action = "CANCEL_UNPAID" => e.payload[1] \in Nat)

(* What the attesters are asked is evidence. *)
LEMMA AskedIsEvidence ==
  ASSUME VaultAssumption, ManagerAssumption, VaultTypeOK, AskNext
  PROVE  \E q \in Quorum, e \in EvidenceRecord : Wellformed(e) /\ Ask(q, e)
<1>0. Amount \subseteq Nat /\ now \in Nat /\ MaxFeeWindow \in Nat
  BY DEF VaultAssumption, VaultTypeOK, ManagerAssumption
<1>1. ASSUME NEW c \in Covenant, NEW cap \in Amount, NEW paid \in Amount,
             NEW a \in 1 .. now, NEW v \in now + 1 .. now + MaxFeeWindow
      PROVE  Wellformed(Evidence("ISSUE", c, <<cap, paid, a, v>>))
  <2>1. cap \in Nat /\ paid \in Nat /\ a \in Nat /\ v \in Nat
    BY <1>0
  <2>2. <<cap, paid, a, v>> \in Seq(Nat)
    BY <2>1
  <2> QED
    BY <2>2 DEF Evidence, EvidenceRecord, EvidenceAction, Wellformed
<1>2. ASSUME NEW action \in {"START_CLOCK", "RELEASE", "CANCEL_UNPAID", "CAPTURE", "ORPHANED_REFUND"},
             NEW c \in Covenant, NEW t \in 0 .. MaxTime
      PROVE  Wellformed(Evidence(action, c, <<t>>))
  <2>1. t \in Nat /\ <<t>> \in Seq(Nat)
    OBVIOUS
  <2> QED
    BY <2>1 DEF Evidence, EvidenceRecord, EvidenceAction, Wellformed
<1>3. ASSUME NEW c \in Covenant
      PROVE  Wellformed(Evidence("BREACH", c, <<>>))
  BY DEF Evidence, EvidenceRecord, EvidenceAction, Wellformed
<1>4. ASSUME NEW c \in Covenant, NEW x \in Amount \cup {0}, NEW t \in 0 .. MaxTime
      PROVE  Wellformed(Evidence("SETTLEMENT", c, <<x, t>>))
  <2>1. x \in Nat /\ t \in Nat
    BY <1>0
  <2>2. <<x, t>> \in Seq(Nat)
    BY <2>1
  <2> QED
    BY <2>2 DEF Evidence, EvidenceRecord, EvidenceAction, Wellformed
<1>5. ASSUME NEW q \in Quorum, NEW e, Wellformed(e), Ask(q, e)
      PROVE  \E x \in Quorum, y \in EvidenceRecord : Wellformed(y) /\ Ask(x, y)
  BY <1>5 DEF Wellformed
<1> QED
  BY <1>1, <1>2, <1>3, <1>4, <1>5 DEF AskNext

(* A request is taken up with what its first read found. *)
LEMMA AskKeeps ==
  ASSUME VaultAssumption, ManagerAssumption, VaultTypeOK, ManagerTypeOK, AttestedTypeOK,
         RequestsAreChecked, NEW q \in Quorum, NEW e, Wellformed(e), Ask(q, e)
  PROVE  \E r \in Request : Checked(r) /\ requests' = requests \cup {r}
<1> DEFINE r == [quorum |-> q, evidence |-> e, fee |-> "Unread",
                 covenant |-> IF e.action = "ISSUE" THEN EmptyCovenant
                                                    ELSE covenants[e.covenant]]
<1>1. e \in EvidenceRecord /\ (e.action = "CANCEL_UNPAID" => e.payload[1] \in Nat)
  BY DEF Wellformed
<1>2. EmptyCovenant \in CovenantRecord
  BY DEF EmptyCovenant, CovenantRecord, CovenantState
<1>3. covenants[e.covenant] \in CovenantRecord
  BY <1>1 DEF EvidenceRecord, ManagerTypeOK
<1>4. r \in Request
  BY <1>1, <1>2, <1>3 DEF Request
<1>5. requests' = requests \cup {r}
  BY DEF Ask
<1>6. e.action = "ISSUE" =>
         /\ registered(e.covenant.policyId)
         /\ policies[e.covenant.policyId].terms.clockMode = 1
  BY DEF Ask, IssuableTerms
<1>7. r.evidence = e /\ r.fee = "Unread"
  OBVIOUS
<1> HIDE DEF r
<1>8. Checked(r)
  BY <1>1, <1>6, <1>7 DEF Checked
<1> QED
  BY <1>4, <1>5, <1>8

(* The second read adds the fee's state, and for a cancellation its times. *)
LEMMA ReadFeeKeeps ==
  ASSUME EscrowTypeOK, ManagerAssumption, NEW r \in Request, Checked(r), ReadFee(r)
  PROVE  \E s \in Request : Checked(s) /\ requests' = (requests \ {r}) \cup {s}
<1> DEFINE e == r.evidence
           c == e.covenant
           was == fees[feeOf(c)].state
           read == IF e.action = "ISSUE" THEN "Coverable" ELSE was
           s == [r EXCEPT !.fee = read]
<1>1. e \in EvidenceRecord /\ c \in Covenant
  BY DEF Request, EvidenceRecord
<1>2. feeOf(c) \in FeeAuthorization
  BY <1>1 DEF ManagerAssumption, feeOf
<1>3. was \in {"None", "Funded", "Captured", "Refunded"}
  BY <1>2 DEF EscrowTypeOK, FeeRecord
<1>4. requests' = (requests \ {r}) \cup {s}
  BY DEF ReadFee
<1>5. e.action # "ISSUE" => FeeAllows(e, r.covenant)
  BY DEF ReadFee
<1>6. e.action = "CANCEL_UNPAID" =>
         e.payload[1] > r.covenant.feeAuthorizationValidBefore /\ e.payload[1] <= now
  BY <1>5 DEF FeeAllows
<1>7. e.action = "CANCEL_UNPAID" => read = was
  OBVIOUS
<1> HIDE DEF was, read
<1>8. read \in {"Unread", "Coverable", "None", "Funded", "Captured", "Refunded"}
  BY <1>3 DEF read
<1>9. s \in Request
  BY <1>8 DEF Request
<1>10. s.evidence = e /\ s.fee = read /\ s.covenant = r.covenant
  BY DEF Request
<1> HIDE DEF s
<1>11. Checked(s)
  BY <1>6, <1>7, <1>10 DEF Checked, was
<1> QED
  BY <1>4, <1>9, <1>11

(* An attester's step keeps what was read and signed true. *)
LEMMA AttesterStepKeeps ==
  ASSUME VaultAssumption, ManagerAssumption, EscrowAssumption, AttestationAssumption,
         VaultTypeOK, ManagerTypeOK, EscrowTypeOK, AttestersInv, Onward,
         AttesterNext \/ UNCHANGED attesterVars
  PROVE  /\ othersKeys' \subseteq Key /\ othersKeys \subseteq othersKeys'
         /\ requests' \subseteq Request /\ RequestsAreChecked'
         /\ signed' \subseteq Quorum \X EvidenceRecord /\ signed \subseteq signed'
         /\ SignedIsTrue'
<1> DEFINE Goal ==
         /\ othersKeys' \subseteq Key /\ othersKeys \subseteq othersKeys'
         /\ requests' \subseteq Request /\ RequestsAreChecked'
         /\ signed' \subseteq Quorum \X EvidenceRecord /\ signed \subseteq signed'
         /\ SignedIsTrue'
<1>0. AttestedTypeOK /\ ReceiptsAreOfPaid /\ RequestsAreChecked /\ SignedIsTrue
  BY DEF AttestersInv
<1>1. /\ othersKeys \subseteq Key /\ requests \subseteq Request
      /\ signed \subseteq Quorum \X EvidenceRecord
  BY <1>0 DEF AttestedTypeOK
<1>2. \A r \in requests : Checked(r)'
  BY <1>0, <1>1, CheckedStands DEF RequestsAreChecked
<1>3. \A s \in signed : BornOut(s[2])'
  <2> SUFFICES ASSUME NEW s \in signed
               PROVE  BornOut(s[2])'
    OBVIOUS
  <2>1. s[2].covenant \in Covenant /\ BornOut(s[2])
    BY <1>0, <1>1 DEF SignedIsTrue, EvidenceRecord
  <2> QED
    BY <1>0, <2>1, BornOutStands
<1>4. ASSUME UNCHANGED <<othersKeys, signed>>, requests' \subseteq Request,
             \A r \in requests' : Checked(r)'
      PROVE  Goal
  BY <1>1, <1>3, <1>4 DEF RequestsAreChecked, SignedIsTrue
<1>5. ASSUME NEW r \in Request, Checked(r),
             requests' \subseteq requests \cup {r}, UNCHANGED <<othersKeys, signed>>
      PROVE  Goal
  <2>1. Checked(r)'
    BY <1>5, CheckedStands
  <2>2. \A x \in requests' : Checked(x)'
    BY <1>2, <1>5, <2>1
  <2>3. requests' \subseteq Request
    BY <1>1, <1>5
  <2> QED
    BY <1>4, <1>5, <2>2, <2>3
<1>6. ASSUME NEW q \in Quorum, NEW e, Wellformed(e), Ask(q, e)
      PROVE  Goal
  <2>1. PICK r \in Request : Checked(r) /\ requests' = requests \cup {r}
    BY <1>0, <1>6, AskKeeps
  <2> QED
    BY <1>5, <1>6, <2>1 DEF Ask
<1>7. ASSUME NEW r \in requests, ReadFee(r)
      PROVE  Goal
  <2>1. r \in Request /\ Checked(r)
    BY <1>0, <1>1 DEF RequestsAreChecked
  <2>2. PICK s \in Request : Checked(s) /\ requests' = (requests \ {r}) \cup {s}
    BY <1>7, <2>1, ReadFeeKeeps
  <2> QED
    BY <1>5, <1>7, <2>2 DEF ReadFee
<1>8. ASSUME NEW r \in requests, Sign(r)
      PROVE  Goal
  <2>1. r \in Request /\ Checked(r)
    BY <1>0, <1>1 DEF RequestsAreChecked
  <2>2. BornOut(r.evidence)
    BY <1>0, <1>8, <2>1, VouchedIsBornOut DEF Sign
  <2>3. r.quorum \in Quorum /\ r.evidence \in EvidenceRecord /\ r.evidence.covenant \in Covenant
    BY <2>1 DEF Request, EvidenceRecord
  <2>4. BornOut(r.evidence)'
    BY <1>0, <2>2, <2>3, BornOutStands
  <2>5. /\ signed' = signed \cup {<<r.quorum, r.evidence>>}
        /\ requests' = requests \ {r} /\ othersKeys' = othersKeys
    BY <1>8 DEF Sign
  <2>6. SignedIsTrue'
    BY <1>3, <2>4, <2>5 DEF SignedIsTrue
  <2>7. RequestsAreChecked' /\ requests' \subseteq Request
    BY <1>1, <1>2, <2>5 DEF RequestsAreChecked
  <2> QED
    BY <1>1, <2>3, <2>5, <2>6, <2>7
<1>9. ASSUME NEW r \in requests, Refuse(r)
      PROVE  Goal
  <2>1. requests' \subseteq requests /\ UNCHANGED <<othersKeys, signed>>
    BY <1>9 DEF Refuse
  <2> QED
    BY <1>1, <1>2, <1>4, <2>1
<1>10. ASSUME NEW keys \in SUBSET Key, Leak(keys)
       PROVE  Goal
  <2>1. /\ othersKeys' = othersKeys \cup keys
        /\ requests' = requests /\ signed' = signed
    BY <1>10 DEF Leak
  <2> QED
    BY <1>1, <1>2, <1>3, <2>1 DEF RequestsAreChecked, SignedIsTrue
<1>11. ASSUME UNCHANGED attesterVars
       PROVE  Goal
  <2>1. requests' = requests /\ UNCHANGED <<othersKeys, signed>>
    BY <1>11 DEF attesterVars
  <2> QED
    BY <1>1, <1>2, <1>4, <2>1
<1>12. ASSUME AskNext
       PROVE  Goal
  BY <1>0, <1>6, <1>12, AskedIsEvidence
<1> QED
  BY <1>7, <1>8, <1>9, <1>10, <1>11, <1>12 DEF AttesterNext

-------------------------------------------------------------------------------
(* What the contracts say, while few keys have leaked *)

SignedFor(q, action, c) ==
    \E s \in signed : s[1] = q /\ s[2].action = action /\ s[2].covenant = c

\* What the record of a covenant says of the purchase is so.
SaysTrue(c, cov) ==
    LET receipt == receiptOf(c) IN
    /\ cov.startAt # 0 => receipt.covenant = c /\ cov.startAt = receipt.startedAt
    /\ cov.completedAt # 0 =>
          receipt.covenant = c /\ receipt.timely /\ cov.completedAt = receipt.completedAt
    /\ cov.state \in {"PayoutDue", "Paid"} =>
          Collected(c) /\ receipt.covenant = c /\ ~receipt.timely
    /\ cov.state = "Paid" => cov.payoutAtomic = cov.coverageCapAtomic
    /\ cov.state # "RecoveredWithoutPayout"
    /\ cov.state = "CancelledUnpaid" => NeverPaid(c)

\* A call on c leaves a record that says what is so, and uses evidence that was signed.
CallSaysTrue(c) ==
    /\ \E r : covenants' = [covenants EXCEPT ![c] = r] /\ SaysTrue(c, r)
    /\ \A u \in consumedEvidence' \ consumedEvidence : SignedFor(u[1], u[2], u[3])

(* Attested evidence was signed and is so. *)
LEMMA EvidenceIsTrue ==
  ASSUME AttestationAssumption, FewLeaked, SignedIsTrue, NEW q \in Quorum, NEW action, NEW c,
         NEW payload, Attested(q, Evidence(action, c, payload))
  PROVE  SignedFor(q, action, c) /\ BornOut(Evidence(action, c, payload))
<1> DEFINE e == Evidence(action, c, payload)
<1>1. <<q, e>> \in signed
  BY AttestedIsSigned
<1>2. e.action = action /\ e.covenant = c
  BY DEF Evidence
<1> HIDE DEF e
<1> QED
  BY <1>1, <1>2 DEF SignedFor, SignedIsTrue, e

(* The one evidence that a call uses. *)
LEMMA OneIsUsed ==
  ASSUME NEW q, NEW action, NEW c, SignedFor(q, action, c),
         consumedEvidence' = consumedEvidence \cup {<<q, action, c>>}
  PROVE  \A u \in consumedEvidence' \ consumedEvidence : SignedFor(u[1], u[2], u[3])
<1> SUFFICES ASSUME NEW u \in consumedEvidence' \ consumedEvidence
             PROVE  SignedFor(u[1], u[2], u[3])
  OBVIOUS
<1>1. u = <<q, action, c>>
  OBVIOUS
<1>2. u[1] = q /\ u[2] = action /\ u[3] = c
  BY <1>1
<1> QED
  BY <1>2

(* An issued covenant waits for its clock: nothing has been said of the service yet. *)
LEMMA IssueSaysTrue ==
  ASSUME AttestationAssumption, FewLeaked, SignedIsTrue, ManagerTypeOK,
         NEW c \in Covenant, NEW cap, NEW paid, NEW a, NEW v, Issue(c, cap, paid, a, v),
         Attested("primary", Evidence("ISSUE", c, <<cap, paid, a, v>>))
  PROVE  CallSaysTrue(c)
<1> DEFINE pol == policies[c.policyId]
           t == pol.terms
           r == NewCovenant(pol.provider, t, cap, paid, a, a + t.enrollmentWindowSeconds, v)
<1>1. SignedFor("primary", "ISSUE", c) /\ t.clockMode = 1
  <2>1. "primary" \in Quorum
    BY DEF Quorum
  <2>2. /\ SignedFor("primary", "ISSUE", c)
        /\ BornOut(Evidence("ISSUE", c, <<cap, paid, a, v>>))
    BY <2>1, EvidenceIsTrue
  <2> QED
    BY <2>2 DEF BornOut, Evidence
<1>2. covenants' = [covenants EXCEPT ![c] = r]
  BY DEF Issue
<1>3. consumedEvidence' = consumedEvidence \cup {<<"primary", "ISSUE", c>>}
  BY DEF Issue, ConsumeEvidence
<1>4. r.state = "PendingStart" /\ r.startAt = 0 /\ r.completedAt = 0
  BY <1>1 DEF NewCovenant, EmptyCovenant
<1> HIDE DEF r
<1>5. SaysTrue(c, r)
  BY <1>4 DEF SaysTrue
<1> QED
  BY <1>1, <1>2, <1>3, <1>5, OneIsUsed DEF CallSaysTrue

(* The clock starts when the relay forwarded the job. *)
LEMMA StartClockSaysTrue ==
  ASSUME AttestationAssumption, FewLeaked, SignedIsTrue, ManagerTypeOK,
         NEW c \in Covenant, SaysTrue(c, covenants[c]), NEW t, StartClock(c, t),
         Attested("primary", Evidence("START_CLOCK", c, <<t>>))
  PROVE  CallSaysTrue(c)
<1> DEFINE d == deadlineFrom(c, t)
           r == [covenants[c] EXCEPT !.state = "Active", !.startAt = t, !.deadline = d]
<1>1. covenants[c] \in CovenantRecord
  BY DEF ManagerTypeOK
<1>2. SignedFor("primary", "START_CLOCK", c) /\ receiptOf(c).covenant = c /\ t = receiptOf(c).startedAt
  <2>1. "primary" \in Quorum
    BY DEF Quorum
  <2>2. /\ SignedFor("primary", "START_CLOCK", c)
        /\ BornOut(Evidence("START_CLOCK", c, <<t>>))
    BY <2>1, EvidenceIsTrue
  <2> QED
    BY <2>2 DEF BornOut, Evidence
<1>3. covenants' = [covenants EXCEPT ![c] = r]
  BY DEF StartClock, ManagerTypeOK
<1>4. consumedEvidence' = consumedEvidence \cup {<<"primary", "START_CLOCK", c>>}
  BY DEF StartClock, ConsumeEvidence
<1>5. r.state = "Active" /\ r.startAt = t /\ r.completedAt = covenants[c].completedAt
  BY <1>1 DEF CovenantRecord
<1> HIDE DEF r
<1>6. SaysTrue(c, r)
  BY <1>2, <1>5 DEF SaysTrue
<1> QED
  BY <1>2, <1>3, <1>4, <1>6, OneIsUsed DEF CallSaysTrue

(* Expiry says nothing new. *)
LEMMA ExpireSaysTrue ==
  ASSUME ManagerTypeOK, NEW c \in Covenant, SaysTrue(c, covenants[c]), ExpireUnstarted(c)
  PROVE  CallSaysTrue(c)
<1> DEFINE r == [covenants[c] EXCEPT !.state = "Released"]
<1>1. covenants[c] \in CovenantRecord
  BY DEF ManagerTypeOK
<1>2. covenants' = [covenants EXCEPT ![c] = r] /\ consumedEvidence' = consumedEvidence
  BY DEF ExpireUnstarted, ManagerTypeOK
<1>3. /\ r.state = "Released" /\ r.startAt = covenants[c].startAt
      /\ r.completedAt = covenants[c].completedAt
  BY <1>1 DEF CovenantRecord
<1> HIDE DEF r
<1>4. SaysTrue(c, r)
  BY <1>3 DEF SaysTrue
<1> QED
  BY <1>2, <1>4 DEF CallSaysTrue

(* A release names the timely completion the relay saw. *)
LEMMA ReleaseSaysTrue ==
  ASSUME AttestationAssumption, FewLeaked, SignedIsTrue, ManagerTypeOK,
         NEW c \in Covenant, SaysTrue(c, covenants[c]), NEW q \in Quorum, NEW t,
         release(q, c, t), Attested(q, Evidence("RELEASE", c, <<t>>))
  PROVE  CallSaysTrue(c)
<1> DEFINE r == [covenants[c] EXCEPT !.state = "Released", !.completedAt = t]
<1>1. covenants[c] \in CovenantRecord
  BY DEF ManagerTypeOK
<1>2. /\ SignedFor(q, "RELEASE", c) /\ receiptOf(c).covenant = c
      /\ receiptOf(c).timely /\ t = receiptOf(c).completedAt
  <2>1. SignedFor(q, "RELEASE", c) /\ BornOut(Evidence("RELEASE", c, <<t>>))
    BY EvidenceIsTrue
  <2> QED
    BY <2>1 DEF BornOut, Evidence
<1>3. covenants' = [covenants EXCEPT ![c] = r]
  BY DEF release, ManagerTypeOK
<1>4. consumedEvidence' = consumedEvidence \cup {<<q, "RELEASE", c>>}
  BY DEF release, ConsumeEvidence
<1>5. r.state = "Released" /\ r.startAt = covenants[c].startAt /\ r.completedAt = t
  BY <1>1 DEF CovenantRecord
<1> HIDE DEF r
<1>6. SaysTrue(c, r)
  BY <1>2, <1>5 DEF SaysTrue
<1> QED
  BY <1>2, <1>3, <1>4, <1>6, OneIsUsed DEF CallSaysTrue

(* A breach is of a paid job that was not delivered in time. *)
LEMMA MarkSaysTrue ==
  ASSUME AttestationAssumption, FewLeaked, SignedIsTrue, ManagerTypeOK,
         NEW c \in Covenant, SaysTrue(c, covenants[c]), NEW q \in Quorum,
         markPayoutDue(q, c), Attested(q, Evidence("BREACH", c, <<>>))
  PROVE  CallSaysTrue(c)
<1> DEFINE r == [covenants[c] EXCEPT !.state = "PayoutDue", !.payoutDueAt = now]
<1>1. covenants[c] \in CovenantRecord
  BY DEF ManagerTypeOK
<1>2. SignedFor(q, "BREACH", c) /\ Collected(c) /\ receiptOf(c).covenant = c /\ ~receiptOf(c).timely
  <2>1. SignedFor(q, "BREACH", c) /\ BornOut(Evidence("BREACH", c, <<>>))
    BY EvidenceIsTrue
  <2> QED
    BY <2>1 DEF BornOut, Evidence
<1>3. covenants' = [covenants EXCEPT ![c] = r]
  BY DEF markPayoutDue, PayoutDueFrom, ManagerTypeOK
<1>4. consumedEvidence' = consumedEvidence \cup {<<q, "BREACH", c>>}
  BY DEF markPayoutDue, ConsumeEvidence
<1>5. /\ r.state = "PayoutDue" /\ r.startAt = covenants[c].startAt
      /\ r.completedAt = covenants[c].completedAt
  BY <1>1 DEF CovenantRecord
<1> HIDE DEF r
<1>6. SaysTrue(c, r)
  BY <1>2, <1>5 DEF SaysTrue
<1> QED
  BY <1>2, <1>3, <1>4, <1>6, OneIsUsed DEF CallSaysTrue

(* A settlement pays the whole cap: the attesters say nothing was recovered. *)
LEMMA SettleSaysTrue ==
  ASSUME AttestationAssumption, FewLeaked, SignedIsTrue, ManagerTypeOK, IssuedWithinTerms,
         NEW c \in Covenant, SaysTrue(c, covenants[c]), NEW q \in Quorum, NEW x, NEW t,
         settleNetLoss(q, c, x, t), Attested(q, Evidence("SETTLEMENT", c, <<x, t>>))
  PROVE  CallSaysTrue(c)
<1> DEFINE n == payoutFor(c, x)
           r == [covenants[c] EXCEPT !.payoutAtomic = n,
                   !.state = IF n = 0 THEN "RecoveredWithoutPayout" ELSE "Paid"]
<1>1. covenants[c] \in CovenantRecord
  BY DEF ManagerTypeOK
<1>2. SignedFor(q, "SETTLEMENT", c) /\ x = 0
  <2>1. SignedFor(q, "SETTLEMENT", c) /\ BornOut(Evidence("SETTLEMENT", c, <<x, t>>))
    BY EvidenceIsTrue
  <2> QED
    BY <2>1 DEF BornOut, Evidence
<1>3. state(c) = "PayoutDue"
  BY DEF settleNetLoss
<1>4. n = covenants[c].coverageCapAtomic /\ n # 0
  <2>1. /\ covenants[c].coverageCapAtomic \in Nat /\ covenants[c].buyerPaidAtomic \in Nat
        /\ 0 < covenants[c].coverageCapAtomic
        /\ covenants[c].coverageCapAtomic <= covenants[c].buyerPaidAtomic
    BY <1>1, <1>3 DEF CovenantRecord, IssuedWithinTerms
  <2>2. covenants[c].buyerPaidAtomic > x /\ covenants[c].buyerPaidAtomic - x = covenants[c].buyerPaidAtomic
    BY <1>2, <2>1
  <2>3. n = IF \/ covenants[c].payoutBasis = 1
               \/ covenants[c].buyerPaidAtomic > covenants[c].coverageCapAtomic
            THEN covenants[c].coverageCapAtomic ELSE covenants[c].buyerPaidAtomic
    BY <2>2 DEF payoutFor
  <2>4. \/ covenants[c].buyerPaidAtomic > covenants[c].coverageCapAtomic
        \/ covenants[c].buyerPaidAtomic = covenants[c].coverageCapAtomic
    BY <2>1
  <2> HIDE DEF n
  <2>5. n = covenants[c].coverageCapAtomic
    BY <2>3, <2>4
  <2> QED
    BY <2>1, <2>5
<1>5. covenants' = [covenants EXCEPT ![c] = r]
  BY DEF settleNetLoss, ManagerTypeOK
<1>6. consumedEvidence' = consumedEvidence \cup {<<q, "SETTLEMENT", c>>}
  BY DEF settleNetLoss, ConsumeEvidence
<1>7. /\ r.state = "Paid" /\ r.payoutAtomic = n
      /\ r.coverageCapAtomic = covenants[c].coverageCapAtomic
      /\ r.startAt = covenants[c].startAt /\ r.completedAt = covenants[c].completedAt
  BY <1>1, <1>4 DEF CovenantRecord
<1> HIDE DEF r, n
<1>8. SaysTrue(c, r)
  BY <1>3, <1>4, <1>7 DEF SaysTrue, state
<1> QED
  BY <1>2, <1>5, <1>6, <1>8, OneIsUsed DEF CallSaysTrue

(* A covenant is cancelled when its buyer never pays. *)
LEMMA CancelSaysTrue ==
  ASSUME AttestationAssumption, FewLeaked, SignedIsTrue, ManagerTypeOK,
         NEW c \in Covenant, SaysTrue(c, covenants[c]), NEW q \in Quorum, NEW t,
         cancelUnpaid(q, c, t), Attested(q, Evidence("CANCEL_UNPAID", c, <<t>>))
  PROVE  CallSaysTrue(c)
<1> DEFINE r == [covenants[c] EXCEPT !.state = "CancelledUnpaid"]
<1>1. covenants[c] \in CovenantRecord
  BY DEF ManagerTypeOK
<1>2. SignedFor(q, "CANCEL_UNPAID", c) /\ NeverPaid(c)
  <2>1. SignedFor(q, "CANCEL_UNPAID", c) /\ BornOut(Evidence("CANCEL_UNPAID", c, <<t>>))
    BY EvidenceIsTrue
  <2> QED
    BY <2>1 DEF BornOut, Evidence
<1>3. covenants' = [covenants EXCEPT ![c] = r]
  BY DEF cancelUnpaid, ManagerTypeOK
<1>4. consumedEvidence' = consumedEvidence \cup {<<q, "CANCEL_UNPAID", c>>}
  BY DEF cancelUnpaid, ConsumeEvidence
<1>5. /\ r.state = "CancelledUnpaid" /\ r.startAt = covenants[c].startAt
      /\ r.completedAt = covenants[c].completedAt
  BY <1>1 DEF CovenantRecord
<1> HIDE DEF r
<1>6. SaysTrue(c, r)
  BY <1>2, <1>5 DEF SaysTrue
<1> QED
  BY <1>2, <1>3, <1>4, <1>6, OneIsUsed DEF CallSaysTrue

(* Every call the contracts take on a covenant leaves it saying what is so. *)
LEMMA CallsSayTrue ==
  ASSUME AttestationAssumption, FewLeaked, SignedIsTrue, ManagerTypeOK, IssuedWithinTerms,
         \A c \in Covenant : SaysTrue(c, covenants[c]),
         \/ AttestedPrimaryNext
         \/ AttestedRecoveryNext
         \/ \E c \in Covenant : ExpireUnstarted(c)
  PROVE  \E c \in Covenant : CallSaysTrue(c)
<1>0. "primary" \in Quorum /\ "recovery" \in Quorum
  BY DEF Quorum
<1>1. ASSUME AttestedPrimaryNext
      PROVE  \E c \in Covenant : CallSaysTrue(c)
  BY <1>0, <1>1, IssueSaysTrue, StartClockSaysTrue, ReleaseSaysTrue, MarkSaysTrue,
     SettleSaysTrue, CancelSaysTrue
     DEF AttestedPrimaryNext, Release, MarkPayoutDue, SettleNetLoss, CancelUnpaid
<1>2. ASSUME AttestedRecoveryNext
      PROVE  \E c \in Covenant : CallSaysTrue(c)
  BY <1>0, <1>2, ReleaseSaysTrue, MarkSaysTrue, SettleSaysTrue, CancelSaysTrue
     DEF AttestedRecoveryNext, EmergencyRelease, EmergencyMarkPayoutDue,
         EmergencySettleNetLoss, EmergencyCancelUnpaid
<1>3. ASSUME NEW c \in Covenant, ExpireUnstarted(c)
      PROVE  CallSaysTrue(c)
  BY <1>3, ExpireSaysTrue
<1> QED
  BY <1>1, <1>2, <1>3

CapturesAreEarned ==
    \A c \in Covenant :
        covenantOf(feeOf(c)) = c /\ fees[feeOf(c)].state = "Captured" => Collected(c)

NoFalseRefund == \A f \in FeeAuthorization : ~FalselyRefunded(f)

\* The same of the fees that there are after a step.
FeesSayTrue ==
    /\ NoFalseRefund'
    /\ \A c \in Covenant :
          covenantOf(feeOf(c)) = c /\ fees'[feeOf(c)].state = "Captured" => Collected(c)
    /\ \A u \in escrowEvidence' \ escrowEvidence : SignedFor("primary", u[1], covenantOf(u[2]))

(* A fee is captured for a provider who was paid, refunded to a buyer who paid, and *)
(* leaves on what was signed.                                                       *)
LEMMA FeeActionsSayTrue ==
  ASSUME AttestationAssumption, EscrowAssumption, ManagerAssumption, FewLeaked, SignedIsTrue,
         EscrowTypeOK, FundedArePaid, CapturesAreEarned, NoFalseRefund, AttestedFeeActions
  PROVE  FeesSayTrue
<1>0. /\ "primary" \in Quorum
      /\ fees \in [FeeAuthorization -> FeeRecord]
      /\ \A c \in Covenant : feeOf(c) \in FeeAuthorization
  BY PurchaseShape DEF Quorum, EscrowTypeOK
<1>5. ASSUME NEW f \in FeeAuthorization, NEW r, fees' = [fees EXCEPT ![f] = r],
             paidIn \subseteq paidIn', r.state = "Refunded" => f \in paidIn'
      PROVE  NoFalseRefund'
  <2>1. fees'[f] = r /\ \A g \in FeeAuthorization \ {f} : fees'[g] = fees[g]
    BY <1>0, <1>5
  <2> QED
    BY <1>5, <2>1 DEF NoFalseRefund, FalselyRefunded
<1>6. ASSUME UNCHANGED fees, paidIn \subseteq paidIn'
      PROVE  NoFalseRefund'
  BY <1>6 DEF NoFalseRefund, FalselyRefunded
<1>1. ASSUME NEW f \in FeeAuthorization,
             Fund(f) \/ Refund(f) \/ PayDirectly(f) \/ ConsumeWithoutTransfer(f)
      PROVE  FeesSayTrue
  <2>1. escrowEvidence' = escrowEvidence
    BY <1>1 DEF Fund, Refund, PayDirectly, ConsumeWithoutTransfer
  <2>2. \A g \in FeeAuthorization : fees'[g].state = "Captured" => fees[g].state = "Captured"
    <3>1. CASE Fund(f)
      BY <1>0, <3>1 DEF Fund
    <3>2. CASE Refund(f)
      BY <1>0, <3>2 DEF Refund
    <3>3. CASE PayDirectly(f) \/ ConsumeWithoutTransfer(f)
      BY <3>3 DEF PayDirectly, ConsumeWithoutTransfer
    <3> QED
      BY <1>1, <3>1, <3>2, <3>3
  <2>3. NoFalseRefund'
    <3>1. CASE Fund(f)
      <4> DEFINE r == [state |-> "Funded", amountAtomic |-> FeeAmount, fundedAt |-> now,
                       refundAvailableAt |-> refundAvailableAt(f)]
      <4>1. fees' = [fees EXCEPT ![f] = r] /\ r.state = "Funded" /\ paidIn \subseteq paidIn'
        BY <3>1 DEF Fund, TransferWithAuthorization
      <4> HIDE DEF r
      <4> QED
        BY <1>5, <4>1
    <3>2. CASE Refund(f)
      <4>1. /\ fees' = [fees EXCEPT ![f] = [fees[f] EXCEPT !.state = "Refunded"]]
            /\ paidIn' = paidIn /\ f \in paidIn
        BY <1>0, <3>2 DEF Refund, FundedArePaid
      <4> QED
        BY <1>5, <4>1
    <3>3. CASE PayDirectly(f) \/ ConsumeWithoutTransfer(f)
      BY <1>6, <3>3 DEF PayDirectly, TransferWithAuthorization, ConsumeWithoutTransfer
    <3> QED
      BY <1>1, <3>1, <3>2, <3>3
  <2> QED
    BY <1>0, <2>1, <2>2, <2>3 DEF FeesSayTrue, CapturesAreEarned
<1>2. ASSUME NEW action, NEW f \in FeeAuthorization, ConsumeEscrowEvidence(action, f),
             SignedFor("primary", action, covenantOf(f))
      PROVE  \A u \in escrowEvidence' \ escrowEvidence :
                SignedFor("primary", u[1], covenantOf(u[2]))
  <2> SUFFICES ASSUME NEW u \in escrowEvidence' \ escrowEvidence
               PROVE  SignedFor("primary", u[1], covenantOf(u[2]))
    OBVIOUS
  <2>1. u = <<action, f>>
    BY <1>2 DEF ConsumeEscrowEvidence
  <2>2. u[1] = action /\ u[2] = f
    BY <2>1
  <2> QED
    BY <1>2, <2>2
<1>3. ASSUME NEW f \in FeeAuthorization, NEW t \in 0 .. now, RefundOrphaned(f, t),
             Attested("primary", Evidence("ORPHANED_REFUND", covenantOf(f), <<t>>))
      PROVE  FeesSayTrue
  <2>1. SignedFor("primary", "ORPHANED_REFUND", covenantOf(f))
    BY <1>0, <1>3, EvidenceIsTrue
  <2>2. \A u \in escrowEvidence' \ escrowEvidence : SignedFor("primary", u[1], covenantOf(u[2]))
    BY <1>2, <1>3, <2>1 DEF RefundOrphaned
  <2>3. \A g \in FeeAuthorization : fees'[g].state = "Captured" => fees[g].state = "Captured"
    BY <1>0, <1>3 DEF RefundOrphaned
  <2>4. f \in paidIn
    <3>1. BornOut(Evidence("ORPHANED_REFUND", covenantOf(f), <<t>>))
      BY <1>0, <1>3, EvidenceIsTrue
    <3>2. feeOf(covenantOf(f)) = f
      BY DEF feeOf, covenantOf
    <3> QED
      BY <3>1, <3>2 DEF BornOut, Evidence
  <2>5. NoFalseRefund'
    <3> DEFINE r == [state |-> "Refunded", amountAtomic |-> FeeAmount, fundedAt |-> 0,
                     refundAvailableAt |-> refundAvailableAt(f)]
    <3>1. fees' = [fees EXCEPT ![f] = r] /\ paidIn' = paidIn
      BY <1>3 DEF RefundOrphaned
    <3> HIDE DEF r
    <3> QED
      BY <1>5, <2>4, <3>1
  <2> QED
    BY <1>0, <2>2, <2>3, <2>5 DEF FeesSayTrue, CapturesAreEarned
<1>4. ASSUME NEW f \in FeeAuthorization, NEW t \in 0 .. now, Capture(f, t),
             Attested("primary", Evidence("CAPTURE", covenantOf(f), <<t>>))
      PROVE  FeesSayTrue
  <2>1. /\ SignedFor("primary", "CAPTURE", covenantOf(f))
        /\ BornOut(Evidence("CAPTURE", covenantOf(f), <<t>>))
    BY <1>0, <1>4, EvidenceIsTrue
  <2>2. Collected(covenantOf(f))
    BY <2>1 DEF BornOut, Evidence
  <2>3. \A u \in escrowEvidence' \ escrowEvidence : SignedFor("primary", u[1], covenantOf(u[2]))
    BY <1>2, <1>4, <2>1 DEF Capture
  <2>4. \A g \in FeeAuthorization \ {f} : fees'[g] = fees[g]
    BY <1>0, <1>4 DEF Capture
  <2>5. ASSUME NEW c \in Covenant, covenantOf(feeOf(c)) = c, fees'[feeOf(c)].state = "Captured"
        PROVE  Collected(c)
    <3>1. CASE feeOf(c) = f
      BY <2>2, <2>5, <3>1
    <3>2. CASE feeOf(c) # f
      BY <1>0, <2>4, <2>5, <3>2 DEF CapturesAreEarned
    <3> QED
      BY <3>1, <3>2
  <2>6. NoFalseRefund'
    <3>1. /\ fees' = [fees EXCEPT ![f] = [fees[f] EXCEPT !.state = "Captured"]]
          /\ paidIn' = paidIn /\ f \in paidIn
      BY <1>0, <1>4 DEF Capture, FundedArePaid
    <3> QED
      BY <1>5, <3>1
  <2> QED
    BY <2>3, <2>5, <2>6 DEF FeesSayTrue
<1> QED
  BY <1>1, <1>3, <1>4 DEF AttestedFeeActions, AttestedOrphan

(* What a record says stays so. *)
LEMMA SaysTrueStands ==
  ASSUME ManagerAssumption, EscrowAssumption, AttestationAssumption, Onward,
         NEW c \in Covenant, NEW cov, SaysTrue(c, cov)
  PROVE  SaysTrue(c, cov)'
<1> DEFINE p == paymentOf(c)
<1>1. p \in Payment /\ c # NoCovenant
  BY PurchaseShape
<1>2. receipts[p].covenant = c => receipts'[p] = receipts[p]
  BY <1>1 DEF Onward, NoReceipt
<1>3. settledAt[p] # 0 => settledAt'[p] = settledAt[p]
  BY <1>1 DEF Onward
<1>4. NeverPaid(c) => NeverPaid(c)'
  BY NeverPaidStands
<1>5. paymentOf(c)' = paymentOf(c)
  BY DEF paymentOf
<1> QED
  BY <1>2, <1>3, <1>4, <1>5 DEF SaysTrue, Collected, receiptOf

\* All the evidence that was used, of either contract, was signed.
EverythingWasSigned ==
    /\ \A u \in consumedEvidence : SignedFor(u[1], u[2], u[3])
    /\ \A u \in escrowEvidence : SignedFor("primary", u[1], covenantOf(u[2]))

ContractsSayTrue ==
    /\ \A c \in Covenant : SaysTrue(c, covenants[c])
    /\ CapturesAreEarned
    /\ NoFalseRefund
    /\ EverythingWasSigned

AttestedInv == EscrowInv /\ AttestersInv /\ (FewLeaked => ContractsSayTrue)

(* Keys that have leaked stay leaked. *)
LEMMA LeakedStays ==
  ASSUME AttestationAssumption, othersKeys \subseteq othersKeys', FewLeaked'
  PROVE  FewLeaked
<1> SUFFICES ASSUME NEW q \in Quorum
             PROVE  Cardinality(othersKeys \cap Signers[q]) < Threshold[q]
  BY DEF FewLeaked
<1> DEFINE before == othersKeys \cap Signers[q]
           after == othersKeys' \cap Signers[q]
<1>1. IsFiniteSet(Signers[q]) /\ Threshold[q] \in MIN_THRESHOLD .. Cardinality(Signers[q])
  BY DEF AttestationAssumption, ValidConfiguration
<1>2. IsFiniteSet(after) /\ before \in SUBSET after
  BY <1>1, FS_Intersection
<1>3. Cardinality(after) < Threshold[q]
  BY DEF FewLeaked
<1> HIDE DEF before, after
<1>4. IsFiniteSet(before) /\ Cardinality(before) <= Cardinality(after)
  BY <1>2, FS_Subset
<1>5. /\ Cardinality(before) \in Nat /\ Cardinality(after) \in Nat
      /\ Threshold[q] \in Int
  BY <1>1, <1>2, <1>4, FS_CardinalityType
<1>6. Cardinality(before) < Threshold[q]
  BY <1>3, <1>4, <1>5
<1> QED
  BY <1>6 DEF before

(* The contracts keep saying what is so, whatever step is taken. *)
LEMMA ContractsKeepTrue ==
  ASSUME RegistryAssumption, ManagerAssumption, VaultAssumption, EscrowAssumption,
         AttestationAssumption, EscrowInv, AttestersInv, Onward, signed \subseteq signed',
         FewLeaked, ContractsSayTrue, [AttestedNext]_allAttestedVars
  PROVE  ContractsSayTrue'
<1>0. /\ VaultTypeOK /\ ManagerTypeOK /\ EscrowTypeOK /\ IssuedWithinTerms
      /\ AttestedTypeOK /\ SignedIsTrue /\ FundedArePaid
      /\ covenants \in [Covenant -> CovenantRecord]
  BY DEF EscrowInv, ManagerInv, VaultInv, FeesInv, AttestersInv, ManagerTypeOK
<1>1. \A q, action, c : SignedFor(q, action, c) => SignedFor(q, action, c)'
  BY DEF SignedFor
<1>2. \A c \in Covenant : Collected(c) => Collected(c)'
  BY PurchaseShape DEF Onward, Collected, paymentOf
<1>3. ASSUME \A c \in Covenant : \E r : covenants'[c] = r /\ SaysTrue(c, r)
      PROVE  (\A c \in Covenant : SaysTrue(c, covenants[c]))'
  <2> SUFFICES ASSUME NEW c \in Covenant
               PROVE  SaysTrue(c, covenants[c])'
    OBVIOUS
  <2>1. PICK r : covenants'[c] = r /\ SaysTrue(c, r)
    BY <1>3
  <2>2. SaysTrue(c, r)'
    BY <2>1, SaysTrueStands
  <2> QED
    BY <2>1, <2>2 DEF SaysTrue
<1>4. ASSUME UNCHANGED covenants
      PROVE  (\A c \in Covenant : SaysTrue(c, covenants[c]))'
  BY <1>3, <1>4 DEF ContractsSayTrue
<1>5. ASSUME FeesSayTrue
      PROVE  CapturesAreEarned' /\ NoFalseRefund'
  BY <1>2, <1>5 DEF FeesSayTrue, CapturesAreEarned, covenantOf, feeOf
<1>6. ASSUME UNCHANGED <<fees, paidIn>>
      PROVE  CapturesAreEarned' /\ NoFalseRefund'
  BY <1>2, <1>6 DEF ContractsSayTrue, CapturesAreEarned, NoFalseRefund, FalselyRefunded,
     covenantOf, feeOf
<1>7. ASSUME \A u \in consumedEvidence' \ consumedEvidence : SignedFor(u[1], u[2], u[3]),
             \A u \in escrowEvidence' \ escrowEvidence : SignedFor("primary", u[1], covenantOf(u[2]))
      PROVE  EverythingWasSigned'
  <2>1. \A u \in consumedEvidence' : SignedFor(u[1], u[2], u[3])'
    BY <1>1, <1>7 DEF ContractsSayTrue, EverythingWasSigned
  <2>2. \A u \in escrowEvidence' : SignedFor("primary", u[1], covenantOf(u[2]))'
    BY <1>1, <1>7 DEF ContractsSayTrue, EverythingWasSigned
  <2> QED
    BY <2>1, <2>2 DEF EverythingWasSigned, covenantOf
<1>8. ASSUME AttestedFeeActions, UNCHANGED managerVars
      PROVE  ContractsSayTrue'
  <2>1. FeesSayTrue
    BY <1>0, <1>8, FeeActionsSayTrue DEF ContractsSayTrue
  <2> QED
    BY <1>4, <1>5, <1>7, <1>8, <2>1 DEF ContractsSayTrue, FeesSayTrue, managerVars
<1>9. ASSUME \/ AttestedPrimaryNext
             \/ AttestedRecoveryNext
             \/ \E c \in Covenant : ExpireUnstarted(c),
             UNCHANGED escrowVars
      PROVE  ContractsSayTrue'
  <2>1. PICK d \in Covenant : CallSaysTrue(d)
    BY <1>0, <1>9, CallsSayTrue DEF ContractsSayTrue
  <2>2. PICK r : covenants' = [covenants EXCEPT ![d] = r] /\ SaysTrue(d, r)
    BY <2>1 DEF CallSaysTrue
  <2>3. \A c \in Covenant : \E s : covenants'[c] = s /\ SaysTrue(c, s)
    BY <1>0, <2>2 DEF ContractsSayTrue
  <2> QED
    BY <1>3, <1>6, <1>7, <1>9, <2>1, <2>3 DEF ContractsSayTrue, CallSaysTrue, escrowVars
<1>10. ASSUME UNCHANGED <<managerVars, escrowVars>>
       PROVE  ContractsSayTrue'
  BY <1>4, <1>6, <1>7, <1>10 DEF ContractsSayTrue, managerVars, escrowVars
<1> QED
  BY <1>8, <1>9, <1>10 DEF AttestedNext, ContractsNext, allAttestedVars, allEscrowVars, allManagerVars

-------------------------------------------------------------------------------
(* The invariant *)

(* The attesters' part is kept by every step, theirs and the others'. *)
LEMMA AttestersKept ==
  ASSUME RegistryAssumption, ManagerAssumption, VaultAssumption, EscrowAssumption,
         AttestationAssumption, EscrowInv, AttestersInv, Onward,
         [AttestedNext]_allAttestedVars
  PROVE  /\ AttestersInv'
         /\ othersKeys \subseteq othersKeys' /\ signed \subseteq signed'
<1>0. /\ VaultTypeOK /\ ManagerTypeOK /\ EscrowTypeOK /\ AttestedTypeOK /\ ReceiptsAreOfPaid
  BY DEF EscrowInv, ManagerInv, VaultInv, FeesInv, AttestersInv
<1>1. /\ AttesterNext \/ UNCHANGED attesterVars
      /\ ServiceNext \/ UNCHANGED serviceVars
  BY DEF AttestedNext, allAttestedVars
<1>2. /\ othersKeys' \subseteq Key /\ othersKeys \subseteq othersKeys'
      /\ requests' \subseteq Request /\ RequestsAreChecked'
      /\ signed' \subseteq Quorum \X EvidenceRecord /\ signed \subseteq signed'
      /\ SignedIsTrue'
  BY <1>0, <1>1, AttesterStepKeeps
<1>3. ReceiptsAreOfPaid'
  BY <1>0, <1>1, ReceiptsKept
<1>4. /\ settledAt' \in [Payment -> Nat] /\ voided' \subseteq Payment
      /\ receipts' \in [Payment -> RelayReceipt \cup {NoReceipt}]
  <2>0. /\ settledAt \in [Payment -> Nat] /\ voided \subseteq Payment /\ now \in Nat
        /\ receipts \in [Payment -> RelayReceipt \cup {NoReceipt}]
    BY <1>0 DEF AttestedTypeOK, VaultTypeOK
  <2>1. ASSUME NEW p \in Payment, ProviderCollects(p)
        PROVE  <1>4
    BY <2>0, <2>1 DEF ProviderCollects
  <2>2. ASSUME NEW c \in Covenant, NEW receipt \in RelayReceipt, CommitReceipt(c, receipt)
        PROVE  <1>4
    BY <2>0, <2>2 DEF CommitReceipt
  <2>3. ASSUME NEW c \in Covenant, NEW t \in 1 .. now, NEW delivered \in BOOLEAN,
               NEW timely \in BOOLEAN, RelayAnswers(c, t, delivered, timely)
        PROVE  <1>4
    <3> DEFINE receipt == [covenant |-> c, startedAt |-> t, completedAt |-> now,
                           delivered |-> delivered, timely |-> timely]
    <3>1. CommitReceipt(c, receipt)
      BY <2>3 DEF RelayAnswers
    <3>2. receipt \in RelayReceipt
      BY <2>0 DEF RelayReceipt
    <3> HIDE DEF receipt
    <3> QED
      BY <2>2, <3>1, <3>2
  <2>4. ASSUME NEW c \in Covenant, RelayRecovers(c)
        PROVE  <1>4
    <3> DEFINE receipt == [covenant |-> c, startedAt |-> settledAt[paymentOf(c)],
                           completedAt |-> 0, delivered |-> FALSE, timely |-> FALSE]
    <3>1. CommitReceipt(c, receipt)
      BY <2>4 DEF RelayRecovers
    <3>2. paymentOf(c) \in Payment
      BY PurchaseShape
    <3>3. receipt \in RelayReceipt
      BY <2>0, <3>2 DEF RelayReceipt
    <3> HIDE DEF receipt
    <3> QED
      BY <2>2, <3>1, <3>3
  <2>5. ASSUME UNCHANGED serviceVars
        PROVE  <1>4
    BY <2>0, <2>5 DEF serviceVars
  <2>6. ASSUME NEW p \in Payment, BuyerVoids(p)
        PROVE  <1>4
    BY <2>0, <2>6 DEF BuyerVoids
  <2> QED
    BY <1>1, <2>1, <2>3, <2>4, <2>5, <2>6 DEF ServiceNext
<1>5. AttestedTypeOK'
  BY <1>2, <1>4 DEF AttestedTypeOK
<1> QED
  BY <1>2, <1>3, <1>5 DEF AttestersInv

(* Every step keeps the invariant. *)
LEMMA AttestedStepKeeps ==
  ASSUME RegistryAssumption, ManagerAssumption, VaultAssumption, EscrowAssumption,
         AttestationAssumption, AttestedInv, [AttestedNext]_allAttestedVars
  PROVE  AttestedInv'
<1>1. EscrowInv'
  BY AttestedStepIsEscrowStep, EscrowStepKeeps DEF AttestedInv
<1>2. Onward
  BY StepsOnward DEF AttestedInv, AttestersInv
<1>3. AttestersInv' /\ othersKeys \subseteq othersKeys' /\ signed \subseteq signed'
  BY <1>2, AttestersKept DEF AttestedInv
<1>4. ASSUME FewLeaked'
      PROVE  ContractsSayTrue'
  <2>1. FewLeaked
    BY <1>3, <1>4, LeakedStays
  <2> QED
    BY <1>2, <1>3, <2>1, ContractsKeepTrue DEF AttestedInv
<1> QED
  BY <1>1, <1>3, <1>4 DEF AttestedInv

(* At deployment nothing has been said. *)
LEMMA AttestedInvInit ==
  ASSUME RegistryAssumption, ManagerAssumption, VaultAssumption, EscrowAssumption,
         AttestationAssumption, VaultInit, RegistryInit, ManagerInit, EscrowInit, AttestedInit
  PROVE  AttestedInv
<1>1. EscrowInv
  BY EscrowInvInit
<1>2. AttestedTypeOK
  BY DEF AttestedInit, AttestedTypeOK
<1>3. ReceiptsAreOfPaid /\ RequestsAreChecked /\ SignedIsTrue
  BY DEF AttestedInit, ReceiptsAreOfPaid, RequestsAreChecked, SignedIsTrue
<1>4. \A c \in Covenant : SaysTrue(c, covenants[c])
  BY DEF ManagerInit, EmptyCovenant, SaysTrue
<1>5. CapturesAreEarned /\ NoFalseRefund
  <2>1. \A f \in FeeAuthorization : fees[f].state = "None"
    BY DEF EscrowInit, NoFee
  <2> QED
    BY <2>1, PurchaseShape DEF CapturesAreEarned, NoFalseRefund, FalselyRefunded
<1>6. EverythingWasSigned
  BY DEF ManagerInit, EscrowInit, EverythingWasSigned
<1> QED
  BY <1>1, <1>2, <1>3, <1>4, <1>5, <1>6 DEF AttestedInv, AttestersInv, ContractsSayTrue

(* The invariant holds in every state the system reaches. *)
LEMMA AttestedInvariant == AttestedSpec => []AttestedInv
<1>1. VaultInit /\ RegistryInit /\ ManagerInit /\ EscrowInit /\ AttestedInit => AttestedInv
  BY VaultAssumption, RegistryAssumption, ManagerAssumption, EscrowAssumption,
     AttestationAssumption, AttestedInvInit
<1>2. AttestedInv /\ [AttestedNext]_allAttestedVars => AttestedInv'
  BY VaultAssumption, RegistryAssumption, ManagerAssumption, EscrowAssumption,
     AttestationAssumption, AttestedStepKeeps
<1> QED
  BY <1>1, <1>2, PTL DEF AttestedSpec

-------------------------------------------------------------------------------
(* Theorems *)

(* What an attester has signed is so and stays so: the covenant, the fee and the   *)
(* payments it read one after the other may have moved, but what it vouches for    *)
(* cannot have.  It does not matter how many keys have leaked.                     *)
THEOREM AttestersSignTheTruth == AttestedSpec => [](AttestedTypeOK /\ SignedIsTrue)
<1>1. AttestedInv => AttestedTypeOK /\ SignedIsTrue
  BY DEF AttestedInv, AttestersInv
<1> QED
  BY <1>1, AttestedInvariant, PTL

(* While no quorum's worth of keys has leaked, nothing takes effect on a covenant or *)
(* a fee that its quorum's attesters did not sign, whoever puts the list together.   *)
THEOREM NothingUnsigned == AttestedSpec => [](FewLeaked => EverythingWasSigned)
<1>1. AttestedInv => (FewLeaked => EverythingWasSigned)
  BY DEF AttestedInv, ContractsSayTrue
<1> QED
  BY <1>1, AttestedInvariant, PTL

(* While no quorum's worth of keys has leaked, what the contracts say of a purchase *)
(* is what the relay saw of it, and a breach is paid its whole cap.                 *)
THEOREM AttestedOutcomesAreTrue == AttestedSpec => []OutcomesAreTrue
<1>1. AttestedInv => OutcomesAreTrue
  BY DEF AttestedInv, ContractsSayTrue, SaysTrue, OutcomesAreTrue
<1> QED
  BY <1>1, AttestedInvariant, PTL

(* While no quorum's worth of keys has leaked, a covenant is cancelled only when its *)
(* buyer pays nobody, a fee is captured only when the provider was paid, and the     *)
(* escrow gives back only what it got.                                               *)
THEOREM AttestedMoneyFollows == AttestedSpec => []MoneyFollowsService
<1>1. AttestedInv => MoneyFollowsService
  <2> SUFFICES ASSUME AttestedInv, FewLeaked
               PROVE  /\ \A c \in Covenant :
                            /\ state(c) = "CancelledUnpaid" =>
                                  /\ ~Collected(c) /\ now >= paymentOf(c).validBefore
                                  /\ feeOf(c) \in paidIn => fees[feeOf(c)].state = "Refunded"
                            /\ covenantOf(feeOf(c)) = c /\ fees[feeOf(c)].state = "Captured"
                                  => Collected(c)
                      /\ \A f \in FeeAuthorization : ~FalselyRefunded(f)
    BY DEF MoneyFollowsService
  <2>1. /\ \A c \in Covenant : SaysTrue(c, covenants[c])
        /\ CapturesAreEarned /\ NoFalseRefund
    BY DEF AttestedInv, ContractsSayTrue
  <2>2. \A c \in Covenant : state(c) = "CancelledUnpaid" => NeverPaid(c)
    BY <2>1 DEF SaysTrue, state
  <2> QED
    BY <2>1, <2>2 DEF NeverPaid, CapturesAreEarned, NoFalseRefund
<1> QED
  BY <1>1, AttestedInvariant, PTL
===============================================================================
