---------------------------- MODULE UnitSumsProofs ----------------------------
(***************************************************************************)
(* Facts about SumOver: how the sum moves when one entry changes, that no  *)
(* entry exceeds it, and when it is zero.  They stand in for induction     *)
(* over the keys and are cited by the solvency proofs of the contracts.    *)
(***************************************************************************)
EXTENDS UnitSums, FiniteSetTheorems, FunctionTheorems, TLAPS

(* The units of one key are finite and as many as its amount. *)
LEMMA UnitsOfCount ==
  ASSUME NEW k, NEW n \in Nat
  PROVE  IsFiniteSet(UnitsOf(k, n)) /\ Cardinality(UnitsOf(k, n)) = n
<1>1. IsFiniteSet({k}) /\ Cardinality({k}) = 1
  BY FS_Singleton
<1>2. IsFiniteSet(1 .. n) /\ Cardinality(1 .. n) = n
  BY FS_Interval
<1>3. /\ IsFiniteSet({k} \X (1 .. n))
      /\ Cardinality({k} \X (1 .. n)) = Cardinality({k}) * Cardinality(1 .. n)
  BY <1>1, <1>2, FS_Product
<1> QED
  BY <1>1, <1>2, <1>3 DEF UnitsOf

(* The units of finitely many keys are finite, so their sum is a number. *)
LEMMA SumOverIsNat ==
  ASSUME NEW S, IsFiniteSet(S), NEW f, \A k \in S : f[k] \in Nat
  PROVE  IsFiniteSet(UnitsOver(S, f)) /\ SumOver(S, f) \in Nat
<1> DEFINE Parts == {UnitsOf(k, f[k]) : k \in S}
           part  == [k \in S |-> UnitsOf(k, f[k])]
<1>1. part \in Surjection(S, Parts)
  BY DEF Surjection
<1>2. IsFiniteSet(Parts)
  BY <1>1, FS_Surjection
<1>3. \A P \in Parts : IsFiniteSet(P)
  BY UnitsOfCount
<1>4. IsFiniteSet(UNION Parts)
  BY <1>2, <1>3, FS_UNION
<1>5. IsFiniteSet(UnitsOver(S, f))
  BY <1>4 DEF UnitsOver
<1> QED
  BY <1>5, FS_CardinalityType DEF SumOver

(* Sums depend only on the amounts of the keys summed over. *)
LEMMA SumOverSame ==
  ASSUME NEW S, NEW f, NEW g, \A k \in S : f[k] = g[k]
  PROVE  SumOver(S, f) = SumOver(S, g)
<1>1. UnitsOver(S, f) = UnitsOver(S, g)
  BY DEF UnitsOver, UnitsOf
<1> QED
  BY <1>1 DEF SumOver

(* The sum splits into the entry of one key and the sum over the others. *)
LEMMA SumOverSplit ==
  ASSUME NEW S, IsFiniteSet(S), NEW s \in S, NEW f, \A k \in S : f[k] \in Nat
  PROVE  /\ SumOver(S \ {s}, f) \in Nat
         /\ SumOver(S, f) = SumOver(S \ {s}, f) + f[s]
<1> DEFINE One  == UnitsOf(s, f[s])
           Rest == UnitsOver(S \ {s}, f)
<1>1. IsFiniteSet(S \ {s})
  BY FS_RemoveElement
<1>2. IsFiniteSet(Rest) /\ Cardinality(Rest) \in Nat
  BY <1>1, SumOverIsNat DEF SumOver
<1>3. IsFiniteSet(One) /\ Cardinality(One) = f[s]
  BY UnitsOfCount
<1>4. UnitsOver(S, f) = Rest \cup One
  BY DEF UnitsOver
<1>5. Rest \cap One = {}
  BY DEF UnitsOver, UnitsOf
<1>6. Cardinality(Rest \cup One) =
        Cardinality(Rest) + Cardinality(One) - Cardinality(Rest \cap One)
  BY <1>2, <1>3, FS_Union
<1>7. Cardinality(Rest \cap One) = 0
  BY <1>5, FS_EmptySet
<1> QED
  BY <1>2, <1>3, <1>4, <1>6, <1>7 DEF SumOver

(* Changing one entry moves the sum by the difference. *)
LEMMA SumOverChange ==
  ASSUME NEW S, IsFiniteSet(S), NEW s \in S, NEW f, NEW g,
         \A k \in S : f[k] \in Nat, \A k \in S : g[k] \in Nat,
         \A k \in S \ {s} : g[k] = f[k]
  PROVE  /\ SumOver(S, f) \in Nat /\ SumOver(S, g) \in Nat
         /\ SumOver(S, g) = SumOver(S, f) - f[s] + g[s]
<1>1. SumOver(S \ {s}, f) = SumOver(S \ {s}, g)
  BY SumOverSame
<1>2. /\ SumOver(S \ {s}, f) \in Nat
      /\ SumOver(S, f) = SumOver(S \ {s}, f) + f[s]
  BY SumOverSplit
<1>3. SumOver(S, g) = SumOver(S \ {s}, g) + g[s]
  BY SumOverSplit
<1> QED
  BY <1>1, <1>2, <1>3

(* No entry exceeds the sum. *)
LEMMA SumOverEntry ==
  ASSUME NEW S, IsFiniteSet(S), NEW s \in S, NEW f, \A k \in S : f[k] \in Nat
  PROVE  f[s] <= SumOver(S, f)
<1>1. /\ SumOver(S \ {s}, f) \in Nat
      /\ SumOver(S, f) = SumOver(S \ {s}, f) + f[s]
  BY SumOverSplit
<1>2. f[s] \in Nat
  OBVIOUS
<1> QED
  BY <1>1, <1>2

(* A sum of zeros is zero. *)
LEMMA SumOverZero ==
  ASSUME NEW S, NEW f, \A k \in S : f[k] = 0
  PROVE  SumOver(S, f) = 0
<1>1. UnitsOver(S, f) = {}
  BY DEF UnitsOver, UnitsOf
<1> QED
  BY <1>1, FS_EmptySet DEF SumOver
===============================================================================
