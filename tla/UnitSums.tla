------------------------------- MODULE UnitSums -------------------------------
(***************************************************************************)
(* Sums of natural numbers over a finite set of keys.                      *)
(*                                                                         *)
(* The contracts keep running totals (a provider's locked bond, the fees   *)
(* in escrow, the committed liability) beside the individual entries they  *)
(* add up.  SumOver states that relation without recursion: every atomic   *)
(* unit of an entry is tagged with the entry's key, and the sum is the     *)
(* number of tagged units.  Cardinality theorems then prove how an update  *)
(* of one entry changes the sum (module UnitSumsProofs).                   *)
(***************************************************************************)
EXTENDS Integers, FiniteSets

\* The units of one key: n of them.
UnitsOf(k, n) == {k} \X (1 .. n)

\* The units of every key of S under the amounts f.
UnitsOver(S, f) == UNION {UnitsOf(k, f[k]) : k \in S}

\* Sum of f[k] over the keys k of S.
SumOver(S, f) == Cardinality(UnitsOver(S, f))
===============================================================================
