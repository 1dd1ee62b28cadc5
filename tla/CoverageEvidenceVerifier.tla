------------------------ MODULE CoverageEvidenceVerifier ------------------------
(***************************************************************************)
(* src/CoverageEvidenceVerifier.sol: when a list of signatures speaks for  *)
(* a quorum.                                                               *)
(*                                                                         *)
(* The contract keeps no state after its deployment.  A list is told by    *)
(* the addresses its signatures recover to, and an address is a positive   *)
(* number, zero being address(0): what a signature signs is modelled where *)
(* evidence is (see AttestedCoverage).                                     *)
(***************************************************************************)
EXTENDS Naturals, Sequences, FiniteSets

MAX_SIGNERS == 16
MIN_SIGNERS == 5
MIN_THRESHOLD == 3

\* What the constructor accepts: distinct signers, none of them address(0).
ValidConfiguration(signers, threshold) ==
    /\ IsFiniteSet(signers)
    /\ \A s \in signers : s \in Nat \ {0}
    /\ MIN_SIGNERS <= Cardinality(signers) /\ Cardinality(signers) <= MAX_SIGNERS
    /\ threshold \in MIN_THRESHOLD .. Cardinality(signers)

previous(recovered, i) == IF i = 1 THEN 0 ELSE recovered[i - 1]

\* Mutant: a signer that repeats itself is in order.
notOrderedRepeated(recovered, i) == recovered[i] < previous(recovered, i)

\* SignaturesNotOrdered
notOrdered(recovered, i) == recovered[i] <= previous(recovered, i)

verify(signers, threshold, recovered) ==
    /\ Len(recovered) >= threshold
    /\ Len(recovered) <= Cardinality(signers)
    /\ \A i \in 1 .. Len(recovered) :
          ~notOrdered(recovered, i) /\ recovered[i] \in signers
===============================================================================
