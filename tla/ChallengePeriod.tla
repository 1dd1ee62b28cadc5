---------------------------- MODULE ChallengePeriod ----------------------------
(***************************************************************************)
(* The challenge period of src/CoverageManager.sol, seen from outside the  *)
(* contract: a history variable notes when each covenant was last seen     *)
(* unbreached, and the payout of a covenant is compared with that.         *)
(***************************************************************************)
EXTENDS CoverageManager

\* When a covenant that is now in dispute or paid was last seen unbreached.
VARIABLE unbreachedAt

watchedVars == <<allManagerVars, unbreachedAt>>

WatchInit == unbreachedAt = [c \in Covenant |-> 0]

Watch ==
    unbreachedAt' = [c \in Covenant |->
        IF state(c)' = "Active" THEN now'
        ELSE IF state(c)' \in {"PayoutDue", "Paid"} THEN unbreachedAt[c] ELSE 0]

WatchedSpec ==
    /\ VaultInit /\ RegistryInit /\ ManagerInit /\ WatchInit
    /\ [][ManagerNext /\ Watch]_watchedVars

-------------------------------------------------------------------------------
(* Properties *)

\* A provider is never surprised: a covenant that was still unbreached on chain at
\* some time is not paid before a whole challenge period after it, whichever quorum
\* acts and however old the evidence it holds.
ChallengeBeforePayout ==
    \A c \in Covenant :
        state(c) = "Paid" => now > unbreachedAt[c] + SettlementChallenge
===============================================================================
