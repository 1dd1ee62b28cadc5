----------------------------- MODULE CoverageDeal -----------------------------
(***************************************************************************)
(* What the two contracts promise about a covered purchase, whatever the   *)
(* time is, whoever calls and whatever is attested: the order in which a   *)
(* deal's covenant and its policy fee may move.                            *)
(*                                                                         *)
(* The fee enters escrow only under a covenant that waits for its clock    *)
(* and is paid out once: to the treasury only while the covenant stands or *)
(* has ended in its own right, else back to the buyer.  PolicyFeeEscrow    *)
(* (with the manager it reads), DirectReconciler (with everything that     *)
(* drives the contracts) and UniversalCover (where no fee is escrowed) are *)
(* shown to implement this.                                                *)
(***************************************************************************)
CONSTANT Deal

VARIABLES
    coverage,       \* the state of each deal's covenant
    fee             \* the state of each deal's fee

dealVars == <<coverage, fee>>

Standing == {"PendingStart", "Active", "PayoutDue"}

\* _cancelUnpaid, expiry, completion, breach and settlement, by either quorum.
CoverageStep ==
    [None |-> {"PendingStart", "Active"},
     PendingStart |-> {"Active", "Released", "CancelledUnpaid"},
     Active |-> {"Released", "PayoutDue", "CancelledUnpaid"},
     PayoutDue |-> {"Released", "Paid", "RecoveredWithoutPayout", "CancelledUnpaid"}]

DealInit ==
    /\ coverage = [d \in Deal |-> "None"]
    /\ fee = [d \in Deal |-> "None"]

MoveCoverage(d) ==
    /\ coverage[d] \in DOMAIN CoverageStep
    /\ \E next \in CoverageStep[coverage[d]] : coverage' = [coverage EXCEPT ![d] = next]
    /\ UNCHANGED fee

FundFee(d) ==
    /\ fee[d] = "None" /\ coverage[d] = "PendingStart"
    /\ fee' = [fee EXCEPT ![d] = "Funded"]

CaptureFee(d) ==
    /\ fee[d] = "Funded"
    /\ coverage[d] \notin {"None", "PendingStart", "CancelledUnpaid"}
    /\ fee' = [fee EXCEPT ![d] = "Captured"]

\* Of a funded fee, or of one paid past the escrow's books.
RefundFee(d) ==
    /\ \/ fee[d] = "Funded"
       \/ fee[d] = "None" /\ coverage[d] # "None"
    /\ fee' = [fee EXCEPT ![d] = "Refunded"]

DealNext ==
    \E d \in Deal :
        \/ MoveCoverage(d)
        \/ (FundFee(d) \/ CaptureFee(d) \/ RefundFee(d)) /\ UNCHANGED coverage

DealSpec == DealInit /\ [][DealNext]_dealVars
===============================================================================
