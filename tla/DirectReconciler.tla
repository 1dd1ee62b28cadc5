--------------------------- MODULE DirectReconciler ---------------------------
(***************************************************************************)
(* api/lib/direct-a2mcp-reconciler.js: the scheduled job that takes an     *)
(* execution from the queue, whoever started it and whatever it is doing,  *)
(* and brings its covenant and its fee to an end or holds it; composed     *)
(* with the buyer's invocations, the provider and the chain.               *)
(*                                                                         *)
(* The reconciler does not look at leases.  It works with the record it    *)
(* listed, replaced by the one each of its own checkpoints returns.        *)
(***************************************************************************)
EXTENDS DirectExecution

CONSTANTS
    Reconciler          \* the reconciler's runs, one at a time

ASSUME ReconcilerAssumption == Reconciler \in Worker /\ Reconciler \notin Buyer

record == task[Reconciler].copy
saw == task[Reconciler].saw
fee == task[Reconciler].fee
receipt == task[Reconciler].result

\* checkpoint: a stage the held record has is not saved again.
Recorded(stage, next) ==
    IF stage \in record.stages /\ ~task[Reconciler].sent
      THEN Reading /\ Goto(Reconciler, next)
      ELSE Checkpoint(Reconciler, stage, next)

at(pcs) == pc(Reconciler) \in pcs

\* An await that reads, then goes on.
Read(next) == Reading /\ Goto(Reconciler, next)

\* The end of an inspection, held or not.
Inspected == Read("rotate")

SeeCovenant(next) == Reading /\ Saw(Reconciler, next)

SeeFee(next) ==
    Reading /\ task' = [task EXCEPT ![Reconciler].fee = feeState, ![Reconciler].pc = next]

\* recoveryContext: the sealed authorizations, while the execution lasts.
RecoveryContext == quotes[Deal].state = "executing" /\ quotes[Deal].recovery

Do(method, next) == Transact(Reconciler, [method |-> method], next)

DoWithReceipt(method, next) ==
    Transact(Reconciler, [method |-> method, receipt |-> receipt], next)

-------------------------------------------------------------------------------
(* reconcile: what is known of the execution? *)

ListExecuting ==
    /\ at({"start"})
    /\ ToSet(executing) # {}
    /\ UNCHANGED <<now, quotes, chainVars, relayVars>>
    /\ \/ /\ quotes[Deal].state = "executing"
          /\ UNCHANGED executing
          /\ task' = [task EXCEPT ![Reconciler].copy = quotes[Deal], ![Reconciler].pc = "findReceipt"]
       \/ /\ quotes[Deal].state # "executing"
          /\ executing' = Dequeue(Deal)
          /\ UNCHANGED task

FindReceipt ==
    /\ at({"findReceipt"})
    /\ Reading
    /\ \/ /\ relayReceipt # NoReceipt
          /\ task' = [task EXCEPT ![Reconciler].result = relayReceipt, ![Reconciler].pc = "settled"]
       \/ relayReceipt = NoReceipt /\ record.relayGrant = NoGrant /\ Goto(Reconciler, "unsettled")
       \/ /\ relayReceipt = NoReceipt /\ record.relayGrant # NoGrant
          /\ IF RecoveryContext THEN Goto(Reconciler, "recover") ELSE Fail(Reconciler)

\* markReconciled: an inspected execution goes to the end of the queue.
Rotate ==
    /\ at({"rotate", "failing"})
    /\ UNCHANGED <<now, quotes, chainVars, relayVars>>
    /\ MarkReconciled(Deal)
    /\ task' = [task EXCEPT ![Reconciler] = At("start")]

-------------------------------------------------------------------------------
(* recoverOrphanedFee: the fee was paid, but not into the escrow's books *)

\* In both flows; afterwards each goes on its way.
RecoverOrphanedFee ==
    LET settled == receipt # NoReceipt IN
    \/ /\ at({"searchOrphan"})
       /\ \/ feeUse = "unused" /\ Read(IF settled THEN "rotate" ELSE "cancel")
          \/ feeUse # "unused" /\ now < refundAvailableAt /\ Inspected
          \/ /\ feeUse # "unused" /\ now >= refundAvailableAt
             /\ IF RecoveryContext THEN Read("refundOrphan") ELSE Reading /\ Fail(Reconciler)
    \/ at({"refundOrphan"}) /\ Do("refundOrphaned", "saveOrphan")
    \/ at({"saveOrphan"}) /\ Recorded("orphanedFeeRefunded", "rereadOrphan")
    \/ /\ at({"rereadOrphan"})
       /\ SeeFee(IF feeState # "Refunded" THEN "failing" ELSE IF settled THEN "clock" ELSE "cancel")

-------------------------------------------------------------------------------
(* reconcileSettled: the provider was paid *)

ReadSettled ==
    \/ at({"settled"}) /\ SeeCovenant("settledFee")
    \/ at({"settledFee"}) /\ SeeFee(IF saw = "CancelledUnpaid" THEN "rotate"
                                     ELSE IF feeState = "None" THEN "searchOrphan" ELSE "clock")

\* Mutant: a payment whose delivery is unknown is taken for a breach.
BreachedIfUndelivered(r) == r.kind # "timely"

\* Delivered late, or refused after the payment; an unknown delivery is held.
Breached(r) == r.kind = "late"

\* What comes next, by the covenant last read: the loss, the delivery, the fee.
LossNext(seen) ==
    IF seen = "PayoutDue" /\ now > covenant.payoutDueAt + Challenge THEN "settleLoss" ELSE "final"

DeliveryNext(seen) ==
    CASE receipt.kind = "timely" /\ seen = "Active" -> "release"
      [] Breached(receipt) /\ seen = "Active" /\ now > deadline -> "markPayoutDue"
      [] Breached(receipt) /\ (seen # "Active" \/ now <= deadline) -> LossNext(seen)
      [] OTHER -> "final"

FeeNext(seen) ==
    IF fee = "Funded" /\ seen # "PendingStart" THEN "finalizeFee" ELSE DeliveryNext(seen)

\* A clock that was not started in time, or not yet.
ReconcileClock ==
    \/ /\ at({"clock"})
       /\ \/ ~RecoveryContext /\ Reading /\ Fail(Reconciler)
          \/ RecoveryContext /\ saw # "PendingStart" /\ Read(FeeNext(saw))
          \/ RecoveryContext /\ saw = "PendingStart" /\ now <= clockCutoff /\ Read("startClock")
          \/ /\ RecoveryContext /\ saw = "PendingStart" /\ now > clockCutoff
             /\ Read(IF fee = "Captured" THEN "rotate" ELSE "expire")
    \/ at({"startClock"}) /\ DoWithReceipt("startClock", "saveClock")
    \/ at({"saveClock"}) /\ Recorded("clockStarted", "rereadClock")
    \/ at({"rereadClock"}) /\ SeeCovenant(FeeNext(covenant.state))
    \/ at({"expire"}) /\ Do("expireUnstarted", "saveExpired")
    \/ /\ at({"saveExpired"})
       /\ Recorded("coverageExpiredUnstarted", IF fee = "Funded" THEN "refundExpired" ELSE "endExpired")
    \/ at({"refundExpired"}) /\ Do("refund", "saveExpiredRefund")
    \/ at({"saveExpiredRefund"}) /\ Recorded("feeRefunded", "endExpired")
    \/ at({"endExpired"}) /\ Read(IF covenant.state = "Released" /\ feeState \in {"None", "Refunded"}
                                  THEN "complete" ELSE "rotate")

\* After the fee, the covenant.
ReconcileDelivery ==
    \/ at({"deliver"}) /\ Read(DeliveryNext(saw))
    \/ at({"release"}) /\ DoWithReceipt("release", "saveReleased")
    \/ at({"saveReleased"}) /\ Recorded("coverageReleased", "final")
    \/ at({"markPayoutDue"}) /\ DoWithReceipt("markPayoutDue", "saveDue")
    \/ at({"saveDue"}) /\ Recorded("payoutDue", "rereadDue")
    \/ at({"rereadDue"}) /\ SeeCovenant(LossNext(covenant.state))
    \/ at({"settleLoss"}) /\ DoWithReceipt("settleNetLoss", "saveSettled")
    \/ at({"saveSettled"}) /\ Recorded("coverageSettled", "final")

SettledForGood == covenant.state \in {"Released", "Paid"} /\ feeState \in {"Captured", "Refunded"}

\* The covenant and the fee are read again, one after the other.
ReconcileEnd ==
    \/ at({"final"}) /\ Read(IF SettledForGood THEN "complete" ELSE "rotate")
    \/ at({"complete"}) /\ Save(Reconciler, CompletedRecord(quotes[Deal]), "rotate")

-------------------------------------------------------------------------------
(* reconcileUnsettled: no payment was found *)

\* Mutant: nobody waits for the authorizations to close.
UnsettledForGoodAtOnce == TRUE

\* The provider's authorization is over, and so is the escrow's refund delay.
UnsettledForGood == now > ValidBefore /\ now >= refundAvailableAt

ReconcileUnsettled ==
    \/ at({"unsettled"}) /\ IF UnsettledForGood THEN SeeCovenant("unsettledFee") ELSE Inspected
    \/ at({"unsettledFee"}) /\ SeeFee(CASE feeState = "Funded" -> "refundUnsettled"
                                        [] feeState = "None" -> "searchOrphan"
                                        [] OTHER -> "cancel")
    \/ at({"refundUnsettled"}) /\ Do("refund", "saveUnsettledRefund")
    \/ at({"saveUnsettledRefund"}) /\ Recorded("feeRefunded", "rereadRefund")
    \/ at({"rereadRefund"}) /\ SeeFee("cancel")
    \/ /\ at({"cancel"})
       /\ \/ fee = "Captured" /\ Inspected
          \/ fee # "Captured" /\ saw \notin {"PendingStart", "Active", "PayoutDue"} /\ Read("endUnsettled")
          \/ /\ fee # "Captured" /\ saw \in {"PendingStart", "Active", "PayoutDue"}
             /\ IF RecoveryContext
                  THEN Transact(Reconciler,
                         [method |-> "cancelUnpaid", searchFrom |-> record.startedAtMs],
                         "saveCancelled")
                  ELSE Reading /\ Fail(Reconciler)
    \/ at({"saveCancelled"}) /\ Recorded("coverageCancelledUnpaid", "endUnsettled")
    \/ at({"endUnsettled"}) /\ Read(IF /\ covenant.state \in {"None", "CancelledUnpaid"}
                                       /\ feeState \in {"None", "Refunded"}
                                    THEN "complete" ELSE "rotate")

ReconcilerStep ==
    \/ ListExecuting \/ FindReceipt
    \/ Recover(Reconciler)
    \/ ReadSettled \/ RecoverOrphanedFee
    \/ ReconcileClock
    \/ FinalizeFee(Reconciler)
    \/ ReconcileDelivery \/ ReconcileEnd
    \/ ReconcileUnsettled
    \/ Rotate

Next == ExecutionNext \/ ReconcilerStep

Spec == ExecutionInit /\ [][Next]_vars

-------------------------------------------------------------------------------
(* Properties *)

Complete == quotes[Deal].state = "complete"

\* The provider is paid only under a covenant that stands and a fee in escrow, and
\* no cancellation, however it raced, ever takes that cover away (invariant 20).
PaidIsCovered == settledAt # 0 => covenant.state # "None" /\ covenant.state # "CancelledUnpaid"
                                  /\ feeState # "None"

\* The treasury takes the fee only for a purchase whose provider was paid and whose
\* clock ran (invariant 22).
CapturedForStartedCover == feeState = "Captured" => settledAt # 0 /\ covenant.startAt # 0

\* A provider that delivered in time is never declared in breach, although its
\* answer may be lost to the runtime (invariant 23).
TimelyNeverInBreach ==
    (\E w \in Worker : forwarded[w] = "timely") => covenant.state \notin {"PayoutDue", "Paid"}

\* An execution leaves the queue only when there is nothing left to do for it: no
\* covenant stands, and no fee of the buyer is held, in the escrow or past it.
CompleteIsSettled ==
    Complete => /\ covenant.state \notin {"PendingStart", "Active", "PayoutDue"}
                /\ feeState # "Funded" /\ (feeUse # "unused" => feeState # "None")
                /\ settledAt # 0 => covenant.state \in {"Released", "Paid"}

Deals == INSTANCE CoverageDeal
           WITH Deal <- {Deal}, coverage <- [d \in {Deal} |-> covenant.state],
                fee <- [d \in {Deal} |-> feeState]

\* Whatever the workers do, the deal's covenant and its fee move as the contracts
\* promise.
ImplementsDeal == Deals!DealSpec
===============================================================================
