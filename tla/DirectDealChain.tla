---------------------------- MODULE DirectDealChain ----------------------------
(***************************************************************************)
(* One direct purchase on chain, as the runtime's clients drive it         *)
(* (api/lib/universal-issuer.js and policy-fee-escrow.js): its covenant,   *)
(* its policy fee and the provider's payment.                              *)
(*                                                                         *)
(* A call goes through the attesters (api/lib/evidence-attester.js), who   *)
(* check the chain and the relay receipt before they sign, and then        *)
(* through the contract's own conditions.  A client waits half a minute    *)
(* for its transaction: one that is mined later is in mempool.             *)
(*                                                                         *)
(* Both authorizations the buyer signs close at the same time: binding     *)
(* takes the fee's from the provider's (direct-a2mcp.js bind).             *)
(***************************************************************************)
EXTENDS DirectA2mcpStore

CONSTANTS
    Deal,               \* the quote of the purchase
    ValidBefore,        \* providerAuthorizationValidBefore = feeValidBefore
    EnrollmentWindow,   \* enrollmentWindowSeconds
    RefundGrace,        \* REFUND_GRACE_PERIOD
    ClockRecovery,      \* CLOCK_START_RECOVERY_PERIOD
    Sla,                \* slaSeconds
    Challenge,          \* SETTLEMENT_CHALLENGE_PERIOD
    LateCall,           \* bound of the model: the calls that may be mined late
    MaxFaults           \* bound of the model: failures that need not have happened

\* A clock that outlasts the fee's refund time, and windows that do not invert.
ASSUME DealAssumption ==
    /\ Deal \in Quote
    /\ ValidBefore \in Nat /\ EnrollmentWindow \in Nat \ {0} /\ Sla \in Nat /\ Challenge \in Nat
    /\ RefundGrace \in Nat /\ ClockRecovery \in Nat /\ RefundGrace <= ClockRecovery
    /\ ValidBefore <= QuoteTtl
    /\ MaxFaults \in Nat

VARIABLES
    covenant,       \* the covenant on the manager
    feeState,       \* the fee on the escrow
    feeUse,         \* who executed the fee's authorization: nobody, the escrow, somebody else
    settledAt,      \* when the provider's authorization was executed, 0 before
    mempool,        \* transactions mined after their sender gave up on them
    faults          \* failures so far

chainVars == <<covenant, feeState, feeUse, settledAt, mempool, faults>>

\* The signed relay receipt a call of the lifecycle is attested with.
Receipt == [kind : {"timely", "late", "recovery"}, grant : Grant, startedAt : Nat, completedAt : Nat]

Call == [method : {"issue"}, startedAt : Nat]
          \cup [method : {"fund", "expireUnstarted", "refund", "refundOrphaned"}]
          \cup [method : {"cancelUnpaid"}, searchFrom : Nat]
          \cup [method : {"startClock", "release", "markPayoutDue", "settleNetLoss", "capture"},
                receipt : Receipt]

NoCovenant == [state |-> "None", issuedAt |-> 0, enrollmentExpiresAt |-> 0, startAt |-> 0,
               payoutDueAt |-> 0]

ChainTypeOK ==
    /\ covenant \in [state : {"None", "PendingStart", "Active", "PayoutDue", "Released", "Paid",
                              "CancelledUnpaid"},
                     issuedAt : Nat, enrollmentExpiresAt : Nat, startAt : Nat, payoutDueAt : Nat]
    /\ feeState \in {"None", "Funded", "Captured", "Refunded"}
    /\ feeUse \in {"unused", "escrow", "direct"}
    /\ settledAt \in Nat
    /\ mempool \subseteq Call /\ faults \in 0 .. MaxFaults

ChainInit ==
    /\ covenant = NoCovenant
    /\ feeState = "None"
    /\ feeUse = "unused"
    /\ settledAt = 0
    /\ mempool = {}
    /\ faults = 0

refundAvailableAt == ValidBefore + RefundGrace
clockCutoff == ValidBefore + ClockRecovery
deadline == covenant.startAt + Sla

-------------------------------------------------------------------------------
(* What the contracts do with a transaction that reaches them *)

\* Mutant: an unstarted covenant expires at any time.
CanExpireAnytime == covenant.state = "PendingStart"

CanExpire == covenant.state = "PendingStart" /\ now > clockCutoff

\* Mutant: a fee is refunded whatever became of it.
CanRefundTwice == now >= refundAvailableAt /\ feeState # "None"

CanRefund == feeState = "Funded" /\ now >= refundAvailableAt

\* The contract's conditions.
Accepted(c) ==
    CASE c.method = "issue" ->
            /\ covenant.state = "None" /\ ValidBefore > now
            /\ c.startedAt + EnrollmentWindow \in now + 1 .. ValidBefore
      [] c.method = "fund" ->
            covenant.state = "PendingStart" /\ feeState = "None" /\ feeUse = "unused" /\ ValidBefore > now
      [] c.method = "startClock" ->
            /\ covenant.state = "PendingStart" /\ now <= clockCutoff
            /\ c.receipt.startedAt \in covenant.issuedAt .. covenant.enrollmentExpiresAt
      [] c.method = "expireUnstarted" -> CanExpire
      [] c.method = "release" ->
            covenant.state \in {"Active", "PayoutDue"} /\ c.receipt.completedAt <= deadline
      [] c.method = "markPayoutDue" -> covenant.state = "Active" /\ now > deadline
      [] c.method = "settleNetLoss" ->
            covenant.state = "PayoutDue" /\ now > covenant.payoutDueAt + Challenge
      [] c.method = "cancelUnpaid" ->
            covenant.state \in {"PendingStart", "Active", "PayoutDue"} /\ now > ValidBefore
      [] c.method = "capture" ->
            /\ feeState = "Funded" /\ now < refundAvailableAt
            /\ covenant.state \notin {"None", "PendingStart", "CancelledUnpaid"}
      [] c.method = "refund" -> CanRefund
      [] c.method = "refundOrphaned" ->
            feeState = "None" /\ feeUse = "direct" /\ covenant.state # "None" /\ now >= refundAvailableAt

Mined(c) ==
    /\ Accepted(c)
    /\ covenant' =
          CASE c.method = "issue" ->
                  [NoCovenant EXCEPT !.state = "PendingStart", !.issuedAt = now,
                     !.enrollmentExpiresAt = c.startedAt + EnrollmentWindow]
            [] c.method = "startClock" ->
                  [covenant EXCEPT !.state = "Active", !.startAt = c.receipt.startedAt]
            [] c.method \in {"expireUnstarted", "release"} -> [covenant EXCEPT !.state = "Released"]
            [] c.method = "markPayoutDue" ->
                  [covenant EXCEPT !.state = "PayoutDue", !.payoutDueAt = now]
            [] c.method = "settleNetLoss" -> [covenant EXCEPT !.state = "Paid"]
            [] c.method = "cancelUnpaid" -> [covenant EXCEPT !.state = "CancelledUnpaid"]
            [] OTHER -> covenant
    /\ feeState' = CASE c.method = "fund" -> "Funded"
                     [] c.method = "capture" -> "Captured"
                     [] c.method \in {"refund", "refundOrphaned"} -> "Refunded"
                     [] OTHER -> feeState
    /\ feeUse' = IF c.method = "fund" THEN "escrow" ELSE feeUse

-------------------------------------------------------------------------------
(* What the attesters sign *)

\* verifyLifecycle: of a receipt in hand, with a fee on record and the provider
\* paid.  A breach is not of a timely delivery.
LifecycleAttested(c) ==
    /\ feeState # "None" /\ settledAt # 0
    /\ c.method = "startClock" => covenant.state = "PendingStart"
    /\ c.method = "release" => c.receipt.kind = "timely" /\ c.receipt.completedAt <= deadline
    /\ c.method = "markPayoutDue" =>
          covenant.state = "Active" /\ now > deadline /\ c.receipt.kind # "timely"
    /\ c.method = "settleNetLoss" => covenant.state = "PayoutDue"
    /\ c.method = "capture" => feeState = "Funded" /\ covenant.state # "PendingStart"

\* findProviderSettlement: the search looks from a time the caller names, so it
\* may miss a payment that was made.
SettlementFound(from) == settledAt # 0 /\ settledAt >= from

\* Mutant: nobody asks whether the provider was paid.
CancelAttestedUnsearched(searchFrom) ==
    /\ covenant.state \in {"PendingStart", "Active", "PayoutDue"}
    /\ searchFrom < ValidBefore /\ ValidBefore < now

\* cancel_unpaid: the token itself has not executed the provider's authorization,
\* and has executed the fee's exactly if the escrow refunded it.
CancelAttested(searchFrom) ==
    /\ covenant.state \in {"PendingStart", "Active", "PayoutDue"}
    /\ \/ feeState = "None" /\ feeUse = "unused"
       \/ feeState = "Refunded" /\ feeUse # "unused"
    /\ searchFrom < ValidBefore /\ ValidBefore < now
    /\ settledAt = 0

Attested(c) ==
    CASE c.method = "issue" -> settledAt = 0 /\ feeUse = "unused" /\ now < ValidBefore
      [] c.method = "cancelUnpaid" -> CancelAttested(c.searchFrom)
      [] c.method = "refundOrphaned" ->
            feeState = "None" /\ feeUse = "direct" /\ now >= refundAvailableAt
      [] c.method \in {"fund", "expireUnstarted", "refund"} -> TRUE
      [] OTHER -> LifecycleAttested(c)

-------------------------------------------------------------------------------
(* A client's call, and the rest of the chain *)

\* attestedWrite and write: attested, sent, mined and reported.
CallSucceeds(c) == Attested(c) /\ Mined(c) /\ UNCHANGED <<settledAt, mempool, faults>>

\* Something went wrong that need not have.
Fault == faults < MaxFaults /\ faults' = faults + 1

\* Not attested or reverted; or lost on the way; or sent and not seen mined in time.
CallFails(c) ==
    /\ UNCHANGED <<covenant, feeState, feeUse, settledAt>>
    /\ \/ ~(Attested(c) /\ Accepted(c)) /\ UNCHANGED <<mempool, faults>>
       \/ Fault /\ UNCHANGED mempool
       \/ /\ c.method \in LateCall /\ Attested(c) /\ Accepted(c)
          /\ Fault /\ mempool' = mempool \cup {c}

\* A transaction its sender gave up on is mined after all, or never.
LateTransaction ==
    /\ \E c \in mempool :
          /\ Mined(c) \/ UNCHANGED <<covenant, feeState, feeUse>>
          /\ mempool' = mempool \ {c}
    /\ UNCHANGED <<settledAt, faults>>

\* Anybody executes the fee's authorization past the escrow, expires an unstarted
\* covenant or has a fee refunded.
FeePaidDirectly ==
    /\ feeUse = "unused" /\ now < ValidBefore
    /\ feeUse' = "direct"
    /\ Fault
    /\ UNCHANGED <<covenant, feeState, settledAt, mempool>>

Permissionless ==
    \E m \in {"expireUnstarted", "refund"} : Mined([method |-> m]) /\ UNCHANGED <<settledAt, mempool, faults>>

ChainNext == LateTransaction \/ FeePaidDirectly \/ Permissionless
===============================================================================
