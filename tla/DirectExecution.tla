---------------------------- MODULE DirectExecution ----------------------------
(***************************************************************************)
(* The buyer's side of a direct purchase: execute() of                     *)
(* api/lib/direct-a2mcp.js, with the relay's execute() and recover() and   *)
(* the fee's finalizeDirectPolicyFee() it shares with the reconciler.      *)
(*                                                                         *)
(* Several invocations execute one bound quote: the buyer retries, and the *)
(* lease of an execution runs out while its holder still works.  A step is *)
(* what happens between two awaits.  An invocation may stop anywhere, a    *)
(* call may fail, a transaction may be mined after its sender gave up.     *)
(* Saving in the record is a read and a write (DirectA2mcpStore).          *)
(***************************************************************************)
EXTENDS ProviderRelay

CONSTANTS
    Buyer               \* invocations of the buyer's endpoint

ASSUME BuyerAssumption == Buyer \subseteq Worker

VARIABLES
    task                \* where each worker is, and what it holds

vars == <<now, storeVars, chainVars, relayVars, task>>

\* sent: the copy of the record is on its way to the script; saw and fee: the
\* covenant and the fee as last read; posts: how many of the provider's addresses its
\* paid request went to; result: the relay's signed receipt; copy: the record the
\* worker works with.
Task == [pc : STRING, sent : BOOLEAN, saw : STRING, fee : STRING,
         sentAt : Nat, posts : Nat, result : Receipt \cup {NoReceipt}, copy : QuoteRecord]

At(pc) == [pc |-> pc, sent |-> FALSE, saw |-> "None", fee |-> "None",
           sentAt |-> 0, posts |-> 0, result |-> NoReceipt, copy |-> NoQuote]

pc(w) == task[w].pc

\* The relay grant of the record the worker holds.
grant(w) == task[w].copy.relayGrant

\* Of a record that is held, the lease is not looked at.
Goto(w, next) ==
    task' = [task EXCEPT ![w] =
        IF next = "done" THEN At("done")
        ELSE [@ EXCEPT !.pc = next, !.sent = FALSE, !.copy.leaseExpiresAtMs = 0]]

Finish(w) == Goto(w, "done")

\* The catch of execute, the finally of the reconciler.
Fail(w) == task' = [task EXCEPT ![w] = At("failing")]

\* The record is read, and the next one on its way.
Prepare(w, record) == task' = [task EXCEPT ![w].copy = record, ![w].sent = TRUE]

Saw(w, next) == task' = [task EXCEPT ![w].saw = covenant.state, ![w].pc = next]

Reading == UNCHANGED <<now, storeVars, chainVars, relayVars>>

\* A service that does not answer: the chain's state is what it was.
Unanswered == Fault /\ UNCHANGED <<covenant, feeState, feeUse, settledAt, mempool>>

-------------------------------------------------------------------------------
(* Steps that both sides take *)

\* Saving record in the store: read and prepared, then written by UPDATE_SCRIPT.
Save(w, record, next) ==
    /\ UNCHANGED <<now, relayVars>>
    /\ \/ /\ ~task[w].sent /\ quotes[Deal].state = "executing"
          /\ Prepare(w, record) /\ UNCHANGED <<storeVars, chainVars>>
       \/ /\ task[w].sent /\ ScriptUpdate(Deal, task[w].copy) /\ UNCHANGED chainVars
          /\ Goto(w, next)
       \/ quotes[Deal].state # "executing" /\ UNCHANGED <<storeVars, chainVars>> /\ Fail(w)
       \/ ~task[w].sent /\ UNCHANGED storeVars /\ Unanswered /\ Fail(w)

\* What the stage is saved with: the buyer's checkpoint renews the lease.
StageRecord(w, stage) ==
    IF w \in Buyer THEN CheckpointRecord(quotes[Deal], stage)
                   ELSE ReconcileCheckpointRecord(quotes[Deal], stage)

Checkpoint(w, stage, next) == Save(w, StageRecord(w, stage), next)

\* A call of a contract, with its evidence.
Transact(w, c, next) ==
    /\ UNCHANGED <<now, storeVars, relayVars>>
    /\ \/ CallSucceeds(c) /\ Goto(w, next)
       \/ CallFails(c) /\ Fail(w)

\* relay.recover: the receipt on record, else one made from the payment on chain.
\* Two recoveries of one grant make the same receipt.
Recover(w) ==
    \/ /\ pc(w) \in {"recover", "recoverAgain"}
       /\ Reading
       /\ \/ relayReceipt # NoReceipt /\ Mismatched(grant(w)) /\ Fail(w)
          \/ /\ relayReceipt # NoReceipt /\ ~Mismatched(grant(w))
             /\ task' = [task EXCEPT ![w].result = relayReceipt, ![w].pc = "settled"]
          \/ relayReceipt = NoReceipt /\ pc(w) = "recover" /\ Goto(w, "search")
          \/ relayReceipt = NoReceipt /\ pc(w) = "recoverAgain" /\ Fail(w)
    \/ /\ pc(w) = "search"
       /\ Reading
       /\ \/ /\ SettlementFound(grant(w).issuedAt)
             /\ task' = [task EXCEPT ![w].result = RecoveredReceipt(grant(w)),
                                     ![w].pc = "commitRecovery"]
          \/ /\ ~SettlementFound(grant(w).issuedAt)
             /\ Goto(w, "unsettled")
    \/ /\ pc(w) = "commitRecovery"
       /\ UNCHANGED <<now, storeVars, chainVars>>
       /\ \/ /\ CommitRelayExecutionReceipt(grant(w), task[w].result)
             /\ Goto(w, "settled")
          \/ /\ ~CanCommit(grant(w), task[w].result)
             /\ UNCHANGED relayVars
             /\ Goto(w, "reserveRecovery")
    \/ /\ pc(w) = "reserveRecovery"
       /\ UNCHANGED <<now, storeVars, chainVars>>
       /\ \/ ReserveRelayExecution(grant(w)) /\ Goto(w, "recommitRecovery")
          \/ ~CanReserve(grant(w)) /\ UNCHANGED relayVars /\ Goto(w, "recoverAgain")
    \/ /\ pc(w) = "recommitRecovery"
       /\ UNCHANGED <<now, storeVars, chainVars>>
       /\ \/ /\ CommitRelayExecutionReceipt(grant(w), task[w].result)
             /\ Goto(w, "settled")
          \/ /\ ~CanCommit(grant(w), task[w].result)
             /\ UNCHANGED relayVars
             /\ Fail(w)

\* directPolicyFeeSettlementAction, of a funded fee
SettlementAction == IF now >= refundAvailableAt THEN "refund" ELSE "capture"

\* finalizeDirectPolicyFee: a capture that fails at the refund boundary falls
\* through to one refund; whoever resolved the fee meanwhile, that is accepted.
FinalizeFee(w) ==
    \/ /\ pc(w) = "finalizeFee"
       /\ Reading
       /\ \/ feeState = "None" /\ Fail(w)
          \/ feeState = "Funded" /\ Goto(w, SettlementAction)
          \/ feeState \in {"Captured", "Refunded"} /\ Goto(w, "saveFee")
    \/ /\ pc(w) = "capture"
       /\ UNCHANGED <<now, storeVars, relayVars>>
       /\ LET c == [method |-> "capture", receipt |-> task[w].result] IN
          \/ CallSucceeds(c) /\ Goto(w, "saveFee")
          \/ CallFails(c) /\ Goto(w, "captureFailed")
    \/ /\ pc(w) = "refund"
       /\ UNCHANGED <<now, storeVars, relayVars>>
       /\ \/ CallSucceeds([method |-> "refund"]) /\ Goto(w, "saveFee")
          \/ CallFails([method |-> "refund"]) /\ Goto(w, "refundFailed")
    \/ /\ pc(w) \in {"captureFailed", "refundFailed"}
       /\ Reading
       /\ \/ feeState # "Funded" /\ Goto(w, "saveFee")
          \/ /\ feeState = "Funded" /\ pc(w) = "captureFailed" /\ SettlementAction = "refund"
             /\ Goto(w, "refund")
          \/ /\ feeState = "Funded" /\ ~(pc(w) = "captureFailed" /\ SettlementAction = "refund")
             /\ Fail(w)
    \/ /\ pc(w) = "saveFee"
       /\ LET stage == IF feeState = "Captured" THEN "feeCaptured" ELSE "feeRefunded" IN
          IF stage \in task[w].copy.stages /\ ~task[w].sent
            THEN Reading /\ task' = [task EXCEPT ![w].fee = feeState, ![w].pc = "deliver"]
            ELSE Checkpoint(w, stage, "saveFee")

-------------------------------------------------------------------------------
(* execute: claiming the execution *)

\* A fresh execution needs a full enrollment window before the authorizations close.
Start(w) ==
    /\ pc(w) = "start"
    /\ Reading
    /\ \/ /\ Resolvable(Deal)
          /\ quotes[Deal].state = "bound" => ValidBefore >= now + EnrollmentWindow
          /\ Goto(w, "claim")
       \/ /\ Resolvable(Deal) => quotes[Deal].state = "bound" /\ ValidBefore < now + EnrollmentWindow
          /\ Finish(w)

\* An error is thrown to the buyer; a complete record is its answer.
Claim(w) ==
    /\ pc(w) = "claim"
    /\ UNCHANGED <<now, chainVars, relayVars>>
    /\ \/ /\ ~task[w].sent /\ Resolvable(Deal)
          /\ Prepare(w, ClaimedRecord(quotes[Deal])) /\ UNCHANGED storeVars
       \/ task[w].sent /\ ScriptClaim(Deal, task[w].copy) /\ Goto(w, "retain")
       \/ /\ IF task[w].sent THEN ~Claimable(Deal, task[w].copy) ELSE ~Resolvable(Deal)
          /\ UNCHANGED storeVars
          /\ Finish(w)

\* retainRecovery, unless the envelope is there already.
Retain(w) ==
    /\ pc(w) = "retain"
    /\ IF ~task[w].sent /\ quotes[Deal].state = "executing" /\ quotes[Deal].recovery
         THEN /\ Reading
              /\ task' = [task EXCEPT ![w].copy = quotes[Deal], ![w].pc = "readCovenant"]
         ELSE Save(w, RetainedRecord(quotes[Deal]), "readCovenant")

-------------------------------------------------------------------------------
(* execute: covenant, fee and grant *)

Issue(w) ==
    LET stages == task[w].copy.stages IN
    \/ /\ pc(w) = "readCovenant"
       /\ Reading
       /\ \/ covenant.state = "None" /\ now >= task[w].copy.startedAtMs + EnrollmentWindow /\ Fail(w)
          \/ covenant.state = "None" /\ now < task[w].copy.startedAtMs + EnrollmentWindow /\ Goto(w, "issue")
          \/ /\ covenant.state # "None"
             /\ Saw(w, IF "covenantIssued" \in stages THEN "readFee" ELSE "saveIssued")
    \/ /\ pc(w) = "issue"
       /\ Transact(w, [method |-> "issue", startedAt |-> task[w].copy.startedAtMs], "saveIssued")
    \/ /\ pc(w) = "saveIssued"
       /\ Checkpoint(w, "covenantIssued", IF task[w].saw = "None" THEN "rereadCovenant" ELSE "readFee")
    \/ pc(w) = "rereadCovenant" /\ Reading /\ Saw(w, "readFee")

AfterFunding(w) == IF grant(w) = NoGrant THEN "grant" ELSE "recover"

Fund(w) ==
    \/ /\ pc(w) \in {"readFee", "rereadFee"}
       /\ Reading
       /\ \/ feeState = "None" /\ pc(w) = "readFee" /\ Goto(w, "fund")
          \/ feeState = "None" /\ pc(w) = "rereadFee" /\ Fail(w)
          \/ /\ feeState # "None"
             /\ task' = [task EXCEPT ![w].fee = feeState,
                   ![w].pc = IF "feeFunded" \in task[w].copy.stages THEN AfterFunding(w) ELSE "saveFunded"]
    \/ pc(w) = "fund" /\ Transact(w, [method |-> "fund"], "saveFunded")
    \/ /\ pc(w) = "saveFunded"
       /\ Checkpoint(w, "feeFunded", IF task[w].fee = "None" THEN "rereadFee" ELSE AfterFunding(w))

\* The grant of an earlier invocation is used again.
GrantRelay(w) ==
    /\ pc(w) = "grant"
    /\ IF task[w].sent \/ GrantAlive
         THEN Save(w, GrantedRecord(quotes[Deal], IssuedGrant(w)), "recover")
         ELSE Reading /\ Fail(w)

-------------------------------------------------------------------------------
(* execute: the provider's payment *)

\* fetchPinnedEndpoint: a connection that breaks, whatever the provider has read by
\* then, is followed by the same paid request to the next address.  What breaks
\* before the request is sent is left out; a timeout ends the call.
PostToNextAddress(w) ==
    /\ task[w].posts < Addresses
    /\ task' = [task EXCEPT ![w].posts = @ + 1]

\* No settlement was found: is the payment forwarded?
MayForward(w) ==
    task[w].saw # "CancelledUnpaid" /\ task[w].fee # "Refunded" /\ GrantAlive

Forward(w) ==
    LET g == grant(w) IN
    \/ /\ pc(w) = "unsettled"
       /\ UNCHANGED <<now, storeVars, relayVars>>
       /\ \/ MayForward(w) /\ UNCHANGED chainVars /\ Goto(w, "reserve")
          \/ ~MayForward(w) /\ UNCHANGED chainVars /\ Fail(w)
          \/ Unanswered /\ Fail(w)
    \/ /\ pc(w) = "reserve"
       /\ UNCHANGED <<now, storeVars, chainVars>>
       /\ \/ GrantAlive /\ ReserveRelayExecution(g) /\ Goto(w, "send")
          \/ ~(GrantAlive /\ CanReserve(g)) /\ UNCHANGED relayVars /\ Fail(w)
    \/ /\ pc(w) = "send"
       /\ UNCHANGED <<now, storeVars, chainVars, grantClaim, paymentClaim, claimsExpireAt, relayReceipt>>
       /\ Answered(w, "sent")
       /\ task' = [task EXCEPT ![w].sentAt = now, ![w].posts = 1, ![w].pc = "await"]
    \/ /\ pc(w) = "await"
       /\ UNCHANGED <<now, storeVars, grantClaim, paymentClaim, claimsExpireAt, relayReceipt>>
       /\ \/ Answered(w, "unpaid") /\ UNCHANGED chainVars /\ Goto(w, "releaseClaims")
          \/ UNCHANGED <<forwarded, chainVars>> /\ PostToNextAddress(w)
          \/ UNCHANGED forwarded /\ Unanswered /\ Fail(w)
          \/ /\ settledAt # 0 /\ UNCHANGED chainVars
             /\ \E kind \in Answers(task[w].sentAt) :
                   /\ Answered(w, kind)
                   /\ task' = [task EXCEPT ![w].pc = "commit", ![w].sentAt = 0, ![w].posts = 0,
                                  ![w].result = PaidReceipt(kind, g, task[w].sentAt)]
    \/ /\ pc(w) = "releaseClaims"
       /\ UNCHANGED <<now, storeVars, chainVars>>
       /\ ReleaseRelayExecution(g)
       /\ Fail(w)
    \/ /\ pc(w) = "commit"
       /\ UNCHANGED <<now, storeVars, chainVars>>
       /\ \/ CommitRelayExecutionReceipt(g, task[w].result) /\ Goto(w, "settled")
          \/ ~CanCommit(g, task[w].result) /\ UNCHANGED relayVars /\ Fail(w)

-------------------------------------------------------------------------------
(* execute: the clock, the fee and the covenant's end *)

StartClock(w) ==
    \/ /\ pc(w) = "settled"
       /\ \/ task[w].saw = "CancelledUnpaid" /\ Reading /\ Fail(w)
          \/ task[w].saw # "CancelledUnpaid" /\ Checkpoint(w, "providerSettled", "readClock")
    \/ /\ pc(w) \in {"readClock", "rereadClock"}
       /\ Reading
       /\ \/ covenant.state = "PendingStart" /\ pc(w) = "readClock" /\ Goto(w, "startClock")
          \/ covenant.state = "PendingStart" /\ pc(w) = "rereadClock" /\ Fail(w)
          \/ covenant.state = "None" /\ Fail(w)
          \/ /\ covenant.state \notin {"None", "PendingStart"}
             /\ Saw(w, IF "clockStarted" \in task[w].copy.stages THEN "finalizeFee" ELSE "saveClockSeen")
    \/ /\ pc(w) = "startClock"
       /\ Transact(w, [method |-> "startClock", receipt |-> task[w].result], "saveClock")
    \/ pc(w) = "saveClock" /\ Checkpoint(w, "clockStarted", "rereadClock")
    \/ pc(w) = "saveClockSeen" /\ Checkpoint(w, "clockStarted", "finalizeFee")

\* The provider was paid, and nobody knows what it answered.
Indeterminate(r) == r.kind = "recovery"

Deliver(w) ==
    LET r == task[w].result IN
    \/ /\ pc(w) = "deliver"
       /\ Reading
       /\ \/ r.kind = "timely" /\ covenant.state = "Active" /\ Goto(w, "release")
          \/ r.kind = "timely" /\ covenant.state = "Released" /\ Goto(w, "complete")
          \/ r.kind = "timely" /\ covenant.state \notin {"Active", "Released"} /\ Fail(w)
          \/ Indeterminate(r) /\ Goto(w, "yield")
          \/ /\ r.kind # "timely" /\ ~Indeterminate(r)
             /\ Goto(w, IF covenant.state \in {"Released", "Paid"} THEN "complete" ELSE "yield")
    \/ pc(w) = "release" /\ Transact(w, [method |-> "release", receipt |-> r], "saveReleased")
    \/ pc(w) = "saveReleased" /\ Checkpoint(w, "coverageReleased", "rereadReleased")
    \/ /\ pc(w) = "rereadReleased"
       /\ Reading
       /\ IF covenant.state = "Released" THEN Goto(w, "complete") ELSE Fail(w)
    \/ pc(w) = "complete" /\ Save(w, CompletedRecord(quotes[Deal]), "done")
    \/ pc(w) = "yield" /\ Save(w, YieldedRecord(quotes[Deal]), "done")

-------------------------------------------------------------------------------
(* The catch: an execution that did something irreversible is left in the queue *)

Recede(w) ==
    \/ /\ pc(w) = "failing"
       /\ Reading
       /\ \/ quotes[Deal].state # "executing" /\ Finish(w)
          \/ /\ quotes[Deal].state = "executing"
             /\ Goto(w, IF quotes[Deal].stages = {} THEN "releaseQuote" ELSE "yieldQuote")
    \/ /\ pc(w) \in {"releaseQuote", "yieldQuote"}
       /\ UNCHANGED <<now, chainVars, relayVars>>
       /\ \/ /\ ~task[w].sent
             /\ Prepare(w, IF pc(w) = "yieldQuote" THEN YieldedRecord(quotes[Deal])
                                                   ELSE ReleasedRecord(quotes[Deal]))
             /\ UNCHANGED storeVars
          \/ /\ task[w].sent
             /\ IF pc(w) = "yieldQuote" THEN ScriptUpdate(Deal, task[w].copy)
                                        ELSE ScriptRelease(Deal, task[w].copy)
             /\ Finish(w)
          \/ task[w].sent /\ UNCHANGED storeVars /\ Finish(w)

BuyerStep(w) ==
    \/ Start(w) \/ Claim(w) \/ Retain(w)
    \/ Issue(w) \/ Fund(w) \/ GrantRelay(w)
    \/ Recover(w) \/ Forward(w)
    \/ StartClock(w) \/ FinalizeFee(w) \/ Deliver(w)
    \/ Recede(w)
-------------------------------------------------------------------------------
(* A purchase without the reconciler *)

\* The quote is bound, and nothing has happened yet.
ExecutionInit ==
    /\ StoreInit /\ ChainInit /\ RelayInit
    /\ task = [w \in Worker |-> At("start")]

BuyersNext == \E w \in Buyer : BuyerStep(w)

ProviderNext == ProviderSettles /\ UNCHANGED <<now, storeVars, relayVars, task>>

ChainMoves == ChainNext /\ UNCHANGED <<now, storeVars, relayVars, task>>

Time == Tick /\ UNCHANGED <<chainVars, relayVars, task>>

ExecutionNext == BuyersNext \/ ProviderNext \/ ChainMoves \/ Time

ExecutionSpec == ExecutionInit /\ [][ExecutionNext]_vars

DirectTypeOK ==
    /\ StoreTypeOK /\ ChainTypeOK /\ RelayTypeOK
    /\ \A w \in Worker : task[w].sent \in BOOLEAN /\ task[w].copy \in QuoteRecord

-------------------------------------------------------------------------------
(* Properties *)

\* One invocation takes the buyer's authorization to the provider, and no other one
\* does unless the provider answered that it was not paid: the claims of the grant
\* and of the authorization outlive a lease, and a call that failed.
OneInvocationForwards ==
    \A u, w \in Worker :
        forwarded[u] \notin {"no", "unpaid"} /\ forwarded[w] \notin {"no", "unpaid"} => u = w

\* A signed receipt is never replaced by another one, whichever of two invocations
\* or of a late answer and a recovery comes first (invariant 23).
ReceiptNeverReplaced == [][relayReceipt # NoReceipt => relayReceipt' = relayReceipt]_vars

\* Uncertainty never triggers an automatic paid retry: a request that carries the
\* buyer's authorization is not sent again while the provider's answer to it is
\* unknown (invariant 21).  fetchPinnedEndpoint sends it to the endpoint's next
\* address when the connection breaks, and this fails.
NoAutomaticPaidRetry == \A w \in Worker : task[w].posts <= 1

\* A payment goes to the provider only while its clock can still start: the relay's
\* start must be at or before the on-chain enrollment deadline
\* (docs/UNIVERSAL_COVERAGE_V04.md).  The code checks the deadline only before it
\* issues the covenant, and this fails.
PaidWithinEnrollment == \A w \in Worker : task[w].sentAt # 0 => task[w].sentAt <= covenant.enrollmentExpiresAt
===============================================================================
