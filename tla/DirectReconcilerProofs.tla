------------------------- MODULE DirectReconcilerProofs -------------------------
(***************************************************************************)
(* The safety of a direct purchase, for any number of invocations, any     *)
(* windows, any calls mined late and any number of faults.                 *)
(*                                                                         *)
(* What a worker may rely on where it stands is written as an annotation   *)
(* of its program counter (Knows): facts about the record and the receipt  *)
(* it holds, and facts about the chain that no other actor takes back.     *)
(* The proof is in three parts.  Every step moves the chain in one of a    *)
(* few ways (ChainMove), which keep the chain's own invariant and whatever *)
(* is final; every step of a worker establishes its next annotation; and   *)
(* the annotations of the others, being about what is final, stand.        *)
(***************************************************************************)
EXTENDS DirectReconciler, TLAPS

-------------------------------------------------------------------------------
(* What is final *)

\* The provider answered the buyer's request late.
LateAnswered == \E u \in Worker : forwarded[u] = "late"

Resolved == feeState \in {"Captured", "Refunded"}

\* Both authorizations are over, and no fee is out of the escrow's books.
NoFeeAstray == now > ValidBefore /\ (feeUse # "unused" => feeState # "None")

\* The end of a purchase whose provider was not paid.
UndoneForGood ==
    /\ NoFeeAstray
    /\ covenant.state \in {"None", "CancelledUnpaid"} /\ feeState \in {"None", "Refunded"}

Ended == SettledForGood \/ UndoneForGood

-------------------------------------------------------------------------------
(* What a worker knows where it stands *)

CovenantState == {"None", "PendingStart", "Active", "PayoutDue", "Released", "Paid",
                  "CancelledUnpaid"}
FeeState == {"None", "Funded", "Captured", "Refunded"}

GrantPcs == {"recover", "search", "commitRecovery", "reserveRecovery", "recommitRecovery",
             "recoverAgain"}

ForwardPcs == {"unsettled", "reserve", "send", "await", "commit", "releaseClaims"}

\* The buyer's steps before it has a receipt, and after the fee was funded.
FundedPcs == {"saveFunded", "rereadFee", "grant"} \cup GrantPcs \cup ForwardPcs

\* The steps that use a receipt.
ReceiptPcs == {"commitRecovery", "reserveRecovery", "recommitRecovery", "commit", "settled",
               "readClock", "rereadClock", "startClock", "saveClock", "saveClockSeen",
               "finalizeFee", "capture", "refund", "captureFailed", "refundFailed", "saveFee",
               "deliver", "release", "saveReleased", "rereadReleased",
               "settledFee", "clock", "expire", "saveExpired", "refundExpired",
               "saveExpiredRefund", "endExpired", "markPayoutDue", "saveDue", "rereadDue",
               "settleLoss", "saveSettled", "final"}

\* The buyer's steps after the provider answered it.
AnsweredPcs == {"commit", "releaseClaims", "settled", "readClock", "rereadClock", "startClock",
                "saveClock", "saveClockSeen", "finalizeFee", "capture", "refund",
                "captureFailed", "refundFailed", "saveFee", "deliver", "release",
                "saveReleased", "rereadReleased", "complete", "yield",
                "failing", "releaseQuote", "yieldQuote", "done"}

\* The buyer's steps after the fee was settled.
ResolvedPcs == {"saveFee", "deliver", "release", "saveReleased", "rereadReleased"}

OrphanPcs == {"searchOrphan", "refundOrphan", "saveOrphan", "rereadOrphan"}
RefundPcs == {"refundUnsettled", "saveUnsettledRefund", "rereadRefund"}
CancelPcs == {"cancel", "saveCancelled", "endUnsettled"}

\* The steps that save the record.
SavingPcs == {"claim", "retain", "saveIssued", "saveFunded", "grant", "settled", "saveFee",
              "saveClock", "saveClockSeen", "saveReleased", "complete", "yield",
              "releaseQuote", "yieldQuote", "saveOrphan", "saveExpired", "saveExpiredRefund",
              "saveDue", "saveSettled", "saveUnsettledRefund", "saveCancelled"}

\* Every step of the buyer and of the reconciler.
Pcs == FundedPcs \cup ReceiptPcs \cup AnsweredPcs \cup OrphanPcs \cup RefundPcs \cup CancelPcs
         \cup {"start", "claim", "retain", "readCovenant", "issue", "saveIssued",
               "rereadCovenant", "readFee", "fund", "findReceipt", "rotate", "unsettledFee"}

TypedTask == [pc : Pcs, sent : BOOLEAN, saw : CovenantState, fee : FeeState,
              sentAt : Nat, posts : Nat, result : Receipt \cup {NoReceipt}, copy : QuoteRecord]

\* The grant g and the receipt r it holds at n.
HoldsAt(w, n, g, r) ==
    /\ n \in GrantPcs \/ (w \in Buyer /\ n \in ForwardPcs) => g # NoGrant
    /\ n \in ReceiptPcs => r # NoReceipt
    /\ n = "markPayoutDue" => r.kind = "late"

\* The chain at n, as it will stay.
ChainAt(w, n, r) ==
    /\ w \in Buyer /\ n \in FundedPcs => feeState # "None"
    /\ w \in Buyer /\ n \in ResolvedPcs => Resolved
    /\ n = "unsettledFee" => now > ValidBefore
    /\ n \in OrphanPcs /\ r = NoReceipt => now > ValidBefore
    /\ n \in RefundPcs => now > ValidBefore /\ feeState # "None"
    /\ n \in CancelPcs => NoFeeAstray
    /\ n = "complete" => Ended

\* Its own request to the provider at n.
RequestAt(w, n) ==
    /\ forwarded[w] # "no" => w \in Buyer /\ n \in AnsweredPcs \cup {"await"}
    /\ forwarded[w] \notin {"no", "sent"} => n # "await"
    /\ w \in Buyer /\ n = "releaseClaims" => forwarded[w] = "unpaid"

Fits(w, n, g, r) == HoldsAt(w, n, g, r) /\ ChainAt(w, n, r) /\ RequestAt(w, n)

\* A receipt is made for a payment that was made.
Earned(r) == r # NoReceipt => settledAt # 0 /\ (r.kind = "late" => LateAnswered)

\* Of a settlement, only the buyer's side saves that it was found.
MaySave(w) == pc(w) \in SavingPcs /\ (pc(w) = "settled" => w \in Buyer)

\* The record on its way to the script.
Sending(w) ==
    task[w].sent =>
        /\ MaySave(w)
        /\ pc(w) = "grant" => grant(w) # NoGrant
        /\ task[w].copy.state = "complete" => Complete \/ Ended

Knows(w) ==
    /\ Fits(w, pc(w), grant(w), task[w].result)
    /\ Earned(task[w].result)
    /\ Sending(w)

-------------------------------------------------------------------------------
(* The invariant *)

DirectTypes ==
    /\ now \in Nat /\ now # 0
    /\ quotes \in [Quote -> QuoteRecord]
    /\ ChainTypeOK /\ RelayTypeOK
    /\ task \in [Worker -> TypedTask]

\* What a call that may still be mined rests on.
Backed(c) ==
    /\ c.method = "cancelUnpaid" => settledAt = 0 /\ now > ValidBefore
    /\ c.method = "capture" => settledAt # 0
    /\ c.method = "markPayoutDue" => LateAnswered

CovenantInv ==
    /\ covenant.state # "None" => covenant.issuedAt # 0
    /\ covenant.state \in {"Active", "PayoutDue", "Paid"} => covenant.startAt # 0
    /\ covenant.state = "Released" => covenant.startAt # 0 \/ now > clockCutoff
    /\ covenant.state = "CancelledUnpaid" => settledAt = 0 /\ now > ValidBefore
    /\ covenant.state \in {"PayoutDue", "Paid"} => LateAnswered

FeeInv ==
    /\ feeState # "None" => covenant.state # "None"
    /\ settledAt # 0 => feeState # "None"
    /\ (\E w \in Worker : forwarded[w] # "no") => feeState # "None"
    /\ CapturedForStartedCover

MempoolInv == \A c \in mempool : Backed(c)

ReceiptInv ==
    /\ relayReceipt # NoReceipt => paymentClaim = "consumed"
    /\ Earned(relayReceipt)

\* Who forwards, or has forwarded and was not refused.
Holder(w) ==
    /\ w \in Buyer
    /\ \/ pc(w) \in {"send", "await", "releaseClaims"}
       \/ forwarded[w] \notin {"no", "unpaid"}

ClaimInv ==
    /\ paymentClaim = "pending" => claimsExpireAt >= ValidBefore
    /\ \A w \in Worker : Holder(w) /\ now < ValidBefore => paymentClaim # "free"
    /\ \A u, w \in Worker : Holder(u) /\ Holder(w) => u = w

EndInv == Complete => Ended

DirectInv ==
    /\ DirectTypes
    /\ CovenantInv /\ FeeInv /\ MempoolInv
    /\ ReceiptInv /\ ClaimInv
    /\ \A w \in Worker : Knows(w)
    /\ EndInv

-------------------------------------------------------------------------------
(* The chain *)

\* What a worker's step does to the chain: nothing, or one backed call.
Sends(c) ==
    \/ Mined(c) /\ UNCHANGED <<settledAt, mempool, faults>>
    \/ UNCHANGED <<covenant, feeState, feeUse, settledAt>> /\ mempool' = mempool \cup {c}

Quiet == UNCHANGED <<covenant, feeState, feeUse, settledAt, mempool>>

Calls == Quiet \/ \E c \in Call : Backed(c) /\ Sends(c)

\* What stays: of the clock, the chain and the provider's answers.
Lasting ==
    /\ now \in Nat /\ now' \in Nat /\ now <= now'
    /\ feeState # "None" => feeState' # "None"
    /\ Resolved => Resolved'
    /\ NoFeeAstray => NoFeeAstray'
    /\ Ended => Ended'
    /\ settledAt # 0 => settledAt' # 0
    /\ LateAnswered => LateAnswered'

\* The part of the invariant that calls move.
ChainInv == ChainTypeOK /\ CovenantInv /\ FeeInv /\ MempoolInv

\* The last cover of an answered provider is its own.
AnswersLast ==
    /\ LateAnswered => LateAnswered'
    /\ (\E w \in Worker : forwarded'[w] # "no") => feeState # "None"

(* Every call has one of the methods. *)
LEMMA CallMethods ==
    ASSUME NEW c \in Call
    PROVE  /\ c.method \in {"issue", "fund", "startClock", "expireUnstarted", "release",
                            "markPayoutDue", "settleNetLoss", "cancelUnpaid", "capture",
                            "refund", "refundOrphaned"}
           /\ c.method = "issue" => c.startedAt \in Nat
           /\ c.method \in {"startClock", "release", "markPayoutDue", "settleNetLoss", "capture"}
                => c.receipt \in Receipt
BY DEF Call

(* What a mined call leaves of the covenant and of the fee, by its method. *)
LEMMA MinedMoves ==
    ASSUME DirectTypes, NEW c \in Call, Mined(c)
    PROVE  /\ covenant' \in [state : {"None", "PendingStart", "Active", "PayoutDue", "Released",
                                      "Paid", "CancelledUnpaid"},
                             issuedAt : Nat, enrollmentExpiresAt : Nat, startAt : Nat,
                             payoutDueAt : Nat]
           /\ feeState' \in {"None", "Funded", "Captured", "Refunded"}
           /\ feeUse' \in {"unused", "escrow", "direct"}
           /\ c.method = "issue" =>
                /\ covenant.state = "None" /\ covenant'.state = "PendingStart"
                /\ covenant'.issuedAt = now /\ now < ValidBefore
           /\ c.method = "startClock" =>
                /\ covenant.state = "PendingStart" /\ covenant'.state = "Active"
                /\ covenant'.issuedAt = covenant.issuedAt
                /\ covenant'.startAt >= covenant.issuedAt
           /\ c.method \notin {"issue", "startClock"} =>
                covenant'.issuedAt = covenant.issuedAt /\ covenant'.startAt = covenant.startAt
           /\ c.method = "expireUnstarted" =>
                covenant.state = "PendingStart" /\ covenant'.state = "Released" /\ now > clockCutoff
           /\ c.method = "release" =>
                covenant.state \in {"Active", "PayoutDue"} /\ covenant'.state = "Released"
           /\ c.method = "markPayoutDue" =>
                covenant.state = "Active" /\ covenant'.state = "PayoutDue"
           /\ c.method = "settleNetLoss" =>
                covenant.state = "PayoutDue" /\ covenant'.state = "Paid"
           /\ c.method = "cancelUnpaid" =>
                /\ covenant.state \in {"PendingStart", "Active", "PayoutDue"}
                /\ covenant'.state = "CancelledUnpaid" /\ now > ValidBefore
           /\ c.method \in {"fund", "capture", "refund", "refundOrphaned"} => covenant' = covenant
           /\ c.method = "fund" =>
                /\ covenant.state = "PendingStart" /\ feeState = "None" /\ feeState' = "Funded"
                /\ feeUse = "unused" /\ now < ValidBefore
           /\ c.method = "capture" =>
                /\ feeState = "Funded" /\ feeState' = "Captured" /\ now < refundAvailableAt
                /\ covenant.state \notin {"None", "PendingStart", "CancelledUnpaid"}
           /\ c.method = "refund" => feeState = "Funded" /\ feeState' = "Refunded"
           /\ c.method = "refundOrphaned" =>
                feeState = "None" /\ feeState' = "Refunded" /\ covenant.state # "None"
           /\ c.method \notin {"fund", "capture", "refund", "refundOrphaned"} => feeState' = feeState
           /\ c.method # "fund" => feeUse' = feeUse
<1> USE CallMethods, DealAssumption
<1> DEFINE States == {"None", "PendingStart", "Active", "PayoutDue", "Released", "Paid",
                      "CancelledUnpaid"}
<1>1. /\ covenant \in [state : States, issuedAt : Nat, enrollmentExpiresAt : Nat,
                       startAt : Nat, payoutDueAt : Nat]
      /\ feeState \in {"None", "Funded", "Captured", "Refunded"}
      /\ feeUse \in {"unused", "escrow", "direct"} /\ now \in Nat
  BY DEF DirectTypes, ChainTypeOK
<1>2. CASE c.method = "issue"
  <2>1. /\ covenant.state = "None" /\ ValidBefore > now
        /\ c.startedAt + EnrollmentWindow \in now + 1 .. ValidBefore
        /\ covenant' = [NoCovenant EXCEPT !.state = "PendingStart", !.issuedAt = now,
                          !.enrollmentExpiresAt = c.startedAt + EnrollmentWindow]
        /\ feeState' = feeState /\ feeUse' = feeUse
    BY <1>2 DEF Mined, Accepted
  <2>2. c.startedAt + EnrollmentWindow \in Nat
    BY <1>2
  <2>3. covenant' = [state |-> "PendingStart", issuedAt |-> now,
                     enrollmentExpiresAt |-> c.startedAt + EnrollmentWindow,
                     startAt |-> 0, payoutDueAt |-> 0]
    BY <2>1 DEF NoCovenant
  <2>4. covenant' \in [state : States, issuedAt : Nat, enrollmentExpiresAt : Nat,
                       startAt : Nat, payoutDueAt : Nat]
    BY <1>1, <2>2, <2>3
  <2>5. covenant'.state = "PendingStart" /\ covenant'.issuedAt = now
    BY <2>3
  <2>6. ValidBefore > now /\ ValidBefore \in Nat => now < ValidBefore
    BY <1>1
  <2> QED BY <1>1, <1>2, <2>1, <2>4, <2>5, <2>6
<1>3. CASE c.method = "startClock"
  <2>1. /\ covenant.state = "PendingStart"
        /\ c.receipt.startedAt \in covenant.issuedAt .. covenant.enrollmentExpiresAt
        /\ covenant' = [covenant EXCEPT !.state = "Active", !.startAt = c.receipt.startedAt]
        /\ feeState' = feeState /\ feeUse' = feeUse
    BY <1>3 DEF Mined, Accepted
  <2>2. c.receipt.startedAt \in Nat /\ c.receipt.startedAt >= covenant.issuedAt
    BY <1>1, <1>3, <2>1 DEF Receipt
  <2>3. /\ covenant'.state = "Active" /\ covenant'.startAt = c.receipt.startedAt
        /\ covenant'.issuedAt = covenant.issuedAt
        /\ covenant' \in [state : States, issuedAt : Nat, enrollmentExpiresAt : Nat,
                          startAt : Nat, payoutDueAt : Nat]
    BY <1>1, <2>1, <2>2
  <2> QED BY <1>1, <1>3, <2>1, <2>2, <2>3
<1>4. CASE c.method \in {"expireUnstarted", "release"}
  BY <1>1, <1>4 DEF Mined, Accepted, CanExpire
<1>5. CASE c.method \in {"markPayoutDue", "settleNetLoss", "cancelUnpaid"}
  BY <1>1, <1>5 DEF Mined, Accepted
<1>6. CASE c.method \in {"fund", "capture", "refund", "refundOrphaned"}
  BY <1>1, <1>6 DEF Mined, Accepted, CanRefund
<1> QED BY <1>2, <1>3, <1>4, <1>5, <1>6

(* A backed call keeps the chain's invariant, and what is final stays. *)
LEMMA MinedKeeps ==
    ASSUME DirectInv, NEW c \in Call, Backed(c), Mined(c), AnswersLast,
           UNCHANGED <<now, settledAt>>, mempool' \subseteq mempool, faults' = faults
    PROVE  ChainInv' /\ Lasting
<1> DEFINE m == c.method
<1>1. DirectTypes /\ CovenantInv /\ FeeInv /\ MempoolInv
  BY DEF DirectInv
<1>2. now \in Nat /\ now # 0 /\ ChainTypeOK
  BY <1>1 DEF DirectTypes
<1>3. refundAvailableAt <= clockCutoff /\ refundAvailableAt \in Nat /\ clockCutoff \in Nat
  BY DealAssumption DEF refundAvailableAt, clockCutoff
<1>4. ChainTypeOK'
  BY <1>1, <1>2, MinedMoves DEF ChainTypeOK
<1>5. CovenantInv'
  <2>1. covenant'.state # "None" => covenant'.issuedAt # 0
    BY <1>1, <1>2, MinedMoves, CallMethods DEF CovenantInv
  <2>2. covenant'.state \in {"Active", "PayoutDue", "Paid"} => covenant'.startAt # 0
    BY <1>1, <1>2, MinedMoves, CallMethods DEF CovenantInv, ChainTypeOK
  <2>3. covenant'.state = "Released" => covenant'.startAt # 0 \/ now' > clockCutoff
    BY <1>1, <1>2, MinedMoves, CallMethods DEF CovenantInv
  <2>4. covenant'.state = "CancelledUnpaid" => settledAt' = 0 /\ now' > ValidBefore
    BY <1>1, <1>2, MinedMoves, CallMethods DEF CovenantInv, Backed
  <2>5. covenant'.state \in {"PayoutDue", "Paid"} => LateAnswered'
    BY <1>1, <1>2, MinedMoves, CallMethods DEF CovenantInv, Backed, AnswersLast
  <2> QED BY <2>1, <2>2, <2>3, <2>4, <2>5 DEF CovenantInv, clockCutoff
<1>6. FeeInv'
  <2>1. feeState' # "None" => covenant'.state # "None"
    BY <1>1, MinedMoves, CallMethods DEF FeeInv
  <2>2. feeState # "None" => feeState' # "None"
    BY <1>1, MinedMoves, CallMethods
  <2>3. feeState' = "Captured" => settledAt' # 0 /\ covenant'.startAt # 0
    <3>1. CASE m = "capture"
      BY <1>1, <1>2, <1>3, <3>1, MinedMoves DEF CovenantInv, Backed, ChainTypeOK
    <3>2. CASE m # "capture"
      <4>1. feeState' = "Captured" => feeState = "Captured"
        BY <1>1, <3>2, MinedMoves, CallMethods
      <4>2. feeState = "Captured" => covenant.startAt # 0 /\ settledAt # 0 /\ covenant.state # "None"
        BY <1>1 DEF FeeInv, CapturedForStartedCover
      <4>3. covenant.state # "None" /\ covenant.startAt # 0 => covenant'.startAt # 0
        BY <1>1, <1>2, MinedMoves, CallMethods DEF CovenantInv, ChainTypeOK
      <4> QED BY <4>1, <4>2, <4>3
    <3> QED BY <3>1, <3>2
  <2> QED BY <1>1, <2>1, <2>2, <2>3 DEF FeeInv, CapturedForStartedCover, AnswersLast
<1>7. MempoolInv'
  BY <1>1 DEF MempoolInv, Backed, AnswersLast
<1>8. Lasting
  <2>1. Resolved => Resolved'
    BY <1>1, MinedMoves, CallMethods DEF Resolved
  <2>2. NoFeeAstray => NoFeeAstray'
    BY <1>1, <1>2, MinedMoves, CallMethods, DealAssumption DEF NoFeeAstray
  <2>3. SettledForGood => SettledForGood'
    BY <1>1, MinedMoves, CallMethods DEF SettledForGood
  <2>4. UndoneForGood => UndoneForGood'
    BY <1>1, <1>2, <2>2, MinedMoves, CallMethods, DealAssumption DEF UndoneForGood, NoFeeAstray
  <2>5. feeState # "None" => feeState' # "None"
    BY <1>1, MinedMoves, CallMethods
  <2> QED BY <1>2, <2>1, <2>2, <2>3, <2>4, <2>5 DEF Lasting, Ended, AnswersLast
<1> QED BY <1>4, <1>5, <1>6, <1>7, <1>8 DEF ChainInv

(* So does a worker's step, which makes at most one backed call. *)
LEMMA CallsKeep ==
    ASSUME DirectInv, Calls, AnswersLast, now' = now, faults' \in 0 .. MaxFaults
    PROVE  ChainInv' /\ Lasting
<1>1. DirectTypes /\ CovenantInv /\ FeeInv /\ MempoolInv /\ ChainTypeOK /\ now \in Nat
  BY DEF DirectInv, DirectTypes
<1>2. ASSUME NEW c \in Call, Backed(c), UNCHANGED <<covenant, feeState, feeUse, settledAt>>,
             mempool' = mempool \cup {c} \/ mempool' = mempool
      PROVE  ChainInv' /\ Lasting
  <2>1. ChainTypeOK'
    BY <1>1, <1>2 DEF ChainTypeOK
  <2>2. CovenantInv' /\ FeeInv'
    BY <1>1, <1>2 DEF CovenantInv, FeeInv, CapturedForStartedCover, AnswersLast, clockCutoff
  <2>3. MempoolInv'
    BY <1>1, <1>2 DEF MempoolInv, Backed, AnswersLast
  <2>4. Lasting
    BY <1>1, <1>2 DEF Lasting, Resolved, NoFeeAstray, Ended, SettledForGood, UndoneForGood,
                      AnswersLast
  <2> QED BY <2>1, <2>2, <2>3, <2>4 DEF ChainInv
<1>3. CASE Quiet
  <2>1. ChainTypeOK'
    BY <1>1, <1>3 DEF ChainTypeOK, Quiet
  <2>2. CovenantInv' /\ FeeInv'
    BY <1>1, <1>3 DEF CovenantInv, FeeInv, CapturedForStartedCover, AnswersLast, clockCutoff, Quiet
  <2>3. MempoolInv'
    BY <1>1, <1>3 DEF MempoolInv, Backed, AnswersLast, Quiet
  <2>4. Lasting
    BY <1>1, <1>3 DEF Lasting, Resolved, NoFeeAstray, Ended, SettledForGood, UndoneForGood,
                      AnswersLast, Quiet
  <2> QED BY <2>1, <2>2, <2>3, <2>4 DEF ChainInv
<1>4. ASSUME NEW c \in Call, Backed(c), Mined(c), UNCHANGED <<settledAt, mempool, faults>>
      PROVE  ChainInv' /\ Lasting
  BY <1>4, MinedKeeps
<1> QED BY <1>2, <1>3, <1>4 DEF Calls, Sends

(* The chain moves by itself: time, the provider, late transactions and anybody. *)
LEMMA EnvironmentKeeps ==
    ASSUME DirectInv, ProviderNext \/ ChainMoves \/ Time
    PROVE  ChainInv' /\ Lasting
<1>1. /\ DirectTypes /\ CovenantInv /\ FeeInv /\ MempoolInv /\ ChainTypeOK
      /\ now \in Nat /\ now # 0
  BY DEF DirectInv, DirectTypes
<1>2. UNCHANGED relayVars
  BY DEF ProviderNext, ChainMoves, Time
<1>3. AnswersLast
  BY <1>1, <1>2 DEF AnswersLast, LateAnswered, relayVars, FeeInv
<1>4. CASE ProviderNext
  <2>1. /\ settledAt = 0 /\ now < ValidBefore /\ settledAt' = now /\ now' = now
        /\ (\E w \in Worker : forwarded[w] # "no")
        /\ UNCHANGED <<covenant, feeState, feeUse, mempool, faults>>
    BY <1>4 DEF ProviderNext, ProviderSettles
  <2>2. ChainTypeOK'
    BY <1>1, <2>1 DEF ChainTypeOK
  <2>3. CovenantInv'
    BY <1>1, <1>3, <2>1, DealAssumption DEF CovenantInv, clockCutoff, AnswersLast
  <2>4. FeeInv'
    BY <1>1, <1>2, <2>1 DEF FeeInv, CapturedForStartedCover, relayVars
  <2>5. MempoolInv'
    BY <1>1, <1>3, <2>1, DealAssumption DEF MempoolInv, Backed, AnswersLast
  <2>6. Lasting
    BY <1>1, <1>3, <2>1 DEF Lasting, Resolved, NoFeeAstray, Ended, SettledForGood,
                            UndoneForGood, AnswersLast
  <2> QED BY <2>2, <2>3, <2>4, <2>5, <2>6 DEF ChainInv
<1>5. CASE Time
  <2>1. now' = now + 1 /\ UNCHANGED chainVars
    BY <1>5 DEF Time, Tick
  <2>2. ChainTypeOK' /\ FeeInv'
    BY <1>1, <1>2, <2>1 DEF ChainTypeOK, FeeInv, CapturedForStartedCover, chainVars, relayVars
  <2>3. CovenantInv'
    BY <1>1, <1>3, <2>1, DealAssumption DEF CovenantInv, clockCutoff, AnswersLast, chainVars
  <2>4. MempoolInv'
    BY <1>1, <1>3, <2>1, DealAssumption DEF MempoolInv, Backed, AnswersLast, chainVars
  <2>5. Lasting
    BY <1>1, <1>3, <2>1, DealAssumption DEF Lasting, Resolved, NoFeeAstray, Ended,
          SettledForGood, UndoneForGood, AnswersLast, chainVars
  <2> QED BY <2>2, <2>3, <2>4, <2>5 DEF ChainInv
<1>6. CASE ChainMoves
  <2>1. now' = now
    BY <1>6 DEF ChainMoves
  <2>2. ASSUME NEW m \in {"expireUnstarted", "refund"}, Mined([method |-> m]),
               UNCHANGED <<settledAt, mempool, faults>>
        PROVE  ChainInv' /\ Lasting
    <3>1. [method |-> m] \in Call /\ Backed([method |-> m])
      BY DEF Call, Backed
    <3> QED BY <1>3, <2>1, <2>2, <3>1, MinedKeeps
  <2>3. ASSUME FeePaidDirectly PROVE ChainInv' /\ Lasting
    <3>1. /\ feeUse = "unused" /\ now < ValidBefore /\ feeUse' = "direct"
          /\ faults < MaxFaults /\ faults' = faults + 1
          /\ UNCHANGED <<covenant, feeState, settledAt, mempool>>
      BY <2>3 DEF FeePaidDirectly, Fault
    <3>2. ChainTypeOK'
      BY <1>1, <3>1, DealAssumption DEF ChainTypeOK
    <3>3. CovenantInv' /\ FeeInv'
      BY <1>1, <1>2, <1>3, <2>1, <3>1 DEF CovenantInv, FeeInv, CapturedForStartedCover,
            AnswersLast, clockCutoff, relayVars
    <3>4. MempoolInv'
      BY <1>1, <1>3, <2>1, <3>1 DEF MempoolInv, Backed, AnswersLast
    <3>5. Lasting
      BY <1>1, <1>3, <2>1, <3>1, DealAssumption DEF Lasting, Resolved, NoFeeAstray, Ended,
            SettledForGood, UndoneForGood, AnswersLast
    <3> QED BY <3>2, <3>3, <3>4, <3>5 DEF ChainInv
  <2>4. ASSUME LateTransaction PROVE ChainInv' /\ Lasting
    <3>1. PICK c \in mempool : /\ Mined(c) \/ UNCHANGED <<covenant, feeState, feeUse>>
                               /\ mempool' = mempool \ {c}
      BY <2>4 DEF LateTransaction
    <3>2. c \in Call /\ Backed(c) /\ UNCHANGED <<settledAt, faults>>
      BY <1>1, <2>4 DEF ChainTypeOK, MempoolInv, LateTransaction
    <3>3. CASE Mined(c)
      BY <1>3, <2>1, <3>1, <3>2, <3>3, MinedKeeps
    <3>4. CASE UNCHANGED <<covenant, feeState, feeUse>>
      <4>1. ChainTypeOK'
        BY <1>1, <3>1, <3>2, <3>4 DEF ChainTypeOK
      <4>2. CovenantInv' /\ FeeInv'
        BY <1>1, <1>2, <1>3, <2>1, <3>2, <3>4 DEF CovenantInv, FeeInv, CapturedForStartedCover,
              AnswersLast, clockCutoff, relayVars
      <4>3. MempoolInv'
        BY <1>1, <1>3, <2>1, <3>1, <3>2 DEF MempoolInv, Backed, AnswersLast
      <4>4. Lasting
        BY <1>1, <1>3, <2>1, <3>2, <3>4 DEF Lasting, Resolved, NoFeeAstray, Ended,
              SettledForGood, UndoneForGood, AnswersLast
      <4> QED BY <4>1, <4>2, <4>3, <4>4 DEF ChainInv
    <3> QED BY <3>1, <3>3, <3>4
  <2> QED BY <1>6, <2>2, <2>3, <2>4 DEF ChainMoves, ChainNext, Permissionless
<1> QED BY <1>4, <1>5, <1>6

-------------------------------------------------------------------------------
(* What a worker's step does to its task *)

\* It goes to n, and has no record on its way.
MovesTo(w, n) ==
    /\ task' \in [Worker -> TypedTask]
    /\ \A u \in Worker \ {w} : task'[u] = task[u]
    /\ task'[w].pc = n /\ ~task'[w].sent

\* It holds the same grant and receipt.
Keeps(w) == task'[w].copy.relayGrant = grant(w) /\ task'[w].result = task[w].result

(* The records of the store have their type. *)
LEMMA RecordTypes ==
    /\ NoQuote \in QuoteRecord
    /\ \A n \in Pcs : At(n) \in TypedTask
    /\ \A r \in QuoteRecord, i \in Nat : [r EXCEPT !.leaseExpiresAtMs = i] \in QuoteRecord
    /\ \A r \in QuoteRecord : [r EXCEPT !.leaseExpiresAtMs = 0].relayGrant = r.relayGrant
<1>1. NoQuote \in QuoteRecord
  BY DEF NoQuote, QuoteRecord, QuoteState
<1>2. ASSUME NEW n \in Pcs PROVE At(n) \in TypedTask
  <2>1. /\ NoReceipt \in Receipt \cup {NoReceipt} /\ FALSE \in BOOLEAN
        /\ "None" \in CovenantState /\ "None" \in FeeState /\ 0 \in Nat
    BY DEF CovenantState, FeeState
  <2> QED BY <1>1, <2>1 DEF At, TypedTask
<1>3. ASSUME NEW r \in QuoteRecord, NEW i \in Nat
      PROVE  /\ [r EXCEPT !.leaseExpiresAtMs = i] \in QuoteRecord
             /\ [r EXCEPT !.leaseExpiresAtMs = i].relayGrant = r.relayGrant
  BY DEF QuoteRecord
<1> QED BY <1>1, <1>2, <1>3

(* Going on, with what it holds. *)
LEMMA GotoMoves ==
    ASSUME task \in [Worker -> TypedTask], NEW w \in Worker, NEW n \in Pcs, Goto(w, n)
    PROVE  /\ MovesTo(w, n)
           /\ n # "done" => Keeps(w)
           /\ n = "done" => task'[w].result = NoReceipt
<1> DEFINE t == task[w]
<1>1. t \in TypedTask
  OBVIOUS
<1>2. CASE n = "done"
  <2>1. task' = [task EXCEPT ![w] = At("done")]
    BY <1>2 DEF Goto
  <2>2. task'[w] = At("done") /\ task' \in [Worker -> TypedTask]
    <3>1. At("done") \in TypedTask
      BY <1>2, RecordTypes
    <3> QED BY <2>1, <3>1
  <2>3. \A u \in Worker \ {w} : task'[u] = task[u]
    BY <2>1
  <2> QED BY <1>2, <2>2, <2>3 DEF MovesTo, At
<1>3. CASE n # "done"
  <2> DEFINE c == [t.copy EXCEPT !.leaseExpiresAtMs = 0]
             s == [t EXCEPT !.pc = n, !.sent = FALSE, !.copy.leaseExpiresAtMs = 0]
  <2>1. task' = [task EXCEPT ![w] = s]
    BY <1>3 DEF Goto
  <2>2. c \in QuoteRecord /\ c.relayGrant = t.copy.relayGrant
    BY <1>1, RecordTypes DEF TypedTask
  <2>3. s = [t EXCEPT !.pc = n, !.sent = FALSE, !.copy = c]
    BY <1>1 DEF TypedTask
  <2>4. s \in TypedTask /\ s.pc = n /\ s.sent = FALSE /\ s.copy = c /\ s.result = t.result
    <3> HIDE DEF c
    <3> QED BY <1>1, <2>2, <2>3 DEF TypedTask
  <2>5. task'[w] = s /\ task' \in [Worker -> TypedTask] /\ \A u \in Worker \ {w} : task'[u] = task[u]
    <3> HIDE DEF s
    <3> QED BY <2>1, <2>4
  <2> QED BY <1>3, <2>2, <2>4, <2>5 DEF MovesTo, Keeps, grant
<1> QED BY <1>2, <1>3

(* Giving up. *)
LEMMA FailMoves ==
    ASSUME task \in [Worker -> TypedTask], NEW w \in Worker, Fail(w)
    PROVE  MovesTo(w, "failing") /\ task'[w].result = NoReceipt
<1>1. task' = [task EXCEPT ![w] = At("failing")] /\ At("failing") \in TypedTask
  BY RecordTypes DEF Fail, Pcs, AnsweredPcs
<1>2. At("failing").pc = "failing" /\ At("failing").sent = FALSE /\ At("failing").result = NoReceipt
  BY DEF At
<1> QED BY <1>1, <1>2 DEF MovesTo

(* Going on with what was read of the covenant or of the fee. *)
LEMMA SeenMoves ==
    ASSUME task \in [Worker -> TypedTask], ChainTypeOK, NEW w \in Worker, NEW n \in Pcs,
           ~task[w].sent,
           \/ Saw(w, n)
           \/ task' = [task EXCEPT ![w].fee = feeState, ![w].pc = n]
    PROVE  MovesTo(w, n) /\ Keeps(w)
<1> DEFINE t == task[w]
<1>1. t \in TypedTask /\ covenant.state \in CovenantState /\ feeState \in FeeState
  BY DEF ChainTypeOK, CovenantState, FeeState
<1>2. CASE Saw(w, n)
  <2> DEFINE s == [t EXCEPT !.saw = covenant.state, !.pc = n]
  <2>1. task' = [task EXCEPT ![w] = s]
    BY <1>2 DEF Saw
  <2>2. s \in TypedTask /\ s.pc = n /\ s.sent = t.sent /\ s.copy = t.copy /\ s.result = t.result
    BY <1>1 DEF TypedTask
  <2> HIDE DEF s
  <2> QED BY <2>1, <2>2 DEF MovesTo, Keeps, grant
<1>3. CASE task' = [task EXCEPT ![w].fee = feeState, ![w].pc = n]
  <2> DEFINE s == [t EXCEPT !.fee = feeState, !.pc = n]
  <2>1. task' = [task EXCEPT ![w] = s]
    BY <1>3
  <2>2. s \in TypedTask /\ s.pc = n /\ s.sent = t.sent /\ s.copy = t.copy /\ s.result = t.result
    BY <1>1 DEF TypedTask
  <2> HIDE DEF s
  <2> QED BY <2>1, <2>2 DEF MovesTo, Keeps, grant
<1> QED BY <1>2, <1>3

(* Going on with a receipt. *)
LEMMA ReceiptMoves ==
    ASSUME task \in [Worker -> TypedTask], NEW w \in Worker, NEW n \in Pcs, NEW r \in Receipt,
           ~task[w].sent,
           \/ task' = [task EXCEPT ![w].result = r, ![w].pc = n]
           \/ task' = [task EXCEPT ![w].pc = n, ![w].sentAt = 0, ![w].posts = 0, ![w].result = r]
    PROVE  /\ MovesTo(w, n)
           /\ task'[w].copy.relayGrant = grant(w) /\ task'[w].result = r
<1> DEFINE t == task[w]
<1>1. t \in TypedTask
  OBVIOUS
<1>2. CASE task' = [task EXCEPT ![w].result = r, ![w].pc = n]
  <2> DEFINE s == [t EXCEPT !.result = r, !.pc = n]
  <2>1. task' = [task EXCEPT ![w] = s]
    BY <1>2
  <2>2. s \in TypedTask /\ s.pc = n /\ s.sent = t.sent /\ s.copy = t.copy /\ s.result = r
    BY <1>1 DEF TypedTask
  <2> HIDE DEF s
  <2> QED BY <2>1, <2>2 DEF MovesTo, grant
<1>3. CASE task' = [task EXCEPT ![w].pc = n, ![w].sentAt = 0, ![w].posts = 0, ![w].result = r]
  <2> DEFINE s == [t EXCEPT !.pc = n, !.sentAt = 0, !.posts = 0, !.result = r]
  <2>1. task' = [task EXCEPT ![w] = s]
    BY <1>3
  <2>2. s \in TypedTask /\ s.pc = n /\ s.sent = t.sent /\ s.copy = t.copy /\ s.result = r
    BY <1>1 DEF TypedTask
  <2> HIDE DEF s
  <2> QED BY <2>1, <2>2 DEF MovesTo, grant
<1> QED BY <1>2, <1>3

(* Going on with the record as it is now. *)
LEMMA CopyMoves ==
    ASSUME task \in [Worker -> TypedTask], NEW w \in Worker, NEW n \in Pcs,
           NEW r \in QuoteRecord, ~task[w].sent,
           task' = [task EXCEPT ![w].copy = r, ![w].pc = n]
    PROVE  /\ MovesTo(w, n)
           /\ task'[w].copy.relayGrant = r.relayGrant /\ task'[w].result = task[w].result
<1> DEFINE t == task[w]
           s == [t EXCEPT !.copy = r, !.pc = n]
<1>1. t \in TypedTask /\ task' = [task EXCEPT ![w] = s]
  OBVIOUS
<1>2. s \in TypedTask /\ s.pc = n /\ s.sent = t.sent /\ s.copy = r /\ s.result = t.result
  BY <1>1 DEF TypedTask
<1> HIDE DEF s
<1> QED BY <1>1, <1>2 DEF MovesTo, grant

(* Putting a record on its way. *)
LEMMA PrepareMoves ==
    ASSUME task \in [Worker -> TypedTask], NEW w \in Worker, NEW r \in QuoteRecord, Prepare(w, r)
    PROVE  /\ task' \in [Worker -> TypedTask]
           /\ \A u \in Worker \ {w} : task'[u] = task[u]
           /\ task'[w].pc = pc(w) /\ task'[w].copy = r /\ task'[w].result = task[w].result
<1> DEFINE t == task[w]
           s == [t EXCEPT !.copy = r, !.sent = TRUE]
<1>1. t \in TypedTask /\ task' = [task EXCEPT ![w] = s]
  BY DEF Prepare
<1>2. s \in TypedTask /\ s.pc = t.pc /\ s.copy = r /\ s.result = t.result
  BY <1>1 DEF TypedTask
<1> HIDE DEF s
<1> QED BY <1>1, <1>2 DEF pc

-------------------------------------------------------------------------------
(* What a worker's step does to everything else *)

HolderPcs == {"send", "await", "releaseClaims"}

\* No execution is completed but one that has ended.
StoreKept ==
    /\ quotes' \in [Quote -> QuoteRecord]
    /\ Complete => Complete'
    /\ Complete' => Complete \/ Ended

OthersStay(w) == \A u \in Worker \ {w} : task'[u] = task[u] /\ forwarded'[u] = forwarded[u]

\* A step that leaves the relay alone.
Works(w) ==
    /\ now' = now /\ faults' \in 0 .. MaxFaults
    /\ Calls /\ StoreKept
    /\ UNCHANGED relayVars
    /\ task' \in [Worker -> TypedTask] /\ OthersStay(w)
    /\ task'[w].pc \in HolderPcs => task'[w].pc = pc(w)
    /\ Knows(w)'

(* Where it goes, a worker knows what it knew before, and what the step found out. *)
LEMMA MovesKnow ==
    ASSUME NEW w \in Worker, NEW n \in Pcs, NEW g, NEW r, MovesTo(w, n), Lasting,
           task'[w].copy.relayGrant = g, task'[w].result = r,
           HoldsAt(w, n, g, r), ChainAt(w, n, r) \/ ChainAt(w, n, r)', RequestAt(w, n)',
           Earned(r) \/ Earned(r)'
    PROVE  Knows(w)'
<1>1. task'[w].pc = n /\ ~task'[w].sent
  BY DEF MovesTo
<1>2. ChainAt(w, n, r)'
  BY DealAssumption DEF ChainAt, Lasting
<1>3. Earned(r)'
  BY DEF Earned, Lasting
<1> QED BY <1>1, <1>2, <1>3 DEF Knows, Fits, HoldsAt, ChainAt, RequestAt, Sending, Earned, pc, grant

(* What the others know stands. *)
LEMMA OthersKnow ==
    ASSUME NEW u \in Worker, Knows(u), Lasting, Complete => Complete',
           task'[u] = task[u], forwarded'[u] = forwarded[u]
    PROVE  Knows(u)'
<1>1. HoldsAt(u, pc(u), grant(u), task[u].result)'
  BY DEF Knows, Fits, HoldsAt, pc, grant
<1>2. ChainAt(u, pc(u), task[u].result)'
  BY DealAssumption DEF Knows, Fits, ChainAt, Lasting, pc
<1>3. RequestAt(u, pc(u))'
  BY DEF Knows, Fits, RequestAt, pc
<1>4. Earned(task[u].result)'
  BY DEF Knows, Earned, Lasting
<1>5. Sending(u)'
  BY DEF Knows, Sending, MaySave, Lasting, pc, grant
<1> QED BY <1>1, <1>2, <1>3, <1>4, <1>5 DEF Knows, Fits

(* A step that makes no call and saves nothing leaves the rest as it is. *)
LEMMA ReadingKeeps ==
    ASSUME DirectInv,
           \/ Reading
           \/ UNCHANGED <<now, quotes, relayVars, covenant, feeState, feeUse, settledAt, mempool>>
                /\ faults' \in 0 .. MaxFaults
    PROVE  /\ now' = now /\ faults' \in 0 .. MaxFaults /\ Calls /\ StoreKept
           /\ UNCHANGED relayVars /\ AnswersLast /\ Lasting
<1>1. DirectTypes /\ FeeInv
  BY DEF DirectInv
<1>2. /\ UNCHANGED <<now, quotes, relayVars, covenant, feeState, feeUse, settledAt, mempool>>
      /\ faults' \in 0 .. MaxFaults
  BY <1>1 DEF Reading, storeVars, chainVars, DirectTypes, ChainTypeOK
<1>3. Calls
  BY <1>2 DEF Calls, Quiet
<1>4. StoreKept
  BY <1>1, <1>2 DEF StoreKept, Complete, DirectTypes
<1>5. AnswersLast
  BY <1>1, <1>2 DEF AnswersLast, LateAnswered, relayVars, FeeInv
<1> QED BY <1>2, <1>3, <1>4, <1>5, CallsKeep

(* What is given up asks for no knowledge. *)
LEMMA FailWorks ==
    ASSUME DirectInv, NEW w \in Worker, Fail(w),
           now' = now, faults' \in 0 .. MaxFaults, Calls, StoreKept, UNCHANGED relayVars, Lasting
    PROVE  Works(w)
<1>1. task \in [Worker -> TypedTask] /\ Knows(w)
  BY DEF DirectInv, DirectTypes
<1>2. MovesTo(w, "failing") /\ task'[w].result = NoReceipt
  BY <1>1, FailMoves
<1>3. "failing" \in Pcs /\ "failing" \notin HolderPcs
  BY DEF Pcs, AnsweredPcs, HolderPcs
<1>4. RequestAt(w, "failing")'
  BY <1>1 DEF Knows, Fits, RequestAt, AnsweredPcs, relayVars
<1>5. /\ HoldsAt(w, "failing", task'[w].copy.relayGrant, NoReceipt)
      /\ ChainAt(w, "failing", NoReceipt) /\ Earned(NoReceipt)
  BY DEF HoldsAt, ChainAt, Earned, GrantPcs, ForwardPcs, ReceiptPcs, FundedPcs, ResolvedPcs,
         OrphanPcs, RefundPcs, CancelPcs
<1>6. Knows(w)'
  BY <1>2, <1>3, <1>4, <1>5, MovesKnow
<1> QED BY <1>2, <1>3, <1>6 DEF Works, MovesTo, OthersStay, relayVars

\* Where a worker may go with what it has and knows.
MayGo(w, n) ==
    /\ n \in Pcs \ HolderPcs
    /\ Fits(w, n, grant(w), task[w].result)

(* A worker that goes where it may. *)
LEMMA GotoWorks ==
    ASSUME DirectInv, NEW w \in Worker, NEW n, Goto(w, n), n \in Pcs \ HolderPcs,
           HoldsAt(w, n, grant(w), task[w].result),
           \/ ChainAt(w, n, task[w].result)
           \/ \A r : r = task[w].result => ChainAt(w, n, r)',
           RequestAt(w, n),
           now' = now, faults' \in 0 .. MaxFaults, Calls, StoreKept, UNCHANGED relayVars, Lasting
    PROVE  Works(w)
<1>1. task \in [Worker -> TypedTask] /\ Knows(w)
  BY DEF DirectInv, DirectTypes
<1>2. /\ MovesTo(w, n)
      /\ n # "done" => Keeps(w)
      /\ n = "done" => task'[w].result = NoReceipt
  BY <1>1, GotoMoves
<1>3. RequestAt(w, n)'
  BY DEF RequestAt, relayVars
<1>4. ASSUME n = "done" PROVE Knows(w)'
  <2>1. /\ HoldsAt(w, "done", task'[w].copy.relayGrant, NoReceipt)
        /\ ChainAt(w, "done", NoReceipt) /\ Earned(NoReceipt)
    BY DEF HoldsAt, ChainAt, Earned, GrantPcs, ForwardPcs, ReceiptPcs, FundedPcs, ResolvedPcs,
           OrphanPcs, RefundPcs, CancelPcs
  <2> QED BY <1>2, <1>3, <1>4, <2>1, MovesKnow
<1>5. ASSUME n # "done" PROVE Knows(w)'
  <2>1. PICK g, r : g = grant(w) /\ r = task[w].result
    OBVIOUS
  <2>2. HoldsAt(w, n, g, r) /\ (ChainAt(w, n, r) \/ ChainAt(w, n, r)') /\ Earned(r)
    BY <1>1, <2>1 DEF Knows
  <2>3. task'[w].copy.relayGrant = g /\ task'[w].result = r
    BY <1>2, <1>5, <2>1 DEF Keeps
  <2> QED BY <1>2, <1>3, <2>2, <2>3, MovesKnow
<1>6. Knows(w)'
  BY <1>4, <1>5
<1> QED BY <1>2, <1>6 DEF Works, MovesTo, OthersStay, relayVars

(* A worker that reads and goes where it may. *)
LEMMA ReadWorks ==
    ASSUME DirectInv, NEW w \in Worker, NEW n, Reading, Goto(w, n), MayGo(w, n)
    PROVE  Works(w)
<1>1. /\ n \in Pcs \ HolderPcs /\ HoldsAt(w, n, grant(w), task[w].result)
      /\ ChainAt(w, n, task[w].result) /\ RequestAt(w, n)
  BY DEF MayGo, Fits
<1> QED BY <1>1, ReadingKeeps, GotoWorks

(* A worker that gives up. *)
LEMMA ReadFails ==
    ASSUME DirectInv, NEW w \in Worker, Fail(w),
           \/ Reading
           \/ UNCHANGED <<now, storeVars, relayVars>> /\ Unanswered
    PROVE  Works(w)
<1>1. CASE Reading
  BY <1>1, ReadingKeeps, FailWorks
<1>2. CASE UNCHANGED <<now, storeVars, relayVars>> /\ Unanswered
  <2>1. /\ UNCHANGED <<now, quotes, relayVars, covenant, feeState, feeUse, settledAt, mempool>>
        /\ faults' \in 0 .. MaxFaults
    <3>1. faults \in 0 .. MaxFaults /\ faults < MaxFaults /\ faults' = faults + 1
      BY <1>2 DEF Unanswered, Fault, DirectInv, DirectTypes, ChainTypeOK
    <3> QED BY <1>2, <3>1, DealAssumption DEF Unanswered, storeVars
  <2> QED BY <2>1, ReadingKeeps, FailWorks
<1> QED BY <1>1, <1>2

(* A worker that notes the covenant's or the fee's state. *)
LEMMA SeenWorks ==
    ASSUME DirectInv, NEW w \in Worker, NEW n, Reading, MayGo(w, n), ~task[w].sent,
           \/ Saw(w, n)
           \/ task' = [task EXCEPT ![w].fee = feeState, ![w].pc = n]
    PROVE  Works(w)
<1>1. task \in [Worker -> TypedTask] /\ ChainTypeOK /\ Knows(w)
  BY DEF DirectInv, DirectTypes
<1>2. /\ n \in Pcs \ HolderPcs /\ HoldsAt(w, n, grant(w), task[w].result)
      /\ ChainAt(w, n, task[w].result) /\ RequestAt(w, n) /\ Earned(task[w].result)
  BY <1>1 DEF MayGo, Fits, Knows
<1>3. MovesTo(w, n) /\ Keeps(w)
  BY <1>1, <1>2, SeenMoves
<1>4. RequestAt(w, n)'
  BY <1>2, ReadingKeeps DEF RequestAt, relayVars
<1>5. Knows(w)'
  <2>1. PICK g, r : g = grant(w) /\ r = task[w].result
    OBVIOUS
  <2> QED BY <1>2, <1>3, <1>4, <2>1, ReadingKeeps, MovesKnow DEF Keeps
<1> QED BY <1>2, <1>3, <1>5, ReadingKeeps DEF Works, MovesTo, OthersStay, relayVars

(* A worker that takes up a receipt. *)
LEMMA ReceiptWorks ==
    ASSUME DirectInv, NEW w \in Worker, NEW n \in Pcs \ HolderPcs, NEW r \in Receipt, Reading,
           HoldsAt(w, n, grant(w), r), ChainAt(w, n, r), RequestAt(w, n), Earned(r),
           ~task[w].sent, task' = [task EXCEPT ![w].result = r, ![w].pc = n]
    PROVE  Works(w)
<1>1. task \in [Worker -> TypedTask]
  BY DEF DirectInv, DirectTypes
<1>2. /\ MovesTo(w, n)
      /\ task'[w].copy.relayGrant = grant(w) /\ task'[w].result = r
  BY <1>1, ReceiptMoves
<1>3. RequestAt(w, n)'
  BY ReadingKeeps DEF RequestAt, relayVars
<1>4. Knows(w)'
  <2>1. PICK g : g = grant(w)
    OBVIOUS
  <2> QED BY <1>2, <1>3, <2>1, ReadingKeeps, MovesKnow
<1> QED BY <1>2, <1>4, ReadingKeeps DEF Works, MovesTo, OthersStay, relayVars

(* A worker that takes the record as it is. *)
LEMMA CopyWorks ==
    ASSUME DirectInv, NEW w \in Worker, NEW n, Reading, MayGo(w, n), ~task[w].sent,
           n \notin GrantPcs \cup ForwardPcs,
           task' = [task EXCEPT ![w].copy = quotes[Deal], ![w].pc = n]
    PROVE  Works(w)
<1>1. task \in [Worker -> TypedTask] /\ quotes[Deal] \in QuoteRecord /\ Knows(w)
  BY DealAssumption DEF DirectInv, DirectTypes
<1>2. /\ n \in Pcs \ HolderPcs /\ HoldsAt(w, n, grant(w), task[w].result)
      /\ ChainAt(w, n, task[w].result) /\ RequestAt(w, n) /\ Earned(task[w].result)
  BY <1>1 DEF MayGo, Fits, Knows
<1>3. PICK g, r : g = quotes[Deal].relayGrant /\ r = task[w].result
  OBVIOUS
<1>4. MovesTo(w, n) /\ task'[w].copy.relayGrant = g /\ task'[w].result = r
  BY <1>1, <1>2, <1>3, CopyMoves
<1>5. RequestAt(w, n)'
  BY <1>2, ReadingKeeps DEF RequestAt, relayVars
<1>6. HoldsAt(w, n, g, r)
  BY <1>2, <1>3 DEF HoldsAt
<1>7. Knows(w)'
  BY <1>2, <1>3, <1>4, <1>5, <1>6, ReadingKeeps, MovesKnow
<1> QED BY <1>2, <1>4, <1>7, ReadingKeeps DEF Works, MovesTo, OthersStay, relayVars

-------------------------------------------------------------------------------
(* Saving, and calling *)

(* The records a worker prepares: their type, their state and their grant. *)
LEMMA PreparedTypes ==
    ASSUME now \in Nat, NEW r \in QuoteRecord, NEW stage
    PROVE  /\ ClaimedRecord(r) \in QuoteRecord /\ ClaimedRecord(r).state = "executing"
           /\ CheckpointRecord(r, stage) \in QuoteRecord
           /\ CheckpointRecord(r, stage).state = r.state
           /\ ReconcileCheckpointRecord(r, stage) \in QuoteRecord
           /\ ReconcileCheckpointRecord(r, stage).state = r.state
           /\ \A g \in Grant : /\ GrantedRecord(r, g) \in QuoteRecord
                               /\ GrantedRecord(r, g).state = r.state
                               /\ GrantedRecord(r, g).relayGrant = g
           /\ RetainedRecord(r) \in QuoteRecord /\ RetainedRecord(r).state = r.state
           /\ CompletedRecord(r) \in QuoteRecord
           /\ YieldedRecord(r) \in QuoteRecord /\ YieldedRecord(r).state = r.state
           /\ ReleasedRecord(r) \in QuoteRecord /\ ReleasedRecord(r).state = "bound"
<1> USE StoreAssumption
<1>1. now + Lease \in Nat
  OBVIOUS
<1>2. \A s : Saved(r.stages, s) \in SUBSET (Stage \cup {"other"})
  BY DEF Saved, QuoteRecord
<1>3. ClaimedRecord(r) \in QuoteRecord /\ ClaimedRecord(r).state = "executing"
  <2> DEFINE b == IF r.state \in {"executing", "complete"} THEN r
                  ELSE [r EXCEPT !.startedAtMs = now]
  <2>1. b \in QuoteRecord
    BY DEF QuoteRecord
  <2>2. ClaimedRecord(r) = [b EXCEPT !.state = "executing", !.leaseExpiresAtMs = now + Lease]
    BY DEF ClaimedRecord
  <2> HIDE DEF b
  <2> QED BY <1>1, <2>1, <2>2 DEF QuoteRecord, QuoteState
<1>4. /\ CheckpointRecord(r, stage) \in QuoteRecord /\ CheckpointRecord(r, stage).state = r.state
      /\ CheckpointRecord(r, "relayGrant") \in QuoteRecord
      /\ CheckpointRecord(r, "relayGrant").state = r.state
  BY <1>1, <1>2 DEF CheckpointRecord, QuoteRecord
<1>5. /\ ReconcileCheckpointRecord(r, stage) \in QuoteRecord
      /\ ReconcileCheckpointRecord(r, stage).state = r.state
  BY <1>2 DEF ReconcileCheckpointRecord, QuoteRecord
<1>6. ASSUME NEW g \in Grant
      PROVE  /\ GrantedRecord(r, g) \in QuoteRecord /\ GrantedRecord(r, g).state = r.state
             /\ GrantedRecord(r, g).relayGrant = g
  <2> DEFINE b == CheckpointRecord(r, "relayGrant")
  <2>1. b \in QuoteRecord /\ GrantedRecord(r, g) = [b EXCEPT !.relayGrant = g]
    BY <1>4 DEF GrantedRecord
  <2> HIDE DEF b
  <2>2. [b EXCEPT !.relayGrant = g].state = b.state
    BY <2>1 DEF QuoteRecord
  <2>3. [b EXCEPT !.relayGrant = g] \in QuoteRecord /\ [b EXCEPT !.relayGrant = g].relayGrant = g
    BY <2>1 DEF QuoteRecord
  <2> QED BY <1>4, <2>1, <2>2, <2>3 DEF b
<1>7. /\ RetainedRecord(r) \in QuoteRecord /\ RetainedRecord(r).state = r.state
      /\ CompletedRecord(r) \in QuoteRecord
      /\ YieldedRecord(r) \in QuoteRecord /\ YieldedRecord(r).state = r.state
      /\ ReleasedRecord(r) \in QuoteRecord /\ ReleasedRecord(r).state = "bound"
  BY DEF RetainedRecord, CompletedRecord, YieldedRecord, ReleasedRecord, QuoteRecord, QuoteState
<1> QED BY <1>3, <1>4, <1>5, <1>6, <1>7

(* Putting a record on its way to the script. *)
LEMMA PrepareWorks ==
    ASSUME DirectInv, NEW w \in Worker, NEW prepared \in QuoteRecord, Reading, Prepare(w, prepared),
           MaySave(w),
           pc(w) = "grant" => prepared.relayGrant # NoGrant,
           prepared.state = "complete" => Complete \/ Ended
    PROVE  Works(w)
<1>1. task \in [Worker -> TypedTask] /\ Knows(w)
  BY DEF DirectInv, DirectTypes
<1>2. /\ task' \in [Worker -> TypedTask]
      /\ \A u \in Worker \ {w} : task'[u] = task[u]
      /\ task'[w].pc = pc(w) /\ task'[w].copy = prepared /\ task'[w].result = task[w].result
  BY <1>1, PrepareMoves
<1>3. Lasting /\ StoreKept
  BY ReadingKeeps
<1>4. pc(w) \notin GrantPcs \cup ForwardPcs \cup HolderPcs
  BY DEF MaySave, SavingPcs, GrantPcs, ForwardPcs, HolderPcs
<1>5. HoldsAt(w, pc(w), grant(w), task[w].result)'
  BY <1>1, <1>2, <1>4 DEF Knows, Fits, HoldsAt, pc, grant
<1>6. ChainAt(w, pc(w), task[w].result)'
  BY <1>1, <1>2, <1>3, DealAssumption DEF Knows, Fits, ChainAt, Lasting, pc
<1>7. RequestAt(w, pc(w))'
  BY <1>1, <1>2, ReadingKeeps DEF Knows, Fits, RequestAt, pc, relayVars
<1>8. Earned(task[w].result)'
  BY <1>1, <1>2, <1>3 DEF Knows, Earned, Lasting
<1>9. Sending(w)'
  BY <1>2, <1>3 DEF Sending, MaySave, Lasting, StoreKept, pc, grant
<1>10. Knows(w)'
  BY <1>5, <1>6, <1>7, <1>8, <1>9 DEF Knows, Fits
<1> QED BY <1>2, <1>4, <1>10, ReadingKeeps DEF Works, OthersStay, relayVars

(* The script writes what was on its way. *)
LEMMA WriteKeeps ==
    ASSUME DirectInv, NEW w \in Worker, task[w].sent, UNCHANGED <<now, chainVars, relayVars>>,
           \/ ScriptUpdate(Deal, task[w].copy)
           \/ ScriptClaim(Deal, task[w].copy)
           \/ ScriptRelease(Deal, task[w].copy)
    PROVE  /\ now' = now /\ faults' \in 0 .. MaxFaults /\ Calls /\ StoreKept
           /\ UNCHANGED relayVars /\ AnswersLast /\ Lasting
<1>1. /\ quotes \in [Quote -> QuoteRecord] /\ task[w].copy \in QuoteRecord
      /\ Knows(w) /\ FeeInv /\ faults \in 0 .. MaxFaults
  BY DEF DirectInv, DirectTypes, TypedTask, ChainTypeOK
<1>2. quotes[Deal].state \in {"bound", "executing"} /\ quotes' = [quotes EXCEPT ![Deal] = task[w].copy]
  BY DEF ScriptUpdate, ScriptClaim, ScriptRelease, Claimable, Releasable, Write
<1>3. quotes' \in [Quote -> QuoteRecord] /\ quotes'[Deal] = task[w].copy
  BY <1>1, <1>2, DealAssumption
<1>4. StoreKept
  BY <1>1, <1>2, <1>3 DEF StoreKept, Complete, Knows, Sending
<1>5. Calls /\ faults' \in 0 .. MaxFaults
  BY <1>1 DEF Calls, Quiet, chainVars
<1>6. AnswersLast
  BY <1>1 DEF AnswersLast, LateAnswered, relayVars, FeeInv
<1> QED BY <1>4, <1>5, <1>6, CallsKeep

(* Saving, whatever comes of it: the record is on its way, written, or given up. *)
LEMMA SaveWorks ==
    ASSUME DirectInv, NEW w \in Worker, NEW prepared, NEW next,
           quotes[Deal].state = "executing" =>
             /\ prepared \in QuoteRecord
             /\ pc(w) = "grant" => prepared.relayGrant # NoGrant
             /\ prepared.state = "complete" => Ended,
           MaySave(w),
           task[w].sent => MayGo(w, next),
           Save(w, prepared, next)
    PROVE  Works(w)
<1>1. CASE ~task[w].sent /\ quotes[Deal].state = "executing" /\ Prepare(w, prepared)
             /\ UNCHANGED <<now, relayVars, storeVars, chainVars>>
  BY <1>1, PrepareWorks DEF Reading
<1>2. CASE task[w].sent /\ ScriptUpdate(Deal, task[w].copy)
             /\ UNCHANGED <<now, relayVars, chainVars>> /\ Goto(w, next)
  <2>1. /\ next \in Pcs \ HolderPcs /\ HoldsAt(w, next, grant(w), task[w].result)
        /\ ChainAt(w, next, task[w].result) /\ RequestAt(w, next)
    BY <1>2 DEF MayGo, Fits
  <2> QED BY <1>2, <2>1, WriteKeeps, GotoWorks
<1>3. CASE UNCHANGED <<now, relayVars, storeVars, chainVars>> /\ Fail(w)
  BY <1>3, ReadFails DEF Reading
<1>4. CASE UNCHANGED <<now, relayVars, storeVars>> /\ Unanswered /\ Fail(w)
  BY <1>4, ReadFails
<1> QED BY <1>1, <1>2, <1>3, <1>4 DEF Save

(* The records that are saved along the way. *)
LEMMA CheckpointWorks ==
    ASSUME DirectInv, NEW w \in Worker, NEW stage, NEW next,
           MaySave(w), pc(w) # "grant",
           task[w].sent => MayGo(w, next),
           Checkpoint(w, stage, next)
    PROVE  Works(w)
<1>1. now \in Nat /\ quotes[Deal] \in QuoteRecord
  BY DealAssumption DEF DirectInv, DirectTypes
<1>2. /\ StageRecord(w, stage) \in QuoteRecord
      /\ StageRecord(w, stage).state = quotes[Deal].state
  <2>1. \A r \in QuoteRecord :
           /\ CheckpointRecord(r, stage) \in QuoteRecord
           /\ CheckpointRecord(r, stage).state = r.state
           /\ ReconcileCheckpointRecord(r, stage) \in QuoteRecord
           /\ ReconcileCheckpointRecord(r, stage).state = r.state
    BY <1>1, PreparedTypes
  <2> QED BY <1>1, <2>1 DEF StageRecord
<1>3. Save(w, StageRecord(w, stage), next)
  BY DEF Checkpoint
<1> QED BY <1>2, <1>3, SaveWorks

(* A call of a contract, and the step after it. *)
LEMMA CallWorks ==
    ASSUME DirectInv, NEW w \in Worker, NEW c \in Call, UNCHANGED <<now, storeVars, relayVars>>,
           CallSucceeds(c) \/ CallFails(c),
           c.method = "markPayoutDue" => LateAnswered
    PROVE  /\ now' = now /\ faults' \in 0 .. MaxFaults /\ Calls /\ StoreKept
           /\ UNCHANGED relayVars /\ AnswersLast /\ Lasting
<1>1. FeeInv /\ faults \in 0 .. MaxFaults /\ quotes \in [Quote -> QuoteRecord]
  BY DEF DirectInv, DirectTypes, ChainTypeOK
<1>2. Attested(c) => Backed(c)
  <2>1. c.method = "cancelUnpaid" /\ Attested(c) => settledAt = 0 /\ now > ValidBefore
    BY DealAssumption DEF Attested, CancelAttested, DirectInv, DirectTypes
  <2>2. c.method = "capture" /\ Attested(c) => settledAt # 0
    BY DEF Attested, LifecycleAttested
  <2> QED BY <2>1, <2>2 DEF Backed
<1>3. Calls /\ faults' \in 0 .. MaxFaults
  <2>1. CASE CallSucceeds(c)
    BY <1>1, <1>2, <2>1 DEF CallSucceeds, Calls, Sends
  <2>2. CASE CallFails(c)
    BY <1>1, <1>2, <2>2, DealAssumption DEF CallFails, Calls, Sends, Quiet, Fault
  <2> QED BY <2>1, <2>2
<1>4. StoreKept
  BY <1>1 DEF StoreKept, Complete, storeVars
<1>5. AnswersLast
  BY <1>1 DEF AnswersLast, LateAnswered, relayVars, FeeInv
<1> QED BY <1>3, <1>4, <1>5, CallsKeep

(* A call that is made goes on, one that fails is given up. *)
LEMMA TransactWorks ==
    ASSUME DirectInv, NEW w \in Worker, NEW c \in Call, NEW next \in Pcs \ HolderPcs,
           c.method = "markPayoutDue" => LateAnswered,
           HoldsAt(w, next, grant(w), task[w].result), RequestAt(w, next),
           CallSucceeds(c) =>
             \/ ChainAt(w, next, task[w].result)
             \/ \A r : r = task[w].result => ChainAt(w, next, r)',
           Transact(w, c, next)
    PROVE  Works(w)
<1>1. UNCHANGED <<now, storeVars, relayVars>>
  BY DEF Transact
<1>2. CASE CallSucceeds(c) /\ Goto(w, next)
  BY <1>1, <1>2, CallWorks, GotoWorks
<1>3. CASE CallFails(c) /\ Fail(w)
  BY <1>1, <1>3, CallWorks, FailWorks
<1> QED BY <1>2, <1>3 DEF Transact

-------------------------------------------------------------------------------
(* The buyer's steps *)

(* Claiming the execution. *)
LEMMA ClaimingWorks ==
    ASSUME DirectInv, NEW w \in Buyer, Start(w) \/ Claim(w) \/ Retain(w)
    PROVE  Works(w)
<1> USE DEF GrantPcs, ForwardPcs, FundedPcs, ReceiptPcs, AnsweredPcs, ResolvedPcs, OrphanPcs,
            RefundPcs, CancelPcs, SavingPcs, MaySave, HolderPcs, Pcs
<1>1. w \in Worker /\ Knows(w)
  BY BuyerAssumption DEF DirectInv
<1>2. /\ task \in [Worker -> TypedTask] /\ quotes \in [Quote -> QuoteRecord] /\ now \in Nat
      /\ quotes[Deal] \in QuoteRecord
  BY DealAssumption DEF DirectInv, DirectTypes
<1>3. ASSUME pc(w) \in {"start", "claim", "retain"}
      PROVE  MayGo(w, "claim") /\ MayGo(w, "done") /\ MayGo(w, "retain") /\ MayGo(w, "readCovenant")
  BY <1>1, <1>3 DEF MayGo, Knows, Fits, HoldsAt, ChainAt, RequestAt
<1>4. CASE Start(w)
  BY <1>1, <1>3, <1>4, ReadWorks DEF Start, Finish
<1>5. CASE Claim(w)
  <2>1. pc(w) = "claim" /\ UNCHANGED <<now, chainVars, relayVars>>
    BY <1>5 DEF Claim
  <2>2. CASE Prepare(w, ClaimedRecord(quotes[Deal])) /\ UNCHANGED storeVars
    <3>1. ClaimedRecord(quotes[Deal]) \in QuoteRecord /\ ClaimedRecord(quotes[Deal]).state = "executing"
      BY <1>2, PreparedTypes
    <3> QED BY <1>1, <2>1, <2>2, <3>1, PrepareWorks DEF Reading
  <2>3. CASE task[w].sent /\ ScriptClaim(Deal, task[w].copy) /\ Goto(w, "retain")
    <3>1. /\ "retain" \in Pcs \ HolderPcs /\ HoldsAt(w, "retain", grant(w), task[w].result)
          /\ ChainAt(w, "retain", task[w].result) /\ RequestAt(w, "retain")
      BY <1>3, <2>1 DEF MayGo, Fits
    <3> QED BY <1>1, <2>1, <2>3, <3>1, WriteKeeps, GotoWorks
  <2>4. CASE UNCHANGED storeVars /\ Finish(w)
    BY <1>1, <1>3, <2>1, <2>4, ReadWorks DEF Finish, Reading
  <2> QED BY <1>5, <2>2, <2>3, <2>4 DEF Claim
<1>6. CASE Retain(w)
  <2>1. pc(w) = "retain"
    BY <1>6 DEF Retain
  <2>2. CASE Reading /\ ~task[w].sent
               /\ task' = [task EXCEPT ![w].copy = quotes[Deal], ![w].pc = "readCovenant"]
    BY <1>1, <1>3, <2>1, <2>2, CopyWorks
  <2>3. CASE Save(w, RetainedRecord(quotes[Deal]), "readCovenant")
    <3>1. /\ RetainedRecord(quotes[Deal]) \in QuoteRecord
          /\ RetainedRecord(quotes[Deal]).state = quotes[Deal].state
      BY <1>2, PreparedTypes
    <3> QED BY <1>1, <1>3, <2>1, <2>3, <3>1, SaveWorks
  <2> QED BY <1>6, <2>2, <2>3 DEF Retain
<1> QED BY <1>4, <1>5, <1>6

(* The covenant is issued and the fee funded. *)
LEMMA FundingWorks ==
    ASSUME DirectInv, NEW w \in Buyer, Issue(w) \/ Fund(w)
    PROVE  Works(w)
<1> USE DEF GrantPcs, ForwardPcs, FundedPcs, ReceiptPcs, AnsweredPcs, ResolvedPcs, OrphanPcs,
            RefundPcs, CancelPcs, SavingPcs, MaySave, HolderPcs, Pcs
<1>1. w \in Worker /\ Knows(w)
  BY BuyerAssumption DEF DirectInv
<1>2. /\ task \in [Worker -> TypedTask] /\ ChainTypeOK
      /\ task[w].copy \in QuoteRecord /\ task[w].copy.startedAtMs \in Nat
  BY <1>1 DEF DirectInv, DirectTypes, TypedTask, QuoteRecord
<1>3. ASSUME pc(w) \in {"readCovenant", "issue", "saveIssued", "rereadCovenant", "readFee"}
      PROVE  /\ MayGo(w, "issue") /\ MayGo(w, "saveIssued") /\ MayGo(w, "rereadCovenant")
             /\ MayGo(w, "readFee") /\ MayGo(w, "fund")
  BY <1>1, <1>3 DEF MayGo, Knows, Fits, HoldsAt, ChainAt, RequestAt
<1>4. CASE pc(w) = "readCovenant" /\ Issue(w)
  <2>1. Reading /\ ~task[w].sent
    BY <1>1, <1>4 DEF Issue, Knows, Sending
  <2>2. CASE Fail(w)
    BY <1>1, <2>1, <2>2, ReadFails
  <2>3. CASE Goto(w, "issue")
    BY <1>1, <1>3, <1>4, <2>1, <2>3, ReadWorks
  <2>4. CASE Saw(w, "readFee") \/ Saw(w, "saveIssued")
    BY <1>1, <1>3, <1>4, <2>1, <2>4, SeenWorks
  <2> QED BY <1>4, <2>2, <2>3, <2>4 DEF Issue
<1>5. CASE pc(w) = "issue" /\ Issue(w)
  <2> DEFINE c == [method |-> "issue", startedAt |-> task[w].copy.startedAtMs]
  <2>1. c \in Call /\ c.method = "issue"
    BY <1>2 DEF Call
  <2>2. Transact(w, c, "saveIssued")
    BY <1>5 DEF Issue
  <2>3. /\ "saveIssued" \in Pcs \ HolderPcs /\ HoldsAt(w, "saveIssued", grant(w), task[w].result)
        /\ ChainAt(w, "saveIssued", task[w].result) /\ RequestAt(w, "saveIssued")
    BY <1>3, <1>5 DEF MayGo, Fits
  <2> HIDE DEF c
  <2> QED BY <1>1, <2>1, <2>2, <2>3, TransactWorks
<1>6. CASE pc(w) = "saveIssued" /\ Issue(w)
  <2>1. PICK next \in {"rereadCovenant", "readFee"} : Checkpoint(w, "covenantIssued", next)
    BY <1>6 DEF Issue
  <2> QED BY <1>1, <1>3, <1>6, <2>1, CheckpointWorks
<1>7. CASE pc(w) = "rereadCovenant" /\ Issue(w)
  <2>1. Reading /\ ~task[w].sent /\ Saw(w, "readFee")
    BY <1>1, <1>7 DEF Issue, Knows, Sending
  <2> QED BY <1>1, <1>3, <1>7, <2>1, SeenWorks
<1>8. ASSUME pc(w) \in {"readFee", "fund", "saveFunded", "rereadFee"}
      PROVE  /\ feeState # "None" => MayGo(w, "saveFunded") /\ MayGo(w, "grant")
             /\ feeState # "None" /\ grant(w) # NoGrant => MayGo(w, "recover")
             /\ pc(w) = "saveFunded" => MayGo(w, "rereadFee") /\ feeState # "None"
             /\ pc(w) = "rereadFee" => feeState # "None"
  BY <1>1, <1>8 DEF MayGo, Knows, Fits, HoldsAt, ChainAt, RequestAt
<1>9. CASE pc(w) \in {"readFee", "rereadFee"} /\ Fund(w)
  <2>1. Reading /\ ~task[w].sent
    BY <1>1, <1>9 DEF Fund, Knows, Sending
  <2>2. CASE Fail(w)
    BY <1>1, <2>1, <2>2, ReadFails
  <2>3. CASE pc(w) = "readFee" /\ Goto(w, "fund")
    BY <1>1, <1>3, <2>1, <2>3, ReadWorks
  <2>4. CASE feeState # "None" /\ \E n \in {"saveFunded", AfterFunding(w)} :
               task' = [task EXCEPT ![w].fee = feeState, ![w].pc = n]
    <3>1. PICK n \in {"saveFunded", AfterFunding(w)} :
             task' = [task EXCEPT ![w].fee = feeState, ![w].pc = n]
      BY <2>4
    <3>2. MayGo(w, n)
      BY <1>8, <1>9, <2>4, <3>1 DEF AfterFunding
    <3> QED BY <1>1, <2>1, <3>1, <3>2, SeenWorks
  <2> QED BY <1>9, <2>2, <2>3, <2>4 DEF Fund
<1>10. CASE pc(w) = "fund" /\ Fund(w)
  <2> DEFINE c == [method |-> "fund"]
  <2>1. c \in Call /\ c.method = "fund"
    BY DEF Call
  <2>2. Transact(w, c, "saveFunded")
    BY <1>10 DEF Fund
  <2>3. /\ "saveFunded" \in Pcs \ HolderPcs /\ HoldsAt(w, "saveFunded", grant(w), task[w].result)
        /\ RequestAt(w, "saveFunded")
    BY <1>1, <1>10 DEF Knows, Fits, HoldsAt, RequestAt
  <2>4. ASSUME CallSucceeds(c) PROVE \A r : r = task[w].result => ChainAt(w, "saveFunded", r)'
    <3>1. feeState' = "Funded"
      BY <2>1, <2>4 DEF CallSucceeds, Mined
    <3> QED BY <3>1 DEF ChainAt
  <2> HIDE DEF c
  <2> QED BY <1>1, <2>1, <2>2, <2>3, <2>4, TransactWorks
<1>11. CASE pc(w) = "saveFunded" /\ Fund(w)
  <2>1. PICK next \in {"rereadFee", AfterFunding(w)} : Checkpoint(w, "feeFunded", next)
    BY <1>11 DEF Fund
  <2>2. MayGo(w, next)
    BY <1>8, <1>11, <2>1 DEF AfterFunding
  <2> QED BY <1>1, <1>11, <2>1, <2>2, CheckpointWorks
<1>12. CASE Issue(w)
  BY <1>12, <1>4, <1>5, <1>6, <1>7 DEF Issue
<1>13. CASE Fund(w)
  BY <1>13, <1>9, <1>10, <1>11 DEF Fund
<1> QED BY <1>12, <1>13

(* The grant is issued, and saved with the record. *)
LEMMA GrantingWorks ==
    ASSUME DirectInv, NEW w \in Buyer, GrantRelay(w)
    PROVE  Works(w)
<1> USE DEF GrantPcs, ForwardPcs, FundedPcs, ReceiptPcs, AnsweredPcs, ResolvedPcs, OrphanPcs,
            RefundPcs, CancelPcs, SavingPcs, MaySave, HolderPcs, Pcs
<1>1. w \in Worker /\ Knows(w) /\ pc(w) = "grant"
  BY BuyerAssumption DEF DirectInv, GrantRelay
<1>2. quotes[Deal] \in QuoteRecord /\ now \in Nat
  BY DealAssumption DEF DirectInv, DirectTypes
<1>3. CASE Reading /\ Fail(w)
  BY <1>1, <1>3, ReadFails
<1>4. CASE Save(w, GrantedRecord(quotes[Deal], IssuedGrant(w)), "recover")
  <2>1. IssuedGrant(w) \in Grant
    BY <1>1, <1>2 DEF IssuedGrant, Grant
  <2>2. /\ GrantedRecord(quotes[Deal], IssuedGrant(w)) \in QuoteRecord
        /\ GrantedRecord(quotes[Deal], IssuedGrant(w)).state = quotes[Deal].state
        /\ GrantedRecord(quotes[Deal], IssuedGrant(w)).relayGrant # NoGrant
    BY <1>2, <2>1, PreparedTypes, GrantAssumption
  <2>3. task[w].sent => MayGo(w, "recover")
    BY <1>1 DEF MayGo, Knows, Fits, HoldsAt, ChainAt, RequestAt, Sending
  <2> QED BY <1>1, <1>4, <2>2, <2>3, SaveWorks
<1> QED BY <1>3, <1>4 DEF GrantRelay

(* The fee is settled, by either side. *)
LEMMA FinalizingWorks ==
    ASSUME DirectInv, NEW w \in Worker, FinalizeFee(w)
    PROVE  Works(w)
<1> USE DEF GrantPcs, ForwardPcs, FundedPcs, ReceiptPcs, AnsweredPcs, ResolvedPcs, OrphanPcs,
            RefundPcs, CancelPcs, SavingPcs, MaySave, HolderPcs, Pcs
<1> DEFINE Here == {"finalizeFee", "capture", "refund", "captureFailed", "refundFailed", "saveFee"}
<1>1. Knows(w) /\ FeeInv /\ feeState \in {"None", "Funded", "Captured", "Refunded"}
  BY DEF DirectInv, DirectTypes, ChainTypeOK
<1>2. pc(w) \in Here
  BY DEF FinalizeFee
<1>3. feeState # "None"
  BY <1>1, <1>2 DEF Knows, Fits, HoldsAt, Earned, FeeInv
<1>4. task[w].result \in Receipt /\ settledAt # 0
  BY <1>1, <1>2 DEF DirectInv, DirectTypes, TypedTask, Knows, Fits, HoldsAt, Earned
<1>5. /\ MayGo(w, "capture") /\ MayGo(w, "refund")
      /\ MayGo(w, "captureFailed") /\ MayGo(w, "refundFailed")
      /\ Resolved => MayGo(w, "saveFee") /\ MayGo(w, "deliver")
      /\ pc(w) = "saveFee" => MayGo(w, "saveFee") /\ MayGo(w, "deliver")
  BY <1>1, <1>2 DEF MayGo, Knows, Fits, HoldsAt, ChainAt, RequestAt
<1>6. CASE pc(w) = "finalizeFee"
  <2>1. Reading
    BY <1>6 DEF FinalizeFee
  <2>2. CASE feeState = "Funded" /\ Goto(w, SettlementAction)
    BY <1>5, <2>1, <2>2, ReadWorks DEF SettlementAction
  <2>3. CASE feeState \in {"Captured", "Refunded"} /\ Goto(w, "saveFee")
    BY <1>5, <2>1, <2>3, ReadWorks DEF Resolved
  <2> QED BY <1>3, <1>6, <2>2, <2>3 DEF FinalizeFee
<1>7. ASSUME NEW c \in Call, c.method \in {"capture", "refund"},
             UNCHANGED <<now, storeVars, relayVars>>,
             \/ CallSucceeds(c) /\ Goto(w, "saveFee")
             \/ \E n \in {"captureFailed", "refundFailed"} : CallFails(c) /\ Goto(w, n)
      PROVE  Works(w)
  <2>1. CASE CallSucceeds(c) /\ Goto(w, "saveFee")
    <3>1. feeState' \in {"Captured", "Refunded"}
      BY <1>7, <2>1 DEF CallSucceeds, Mined
    <3>2. \A r : r = task[w].result => ChainAt(w, "saveFee", r)'
      BY <3>1 DEF ChainAt, Resolved
    <3>3. HoldsAt(w, "saveFee", grant(w), task[w].result) /\ RequestAt(w, "saveFee")
      BY <1>1, <1>2 DEF Knows, Fits, HoldsAt, RequestAt
    <3> QED BY <1>7, <2>1, <3>2, <3>3, CallWorks, GotoWorks
  <2>2. ASSUME NEW n \in {"captureFailed", "refundFailed"}, CallFails(c) /\ Goto(w, n)
        PROVE  Works(w)
    <3>1. /\ n \in Pcs \ HolderPcs /\ HoldsAt(w, n, grant(w), task[w].result)
          /\ ChainAt(w, n, task[w].result) /\ RequestAt(w, n)
      BY <1>5, <2>2 DEF MayGo, Fits
    <3> QED BY <1>7, <2>2, <3>1, CallWorks, GotoWorks
  <2> QED BY <1>7, <2>1, <2>2
<1>8. CASE pc(w) = "capture"
  <2> DEFINE c == [method |-> "capture", receipt |-> task[w].result]
  <2>1. c \in Call /\ c.method = "capture"
    BY <1>4 DEF Call
  <2>2. /\ UNCHANGED <<now, storeVars, relayVars>>
        /\ \/ CallSucceeds(c) /\ Goto(w, "saveFee")
           \/ CallFails(c) /\ Goto(w, "captureFailed")
    BY <1>8 DEF FinalizeFee
  <2> HIDE DEF c
  <2> QED BY <1>7, <2>1, <2>2
<1>9. CASE pc(w) = "refund"
  <2> DEFINE c == [method |-> "refund"]
  <2>1. c \in Call /\ c.method = "refund"
    BY DEF Call
  <2>2. /\ UNCHANGED <<now, storeVars, relayVars>>
        /\ \/ CallSucceeds(c) /\ Goto(w, "saveFee")
           \/ CallFails(c) /\ Goto(w, "refundFailed")
    BY <1>9 DEF FinalizeFee
  <2> HIDE DEF c
  <2> QED BY <1>7, <2>1, <2>2
<1>10. CASE pc(w) \in {"captureFailed", "refundFailed"}
  <2>1. Reading
    BY <1>10 DEF FinalizeFee
  <2>2. CASE feeState # "Funded" /\ Goto(w, "saveFee")
    BY <1>1, <1>3, <1>5, <2>1, <2>2, ReadWorks DEF Resolved
  <2>3. CASE Goto(w, "refund")
    BY <1>5, <2>1, <2>3, ReadWorks
  <2>4. CASE Fail(w)
    BY <2>1, <2>4, ReadFails
  <2> QED BY <1>10, <2>2, <2>3, <2>4 DEF FinalizeFee
<1>11. CASE pc(w) = "saveFee"
  <2>1. CASE Reading /\ ~task[w].sent
               /\ task' = [task EXCEPT ![w].fee = feeState, ![w].pc = "deliver"]
    BY <1>5, <1>11, <2>1, SeenWorks
  <2>2. ASSUME NEW stage, Checkpoint(w, stage, "saveFee") PROVE Works(w)
    BY <1>5, <1>11, <2>2, CheckpointWorks
  <2> QED BY <1>11, <2>1, <2>2 DEF FinalizeFee
<1> QED BY <1>2, <1>6, <1>8, <1>9, <1>10, <1>11

(* The clock is started. *)
LEMMA StartingClockWorks ==
    ASSUME DirectInv, NEW w \in Buyer, StartClock(w)
    PROVE  Works(w)
<1> USE DEF GrantPcs, ForwardPcs, FundedPcs, ReceiptPcs, AnsweredPcs, ResolvedPcs, OrphanPcs,
            RefundPcs, CancelPcs, SavingPcs, MaySave, HolderPcs, Pcs
<1> DEFINE Here == {"settled", "readClock", "rereadClock", "startClock", "saveClock", "saveClockSeen"}
<1>1. w \in Worker /\ Knows(w)
  BY BuyerAssumption DEF DirectInv
<1>2. pc(w) \in Here
  BY DEF StartClock
<1>3. task[w].result \in Receipt
  BY <1>1, <1>2 DEF DirectInv, DirectTypes, TypedTask, Knows, Fits, HoldsAt
<1>4. \A n \in Here \cup {"finalizeFee"} : MayGo(w, n)
  BY <1>1, <1>2 DEF MayGo, Knows, Fits, HoldsAt, ChainAt, RequestAt
<1>5. CASE pc(w) = "settled"
  <2>1. CASE Reading /\ Fail(w)
    BY <1>1, <2>1, ReadFails
  <2>2. CASE Checkpoint(w, "providerSettled", "readClock")
    BY <1>1, <1>4, <1>5, <2>2, CheckpointWorks
  <2> QED BY <1>5, <2>1, <2>2 DEF StartClock
<1>6. CASE pc(w) \in {"readClock", "rereadClock"}
  <2>1. Reading /\ ~task[w].sent
    BY <1>1, <1>6 DEF StartClock, Knows, Sending
  <2>2. CASE Goto(w, "startClock")
    BY <1>1, <1>4, <2>1, <2>2, ReadWorks
  <2>3. CASE Fail(w)
    BY <1>1, <2>1, <2>3, ReadFails
  <2>4. CASE Saw(w, "finalizeFee") \/ Saw(w, "saveClockSeen")
    BY <1>1, <1>4, <2>1, <2>4, SeenWorks
  <2> QED BY <1>6, <2>2, <2>3, <2>4 DEF StartClock
<1>7. CASE pc(w) = "startClock"
  <2> DEFINE c == [method |-> "startClock", receipt |-> task[w].result]
  <2>1. c \in Call /\ c.method = "startClock"
    BY <1>3 DEF Call
  <2>2. Transact(w, c, "saveClock")
    BY <1>7 DEF StartClock
  <2>3. /\ "saveClock" \in Pcs \ HolderPcs /\ HoldsAt(w, "saveClock", grant(w), task[w].result)
        /\ ChainAt(w, "saveClock", task[w].result) /\ RequestAt(w, "saveClock")
    BY <1>4 DEF MayGo, Fits
  <2> HIDE DEF c
  <2> QED BY <1>1, <2>1, <2>2, <2>3, TransactWorks
<1>8. CASE pc(w) = "saveClock"
  <2>1. Checkpoint(w, "clockStarted", "rereadClock")
    BY <1>8 DEF StartClock
  <2> QED BY <1>1, <1>4, <1>8, <2>1, CheckpointWorks
<1>9. CASE pc(w) = "saveClockSeen"
  <2>1. Checkpoint(w, "clockStarted", "finalizeFee")
    BY <1>9 DEF StartClock
  <2> QED BY <1>1, <1>4, <1>9, <2>1, CheckpointWorks
<1> QED BY <1>2, <1>5, <1>6, <1>7, <1>8, <1>9

(* The covenant's end. *)
LEMMA DeliveringWorks ==
    ASSUME DirectInv, NEW w \in Buyer, Deliver(w)
    PROVE  Works(w)
<1> USE DEF GrantPcs, ForwardPcs, FundedPcs, ReceiptPcs, AnsweredPcs, ResolvedPcs, OrphanPcs,
            RefundPcs, CancelPcs, SavingPcs, MaySave, HolderPcs, Pcs
<1> DEFINE Here == {"deliver", "release", "saveReleased", "rereadReleased"}
<1>1. w \in Worker /\ Knows(w)
  BY BuyerAssumption DEF DirectInv
<1>2. quotes[Deal] \in QuoteRecord /\ now \in Nat
  BY DealAssumption DEF DirectInv, DirectTypes
<1>3. pc(w) \in Here \cup {"complete", "yield"}
  BY DEF Deliver
<1>4. ASSUME pc(w) \in Here
      PROVE  /\ MayGo(w, "release") /\ MayGo(w, "saveReleased") /\ MayGo(w, "rereadReleased")
             /\ MayGo(w, "yield")
             /\ covenant.state \in {"Released", "Paid"} => MayGo(w, "complete")
  BY <1>1, <1>4 DEF MayGo, Knows, Fits, HoldsAt, ChainAt, RequestAt, Ended, SettledForGood, Resolved
<1>5. pc(w) \in Here => task[w].result \in Receipt
  BY <1>1 DEF DirectInv, DirectTypes, TypedTask, Knows, Fits, HoldsAt
<1>6. MayGo(w, "done")
  BY <1>1, <1>3 DEF MayGo, Knows, Fits, HoldsAt, ChainAt, RequestAt
<1>7. CASE pc(w) = "deliver"
  <2>1. Reading
    BY <1>7 DEF Deliver
  <2>2. CASE Fail(w)
    BY <1>1, <2>1, <2>2, ReadFails
  <2>3. CASE Goto(w, "release") \/ Goto(w, "yield")
    BY <1>1, <1>4, <1>7, <2>1, <2>3, ReadWorks
  <2>4. CASE covenant.state \in {"Released", "Paid"} /\ Goto(w, "complete")
    BY <1>1, <1>4, <1>7, <2>1, <2>4, ReadWorks
  <2> QED BY <1>7, <2>2, <2>3, <2>4 DEF Deliver
<1>8. CASE pc(w) = "release"
  <2> DEFINE c == [method |-> "release", receipt |-> task[w].result]
  <2>1. c \in Call /\ c.method = "release"
    BY <1>5, <1>8 DEF Call
  <2>2. Transact(w, c, "saveReleased")
    BY <1>8 DEF Deliver
  <2>3. /\ "saveReleased" \in Pcs \ HolderPcs
        /\ HoldsAt(w, "saveReleased", grant(w), task[w].result)
        /\ ChainAt(w, "saveReleased", task[w].result) /\ RequestAt(w, "saveReleased")
    BY <1>4, <1>8 DEF MayGo, Fits
  <2> HIDE DEF c
  <2> QED BY <1>1, <2>1, <2>2, <2>3, TransactWorks
<1>9. CASE pc(w) = "saveReleased"
  <2>1. Checkpoint(w, "coverageReleased", "rereadReleased")
    BY <1>9 DEF Deliver
  <2> QED BY <1>1, <1>4, <1>9, <2>1, CheckpointWorks
<1>10. CASE pc(w) = "rereadReleased"
  <2>1. Reading
    BY <1>10 DEF Deliver
  <2>2. CASE Fail(w)
    BY <1>1, <2>1, <2>2, ReadFails
  <2>3. CASE covenant.state = "Released" /\ Goto(w, "complete")
    BY <1>1, <1>4, <1>10, <2>1, <2>3, ReadWorks
  <2> QED BY <1>10, <2>2, <2>3 DEF Deliver
<1>11. CASE pc(w) = "complete"
  <2>1. Save(w, CompletedRecord(quotes[Deal]), "done")
    BY <1>11 DEF Deliver
  <2>2. CompletedRecord(quotes[Deal]) \in QuoteRecord
    BY <1>2, PreparedTypes
  <2>3. Ended
    BY <1>1, <1>11 DEF Knows, Fits, ChainAt
  <2> QED BY <1>1, <1>6, <1>11, <2>1, <2>2, <2>3, SaveWorks
<1>12. CASE pc(w) = "yield"
  <2>1. Save(w, YieldedRecord(quotes[Deal]), "done")
    BY <1>12 DEF Deliver
  <2>2. /\ YieldedRecord(quotes[Deal]) \in QuoteRecord
        /\ YieldedRecord(quotes[Deal]).state = quotes[Deal].state
    BY <1>2, PreparedTypes
  <2> QED BY <1>1, <1>6, <1>12, <2>1, <2>2, SaveWorks
<1> QED BY <1>3, <1>7, <1>8, <1>9, <1>10, <1>11, <1>12

(* The catch. *)
LEMMA RecedingWorks ==
    ASSUME DirectInv, NEW w \in Buyer, Recede(w)
    PROVE  Works(w)
<1> USE DEF GrantPcs, ForwardPcs, FundedPcs, ReceiptPcs, AnsweredPcs, ResolvedPcs, OrphanPcs,
            RefundPcs, CancelPcs, SavingPcs, MaySave, HolderPcs, Pcs
<1>1. w \in Worker /\ Knows(w)
  BY BuyerAssumption DEF DirectInv
<1>2. quotes[Deal] \in QuoteRecord /\ now \in Nat
  BY DealAssumption DEF DirectInv, DirectTypes
<1>3. pc(w) \in {"failing", "releaseQuote", "yieldQuote"}
  BY DEF Recede
<1>4. MayGo(w, "done") /\ MayGo(w, "releaseQuote") /\ MayGo(w, "yieldQuote")
  BY <1>1, <1>3 DEF MayGo, Knows, Fits, HoldsAt, ChainAt, RequestAt
<1>5. CASE pc(w) = "failing"
  BY <1>1, <1>4, <1>5, ReadWorks DEF Recede, Finish
<1>6. CASE pc(w) \in {"releaseQuote", "yieldQuote"}
  <2>1. UNCHANGED <<now, chainVars, relayVars>>
    BY <1>6 DEF Recede
  <2>2. CASE UNCHANGED storeVars /\ \E r \in {YieldedRecord(quotes[Deal]), ReleasedRecord(quotes[Deal])} :
               Prepare(w, r)
    <3>1. PICK r \in {YieldedRecord(quotes[Deal]), ReleasedRecord(quotes[Deal])} : Prepare(w, r)
      BY <2>2
    <3>2. r \in QuoteRecord /\ (r.state = "complete" => Complete)
      BY <1>2, <3>1, PreparedTypes DEF Complete
    <3> QED BY <1>1, <1>6, <2>1, <2>2, <3>1, <3>2, PrepareWorks DEF Reading
  <2>3. CASE /\ task[w].sent /\ Goto(w, "done")
             /\ ScriptUpdate(Deal, task[w].copy) \/ ScriptRelease(Deal, task[w].copy)
    <3>1. /\ "done" \in Pcs \ HolderPcs /\ HoldsAt(w, "done", grant(w), task[w].result)
          /\ ChainAt(w, "done", task[w].result) /\ RequestAt(w, "done")
      BY <1>4 DEF MayGo, Fits
    <3> QED BY <1>1, <2>1, <2>3, <3>1, WriteKeeps, GotoWorks
  <2>4. CASE UNCHANGED storeVars /\ Goto(w, "done")
    BY <1>1, <1>4, <2>1, <2>4, ReadWorks DEF Reading
  <2> QED BY <1>6, <2>2, <2>3, <2>4 DEF Recede, Finish
<1> QED BY <1>3, <1>5, <1>6

-------------------------------------------------------------------------------
(* The relay *)

\* A signed receipt that is on record stays.
ReceiptStays == relayReceipt # NoReceipt => relayReceipt' = relayReceipt

\* A step that moves the relay's claims, its receipt or the provider's answers.
Relays(w) ==
    /\ now' = now /\ faults' \in 0 .. MaxFaults
    /\ Calls /\ StoreKept /\ AnswersLast
    /\ RelayTypeOK' /\ ReceiptInv' /\ ReceiptStays /\ ClaimInv'
    /\ task' \in [Worker -> TypedTask] /\ OthersStay(w)
    /\ Knows(w)'

(* A step that leaves time, the record and the chain alone. *)
LEMMA RelayStepKeeps ==
    ASSUME DirectInv, UNCHANGED <<now, storeVars, chainVars>>, AnswersLast
    PROVE  now' = now /\ faults' \in 0 .. MaxFaults /\ Calls /\ StoreKept /\ Lasting
<1>1. faults \in 0 .. MaxFaults /\ quotes \in [Quote -> QuoteRecord]
  BY DEF DirectInv, DirectTypes, ChainTypeOK
<1>2. Calls /\ faults' \in 0 .. MaxFaults
  BY <1>1 DEF Calls, Quiet, chainVars
<1>3. StoreKept
  BY <1>1 DEF StoreKept, Complete, storeVars
<1> QED BY <1>2, <1>3, CallsKeep

(* Unless somebody is answered, the answers stay. *)
LEMMA UnansweredStay ==
    ASSUME DirectInv, forwarded' = forwarded
    PROVE  AnswersLast
BY DEF DirectInv, FeeInv, AnswersLast, LateAnswered

(* A step that takes no claim of its own leaves the holders, or fewer. *)
LEMMA HoldersShrink ==
    ASSUME NEW w \in Worker, OthersStay(w), forwarded' = forwarded, task'[w].pc \notin HolderPcs
    PROVE  \A u \in Worker : Holder(u)' => Holder(u)
BY DEF Holder, OthersStay, HolderPcs, pc

(* Claiming: what was claimed before has lapsed or was never claimed. *)
LEMMA ReserveKeeps ==
    ASSUME DirectInv, NEW g \in Grant, ReserveRelayExecution(g), UNCHANGED <<now, settledAt>>
    PROVE  /\ RelayTypeOK' /\ ReceiptInv' /\ ReceiptStays /\ AnswersLast
           /\ paymentClaim' = "pending" /\ claimsExpireAt' >= ValidBefore
           /\ forwarded' = forwarded
           /\ now < ValidBefore => \A u \in Worker : ~Holder(u)
<1>1. RelayTypeOK /\ ReceiptInv /\ ClaimInv /\ now \in Nat
  BY DEF DirectInv, DirectTypes
<1>2. ClaimLifetime \in Nat /\ ClaimLifetime >= ValidBefore
  BY <1>1, DealAssumption, RelayAssumption DEF ClaimLifetime
<1>3. /\ paymentClaim' = "pending" /\ claimsExpireAt' = ClaimLifetime
      /\ UNCHANGED <<relayReceipt, forwarded>>
      /\ grantClaim' = [u \in Worker |-> IF u = g.by THEN "pending"
                                         ELSE IF grantClaim[u] = "pending" THEN "free"
                                         ELSE grantClaim[u]]
  BY DEF ReserveRelayExecution
<1>4. RelayTypeOK'
  BY <1>1, <1>2, <1>3 DEF RelayTypeOK
<1>5. paymentClaim = "free" \/ (paymentClaim = "pending" /\ now >= claimsExpireAt)
  BY <1>1 DEF ReserveRelayExecution, CanReserve, Claimed, Lapsed
<1>6. AnswersLast
  BY <1>3, UnansweredStay
<1>7. ReceiptInv'
  BY <1>1, <1>3, <1>5, <1>6 DEF ReceiptInv, Earned, AnswersLast
<1>8. now < ValidBefore => paymentClaim = "free"
  BY <1>1, <1>5, DealAssumption DEF ClaimInv, RelayTypeOK
<1> QED BY <1>1, <1>2, <1>3, <1>4, <1>6, <1>7, <1>8 DEF ClaimInv, ReceiptStays

(* Committing: the claims are this grant's, or the receipt is on record already. *)
LEMMA CommitKeeps ==
    ASSUME DirectInv, NEW w \in Worker, NEW g \in Grant, NEW r \in Receipt, Earned(r),
           CommitRelayExecutionReceipt(g, r), UNCHANGED <<now, settledAt>>,
           OthersStay(w), task'[w].pc \notin HolderPcs
    PROVE  /\ RelayTypeOK' /\ ReceiptInv' /\ ReceiptStays /\ ClaimInv' /\ AnswersLast
           /\ forwarded' = forwarded
<1>1. RelayTypeOK /\ ReceiptInv /\ ClaimInv /\ now \in Nat
  BY DEF DirectInv, DirectTypes
<1>2. /\ grantClaim' = [grantClaim EXCEPT ![g.by] = "consumed"]
      /\ paymentClaim' = "consumed" /\ relayReceipt' = r
      /\ UNCHANGED <<claimsExpireAt, forwarded>>
  BY DEF CommitRelayExecutionReceipt
<1>3. RelayTypeOK'
  BY <1>1, <1>2 DEF RelayTypeOK
<1>4. AnswersLast
  BY <1>2, UnansweredStay
<1>5. ReceiptInv'
  BY <1>2, <1>4 DEF ReceiptInv, Earned, AnswersLast
<1>6. ClaimInv'
  BY <1>1, <1>2, HoldersShrink DEF ClaimInv
<1>7. ReceiptStays
  BY <1>1, <1>2 DEF CommitRelayExecutionReceipt, CanCommit, PendingBoth, ReceiptInv, ReceiptStays
<1> QED BY <1>2, <1>3, <1>4, <1>5, <1>6, <1>7

(* A worker that commits, or fails to, and goes on. *)
LEMMA CommittingWorks ==
    ASSUME DirectInv, NEW w \in Worker, grant(w) \in Grant, task[w].result \in Receipt,
           UNCHANGED <<now, storeVars, chainVars>>,
           CommitRelayExecutionReceipt(grant(w), task[w].result),
           Goto(w, "settled"), MayGo(w, "settled")
    PROVE  Relays(w)
<1>1. task \in [Worker -> TypedTask] /\ Knows(w)
  BY DEF DirectInv, DirectTypes
<1>2. /\ "settled" \in Pcs /\ "settled" # "done" /\ "settled" \notin HolderPcs
      /\ HoldsAt(w, "settled", grant(w), task[w].result)
      /\ ChainAt(w, "settled", task[w].result) /\ RequestAt(w, "settled")
      /\ Earned(task[w].result)
  BY <1>1 DEF MayGo, Fits, Knows, HolderPcs
<1>3. MovesTo(w, "settled") /\ Keeps(w)
  BY <1>1, <1>2, GotoMoves
<1>4. forwarded' = forwarded
  BY DEF CommitRelayExecutionReceipt
<1>5. OthersStay(w) /\ task'[w].pc \notin HolderPcs
  BY <1>2, <1>3, <1>4 DEF OthersStay, MovesTo
<1>6. RelayTypeOK' /\ ReceiptInv' /\ ReceiptStays /\ ClaimInv' /\ AnswersLast
  BY <1>2, <1>5, CommitKeeps DEF chainVars
<1>7. RequestAt(w, "settled")'
  BY <1>2, <1>4 DEF RequestAt
<1>8. Knows(w)'
  <2>1. PICK g, r : g = grant(w) /\ r = task[w].result
    OBVIOUS
  <2> QED BY <1>2, <1>3, <1>6, <1>7, <2>1, RelayStepKeeps, MovesKnow DEF Keeps
<1> QED BY <1>3, <1>5, <1>6, <1>8, RelayStepKeeps DEF Relays, MovesTo

(* relay.recover, by either side. *)
LEMMA RecoveringWorks ==
    ASSUME DirectInv, NEW w \in Worker, Recover(w)
    PROVE  Works(w) \/ Relays(w)
<1> USE DEF GrantPcs, ForwardPcs, FundedPcs, ReceiptPcs, AnsweredPcs, ResolvedPcs, OrphanPcs,
            RefundPcs, CancelPcs, SavingPcs, MaySave, HolderPcs, Pcs
<1>1. task \in [Worker -> TypedTask] /\ Knows(w) /\ ReceiptInv /\ RelayTypeOK /\ ChainTypeOK
  BY DEF DirectInv, DirectTypes
<1>2. pc(w) \in {"recover", "search", "commitRecovery", "reserveRecovery", "recommitRecovery",
                 "recoverAgain"}
  BY DEF Recover
<1>3. grant(w) \in Grant /\ ~task[w].sent
  BY <1>1, <1>2 DEF Knows, Fits, HoldsAt, Sending, TypedTask, QuoteRecord, grant
<1>4. pc(w) \in ReceiptPcs => task[w].result \in Receipt
  BY <1>1, <1>2 DEF Knows, Fits, HoldsAt, TypedTask
<1>5. /\ MayGo(w, "search") /\ MayGo(w, "unsettled") /\ MayGo(w, "recoverAgain")
      /\ pc(w) \in ReceiptPcs =>
           MayGo(w, "settled") /\ MayGo(w, "reserveRecovery") /\ MayGo(w, "recommitRecovery")
  BY <1>1, <1>2 DEF MayGo, Knows, Fits, HoldsAt, ChainAt, RequestAt
<1>6. ASSUME NEW r \in Receipt
      PROVE  /\ HoldsAt(w, "settled", grant(w), r) /\ ChainAt(w, "settled", r)
             /\ RequestAt(w, "settled")
             /\ pc(w) = "search" =>
                  HoldsAt(w, "commitRecovery", grant(w), r) /\ ChainAt(w, "commitRecovery", r)
                    /\ RequestAt(w, "commitRecovery")
  BY <1>1, <1>2, <1>3, RelayAssumption, GrantAssumption
     DEF Knows, Fits, HoldsAt, ChainAt, RequestAt
<1>7. CASE pc(w) \in {"recover", "recoverAgain"}
  <2>1. Reading
    BY <1>7 DEF Recover
  <2>2. CASE Fail(w)
    BY <2>1, <2>2, ReadFails
  <2>3. CASE relayReceipt # NoReceipt
               /\ task' = [task EXCEPT ![w].result = relayReceipt, ![w].pc = "settled"]
    <3>1. relayReceipt \in Receipt /\ Earned(relayReceipt)
      BY <1>1, <2>3 DEF RelayTypeOK, ReceiptInv
    <3> QED BY <1>3, <1>6, <2>1, <2>3, <3>1, ReceiptWorks
  <2>4. CASE Goto(w, "search")
    BY <1>5, <2>1, <2>4, ReadWorks
  <2> QED BY <1>7, <2>2, <2>3, <2>4 DEF Recover
<1>8. CASE pc(w) = "search"
  <2>1. Reading
    BY <1>8 DEF Recover
  <2>2. CASE /\ SettlementFound(grant(w).issuedAt)
             /\ task' = [task EXCEPT ![w].result = RecoveredReceipt(grant(w)),
                                     ![w].pc = "commitRecovery"]
    <3>1. RecoveredReceipt(grant(w)) \in Receipt /\ RecoveredReceipt(grant(w)).kind = "recovery"
      BY <1>1, <1>3 DEF RecoveredReceipt, Receipt, ChainTypeOK
    <3>2. Earned(RecoveredReceipt(grant(w)))
      BY <2>2, <3>1 DEF SettlementFound, Earned
    <3> QED BY <1>3, <1>6, <1>8, <2>1, <2>2, <3>1, <3>2, ReceiptWorks
  <2>3. CASE Goto(w, "unsettled")
    BY <1>5, <2>1, <2>3, ReadWorks
  <2> QED BY <1>8, <2>2, <2>3 DEF Recover
<1>9. CASE pc(w) \in {"commitRecovery", "recommitRecovery"}
  <2>1. UNCHANGED <<now, storeVars, chainVars>>
    BY <1>9 DEF Recover
  <2>2. CASE CommitRelayExecutionReceipt(grant(w), task[w].result) /\ Goto(w, "settled")
    BY <1>3, <1>4, <1>5, <1>9, <2>1, <2>2, CommittingWorks
  <2>3. CASE UNCHANGED relayVars /\ Goto(w, "reserveRecovery")
    BY <1>5, <1>9, <2>1, <2>3, ReadWorks DEF Reading
  <2>4. CASE UNCHANGED relayVars /\ Fail(w)
    BY <2>1, <2>4, ReadFails DEF Reading
  <2> QED BY <1>9, <2>2, <2>3, <2>4 DEF Recover
<1>10. CASE pc(w) = "reserveRecovery"
  <2>1. UNCHANGED <<now, storeVars, chainVars>>
    BY <1>10 DEF Recover
  <2>2. ASSUME ReserveRelayExecution(grant(w)), Goto(w, "recommitRecovery")
        PROVE  Relays(w)
    <3>1. MovesTo(w, "recommitRecovery") /\ Keeps(w)
      BY <1>1, <2>2, GotoMoves
    <3>2. /\ RelayTypeOK' /\ ReceiptInv' /\ ReceiptStays /\ AnswersLast
          /\ paymentClaim' = "pending" /\ claimsExpireAt' >= ValidBefore
          /\ forwarded' = forwarded
      BY <1>3, <2>1, <2>2, ReserveKeeps DEF chainVars
    <3>3. OthersStay(w) /\ task'[w].pc \notin HolderPcs
      BY <3>1, <3>2 DEF OthersStay, MovesTo
    <3>4. ClaimInv'
      BY <3>2, <3>3, HoldersShrink DEF ClaimInv, DirectInv
    <3>5. /\ HoldsAt(w, "recommitRecovery", grant(w), task[w].result)
          /\ ChainAt(w, "recommitRecovery", task[w].result) /\ RequestAt(w, "recommitRecovery")
          /\ Earned(task[w].result)
      BY <1>1, <1>5, <1>10 DEF MayGo, Fits, Knows
    <3>6. RequestAt(w, "recommitRecovery")'
      BY <3>2, <3>5 DEF RequestAt
    <3>7. Knows(w)'
      <4>1. PICK g, r : g = grant(w) /\ r = task[w].result
        OBVIOUS
      <4> QED BY <2>1, <3>1, <3>2, <3>5, <3>6, <4>1, RelayStepKeeps, MovesKnow DEF Keeps
    <3> QED BY <2>1, <3>1, <3>2, <3>3, <3>4, <3>7, RelayStepKeeps DEF Relays, MovesTo
  <2>3. CASE UNCHANGED relayVars /\ Goto(w, "recoverAgain")
    BY <1>5, <2>1, <2>3, ReadWorks DEF Reading
  <2> QED BY <1>10, <2>2, <2>3 DEF Recover
<1> QED BY <1>2, <1>7, <1>8, <1>9, <1>10

(* The steps of a task that answers move. *)
LEMMA SentMoves ==
    ASSUME task \in [Worker -> TypedTask], now \in Nat, NEW w \in Worker, ~task[w].sent,
           task' = [task EXCEPT ![w].sentAt = now, ![w].posts = 1, ![w].pc = "await"]
    PROVE  MovesTo(w, "await") /\ Keeps(w)
<1> DEFINE t == task[w]
           s == [t EXCEPT !.sentAt = now, !.posts = 1, !.pc = "await"]
<1>1. t \in TypedTask /\ task' = [task EXCEPT ![w] = s] /\ "await" \in Pcs
  BY DEF Pcs, FundedPcs, ForwardPcs
<1>2. s \in TypedTask /\ s.pc = "await" /\ s.sent = t.sent /\ s.copy = t.copy /\ s.result = t.result
  BY <1>1 DEF TypedTask
<1> HIDE DEF s
<1> QED BY <1>1, <1>2 DEF MovesTo, Keeps, grant

(* The same request goes to the next address. *)
LEMMA PostMoves ==
    ASSUME task \in [Worker -> TypedTask], NEW w \in Worker, ~task[w].sent, pc(w) = "await",
           PostToNextAddress(w)
    PROVE  MovesTo(w, "await") /\ Keeps(w)
<1> DEFINE t == task[w]
           s == [t EXCEPT !.posts = t.posts + 1]
<1>1. t \in TypedTask /\ task' = [task EXCEPT ![w] = s] /\ t.pc = "await"
  BY DEF PostToNextAddress, pc
<1>2. s \in TypedTask /\ s.pc = "await" /\ s.sent = t.sent /\ s.copy = t.copy /\ s.result = t.result
  BY <1>1 DEF TypedTask
<1> HIDE DEF s
<1> QED BY <1>1, <1>2 DEF MovesTo, Keeps, grant

(* An answer to the request of w, which had none. *)
LEMMA AnswerKeeps ==
    ASSUME DirectInv, NEW w \in Buyer, NEW kind \in {"sent", "unpaid", "timely", "late"},
           pc(w) \in {"send", "await"}, Answered(w, kind),
           \A u \in Worker \ {w} : task'[u] = task[u],
           UNCHANGED <<now, settledAt, grantClaim, paymentClaim, claimsExpireAt, relayReceipt>>
    PROVE  /\ RelayTypeOK' /\ ReceiptInv' /\ ReceiptStays /\ ClaimInv' /\ AnswersLast /\ OthersStay(w)
           /\ forwarded'[w] = kind
<1>1. w \in Worker /\ Knows(w) /\ RelayTypeOK /\ ReceiptInv /\ ClaimInv /\ FeeInv
  BY BuyerAssumption DEF DirectInv, DirectTypes
<1>2. forwarded' = [forwarded EXCEPT ![w] = kind]
  BY DEF Answered
<1>3. RelayTypeOK' /\ forwarded'[w] = kind
  BY <1>1, <1>2 DEF RelayTypeOK
<1>4. OthersStay(w)
  BY <1>1, <1>2 DEF OthersStay
<1>5. forwarded[w] # "late"
  BY <1>1 DEF Knows, Fits, RequestAt, AnsweredPcs
<1>6. feeState # "None"
  BY <1>1 DEF Knows, Fits, ChainAt, FundedPcs, ForwardPcs
<1>7. AnswersLast
  BY <1>4, <1>5, <1>6 DEF AnswersLast, LateAnswered, OthersStay
<1>8. ReceiptInv'
  BY <1>1, <1>7 DEF ReceiptInv, Earned, AnswersLast
<1>9. Holder(w)
  <2>1. pc(w) = "send" \/ pc(w) = "await"
    OBVIOUS
  <2> QED BY <2>1 DEF Holder
<1>10. \A u \in Worker : Holder(u)' => Holder(u)
  BY <1>4, <1>9 DEF Holder, OthersStay, pc
<1>11. ClaimInv'
  BY <1>1, <1>10 DEF ClaimInv
<1> QED BY <1>3, <1>4, <1>7, <1>8, <1>11 DEF ReceiptStays

(* The buyer's request to the provider. *)
LEMMA ForwardingWorks ==
    ASSUME DirectInv, NEW w \in Buyer, Forward(w)
    PROVE  Works(w) \/ Relays(w)
<1> USE DEF GrantPcs, ForwardPcs, FundedPcs, ReceiptPcs, AnsweredPcs, ResolvedPcs, OrphanPcs,
            RefundPcs, CancelPcs, SavingPcs, MaySave, HolderPcs, Pcs
<1>1. /\ w \in Worker /\ task \in [Worker -> TypedTask] /\ Knows(w)
      /\ ReceiptInv /\ RelayTypeOK /\ ClaimInv /\ FeeInv /\ now \in Nat
  BY BuyerAssumption DEF DirectInv, DirectTypes
<1>2. pc(w) \in ForwardPcs
  BY DEF Forward
<1>3. grant(w) \in Grant /\ ~task[w].sent
  BY <1>1, <1>2 DEF Knows, Fits, HoldsAt, Sending, TypedTask, QuoteRecord, grant
<1>4. /\ pc(w) = "unsettled" => MayGo(w, "reserve")
      /\ pc(w) = "commit" => MayGo(w, "settled") /\ task[w].result \in Receipt
  BY <1>1, <1>2 DEF MayGo, Knows, Fits, HoldsAt, ChainAt, RequestAt, TypedTask
<1>5. PICK g, r : g = grant(w) /\ r = task[w].result
  OBVIOUS
<1>6. g # NoGrant /\ Earned(r) /\ feeState # "None"
  BY <1>1, <1>2, <1>5 DEF Knows, Fits, HoldsAt, ChainAt
<1>7. CASE pc(w) = "unsettled"
  <2>1. UNCHANGED <<now, storeVars, relayVars>>
    BY <1>7 DEF Forward
  <2>2. CASE UNCHANGED chainVars /\ Goto(w, "reserve")
    BY <1>1, <1>4, <1>7, <2>1, <2>2, ReadWorks DEF Reading
  <2>3. CASE UNCHANGED chainVars /\ Fail(w)
    BY <1>1, <2>1, <2>3, ReadFails DEF Reading
  <2>4. CASE Unanswered /\ Fail(w)
    BY <1>1, <2>1, <2>4, ReadFails
  <2> QED BY <1>7, <2>2, <2>3, <2>4 DEF Forward
<1>8. CASE pc(w) = "reserve"
  <2>1. UNCHANGED <<now, storeVars, chainVars>>
    BY <1>8 DEF Forward
  <2>2. ASSUME GrantAlive, ReserveRelayExecution(grant(w)), Goto(w, "send")
        PROVE  Relays(w)
    <3>1. MovesTo(w, "send") /\ Keeps(w)
      BY <1>1, <2>2, GotoMoves
    <3>2. /\ RelayTypeOK' /\ ReceiptInv' /\ ReceiptStays /\ AnswersLast
          /\ paymentClaim' = "pending" /\ claimsExpireAt' >= ValidBefore
          /\ forwarded' = forwarded
          /\ \A u \in Worker : ~Holder(u)
      BY <1>3, <2>1, <2>2, ReserveKeeps DEF chainVars, GrantAlive
    <3>3. OthersStay(w)
      BY <3>1, <3>2 DEF OthersStay, MovesTo
    <3>4. \A u \in Worker : Holder(u)' => u = w
      BY <3>2, <3>3 DEF Holder, OthersStay, pc
    <3>5. ClaimInv'
      BY <3>2, <3>4 DEF ClaimInv
    <3>6. HoldsAt(w, "send", g, r) /\ ChainAt(w, "send", r)
      BY <1>6 DEF HoldsAt, ChainAt
    <3>7. RequestAt(w, "send")'
      BY <1>1, <1>8, <3>2 DEF Knows, Fits, RequestAt
    <3>8. Knows(w)'
      BY <1>1, <1>5, <1>6, <2>1, <3>1, <3>2, <3>6, <3>7, RelayStepKeeps, MovesKnow DEF Keeps
    <3> QED BY <2>1, <3>1, <3>2, <3>3, <3>5, <3>8, RelayStepKeeps DEF Relays, MovesTo
  <2>3. CASE UNCHANGED relayVars /\ Fail(w)
    BY <1>1, <2>1, <2>3, ReadFails DEF Reading
  <2> QED BY <1>8, <2>2, <2>3 DEF Forward
<1>9. CASE pc(w) = "send"
  <2>1. /\ UNCHANGED <<now, storeVars, chainVars>>
        /\ UNCHANGED <<grantClaim, paymentClaim, claimsExpireAt, relayReceipt>>
        /\ Answered(w, "sent")
        /\ task' = [task EXCEPT ![w].sentAt = now, ![w].posts = 1, ![w].pc = "await"]
    BY <1>9 DEF Forward
  <2>2. MovesTo(w, "await") /\ Keeps(w)
    BY <1>1, <1>3, <2>1, SentMoves
  <2>3. /\ RelayTypeOK' /\ ReceiptInv' /\ ReceiptStays /\ ClaimInv' /\ AnswersLast /\ OthersStay(w)
        /\ forwarded'[w] = "sent"
    BY <1>9, <2>1, <2>2, AnswerKeeps DEF chainVars, MovesTo
  <2>4. HoldsAt(w, "await", g, r) /\ ChainAt(w, "await", r)
    BY <1>6 DEF HoldsAt, ChainAt
  <2>5. RequestAt(w, "await")'
    BY <2>3 DEF RequestAt
  <2>6. Knows(w)'
    BY <1>1, <1>5, <1>6, <2>1, <2>2, <2>3, <2>4, <2>5, RelayStepKeeps, MovesKnow DEF Keeps
  <2> QED BY <2>1, <2>2, <2>3, <2>6, RelayStepKeeps DEF Relays, MovesTo
<1>10. CASE pc(w) = "await"
  <2>1. /\ UNCHANGED <<now, storeVars>>
        /\ UNCHANGED <<grantClaim, paymentClaim, claimsExpireAt, relayReceipt>>
    BY <1>10 DEF Forward
  <2>2. ASSUME Answered(w, "unpaid"), UNCHANGED chainVars, Goto(w, "releaseClaims")
        PROVE  Relays(w)
    <3>1. MovesTo(w, "releaseClaims") /\ Keeps(w)
      BY <1>1, <2>2, GotoMoves
    <3>2. /\ RelayTypeOK' /\ ReceiptInv' /\ ReceiptStays /\ ClaimInv' /\ AnswersLast /\ OthersStay(w)
          /\ forwarded'[w] = "unpaid"
      BY <1>10, <2>1, <2>2, <3>1, AnswerKeeps DEF chainVars, MovesTo
    <3>3. HoldsAt(w, "releaseClaims", g, r) /\ ChainAt(w, "releaseClaims", r)
      BY <1>6 DEF HoldsAt, ChainAt
    <3>4. RequestAt(w, "releaseClaims")'
      BY <3>2 DEF RequestAt
    <3>5. Knows(w)'
      BY <1>1, <1>5, <1>6, <2>1, <2>2, <3>1, <3>2, <3>3, <3>4, RelayStepKeeps, MovesKnow DEF Keeps
    <3> QED BY <2>1, <2>2, <3>1, <3>2, <3>5, RelayStepKeeps DEF Relays, MovesTo
  <2>3. CASE UNCHANGED forwarded /\ Unanswered /\ Fail(w)
    BY <1>1, <2>1, <2>3, ReadFails DEF relayVars
  <2>5. CASE UNCHANGED <<forwarded, chainVars>> /\ PostToNextAddress(w)
    <3>1. MovesTo(w, "await") /\ Keeps(w)
      BY <1>1, <1>3, <1>10, <2>5, PostMoves
    <3>2. RequestAt(w, "await")'
      BY <1>1, <1>10, <2>5 DEF Knows, Fits, RequestAt
    <3>3. HoldsAt(w, "await", g, r) /\ ChainAt(w, "await", r)
      BY <1>6 DEF HoldsAt, ChainAt
    <3>4. Reading
      BY <2>1, <2>5 DEF Reading, relayVars
    <3>5. Knows(w)'
      BY <1>1, <1>5, <1>6, <3>1, <3>2, <3>3, <3>4, ReadingKeeps, MovesKnow DEF Keeps
    <3>6. OthersStay(w)
      BY <2>5, <3>1 DEF OthersStay, MovesTo
    <3> QED BY <1>10, <3>1, <3>4, <3>5, <3>6, ReadingKeeps DEF Works, MovesTo
  <2>4. ASSUME settledAt # 0, UNCHANGED chainVars, NEW kind \in Answers(task[w].sentAt),
               Answered(w, kind),
               task' = [task EXCEPT ![w].pc = "commit", ![w].sentAt = 0, ![w].posts = 0,
                           ![w].result = PaidReceipt(kind, grant(w), task[w].sentAt)]
        PROVE  Relays(w)
    <3> DEFINE p == PaidReceipt(kind, grant(w), task[w].sentAt)
    <3>1. kind \in {"timely", "late"}
      BY <2>4 DEF Answers
    <3>2. p \in Receipt /\ p.kind = kind
      BY <1>1, <1>3, <3>1 DEF PaidReceipt, Receipt, TypedTask
    <3>3. p # NoReceipt
      BY <3>2, RelayAssumption
    <3> HIDE DEF p
    <3>4. task' = [task EXCEPT ![w].pc = "commit", ![w].sentAt = 0, ![w].posts = 0, ![w].result = p]
      BY <2>4 DEF p
    <3>5. MovesTo(w, "commit") /\ task'[w].copy.relayGrant = g /\ task'[w].result = p
      BY <1>1, <1>3, <1>5, <3>2, <3>4, ReceiptMoves
    <3>6. /\ RelayTypeOK' /\ ReceiptInv' /\ ReceiptStays /\ ClaimInv' /\ AnswersLast /\ OthersStay(w)
          /\ forwarded'[w] = kind
      BY <1>10, <2>1, <2>4, <3>1, <3>5, AnswerKeeps DEF chainVars, MovesTo
    <3>7. PICK q : q = p
      OBVIOUS
    <3>8. HoldsAt(w, "commit", g, q) /\ ChainAt(w, "commit", q)
      BY <1>6, <3>3, <3>7 DEF HoldsAt, ChainAt
    <3>9. RequestAt(w, "commit")'
      BY DEF RequestAt
    <3>10. Earned(q)'
      BY <1>1, <2>4, <3>2, <3>6, <3>7 DEF Earned, LateAnswered, chainVars
    <3>11. Knows(w)'
      BY <1>1, <2>1, <2>4, <3>5, <3>6, <3>7, <3>8, <3>9, <3>10, RelayStepKeeps, MovesKnow
    <3> QED BY <2>1, <2>4, <3>5, <3>6, <3>11, RelayStepKeeps DEF Relays, MovesTo
  <2> QED BY <1>10, <2>2, <2>3, <2>4, <2>5 DEF Forward
<1>11. CASE pc(w) = "releaseClaims"
  <2>1. UNCHANGED <<now, storeVars, chainVars>> /\ ReleaseRelayExecution(grant(w)) /\ Fail(w)
    BY <1>11 DEF Forward
  <2>2. MovesTo(w, "failing") /\ task'[w].result = NoReceipt
    BY <1>1, <2>1, FailMoves
  <2>3. /\ \/ /\ PendingBoth(grant(w))
              /\ grantClaim' = [grantClaim EXCEPT ![grant(w).by] = "free"]
              /\ paymentClaim' = "free"
           \/ UNCHANGED <<grantClaim, paymentClaim>>
        /\ UNCHANGED <<claimsExpireAt, relayReceipt, forwarded>>
    BY <2>1 DEF ReleaseRelayExecution
  <2>4. AnswersLast
    BY <2>3, UnansweredStay
  <2>5. RelayTypeOK'
    BY <1>1, <2>3 DEF RelayTypeOK
  <2>6. ReceiptInv' /\ ReceiptStays
    BY <1>1, <2>1, <2>3, <2>4 DEF ReceiptInv, Earned, AnswersLast, PendingBoth, chainVars,
          ReceiptStays
  <2>7. OthersStay(w)
    BY <2>2, <2>3 DEF OthersStay, MovesTo
  <2>8. forwarded'[w] = "unpaid" /\ task'[w].pc = "failing"
    BY <1>1, <1>11, <2>2, <2>3 DEF Knows, Fits, RequestAt, MovesTo
  <2>9. Holder(w) /\ ~Holder(w)'
    BY <1>11, <2>8 DEF Holder, pc
  <2>10. \A u \in Worker : ~Holder(u)'
    <3>1. \A u \in Worker : Holder(u)' => Holder(u)
      BY <1>1, <2>3, <2>7, <2>8, HoldersShrink
    <3> QED BY <1>1, <2>9, <3>1 DEF ClaimInv
  <2>11. ClaimInv'
    BY <1>1, <2>3, <2>10 DEF ClaimInv
  <2>12. (\A h : HoldsAt(w, "failing", h, NoReceipt)) /\ ChainAt(w, "failing", NoReceipt) /\ Earned(NoReceipt)
    BY DEF HoldsAt, ChainAt, Earned
  <2>13. RequestAt(w, "failing")'
    BY DEF RequestAt
  <2>14. Knows(w)'
    BY <1>1, <2>1, <2>2, <2>4, <2>12, <2>13, RelayStepKeeps, MovesKnow
  <2> QED BY <2>1, <2>2, <2>4, <2>5, <2>6, <2>7, <2>11, <2>14, RelayStepKeeps DEF Relays, MovesTo
<1>12. CASE pc(w) = "commit"
  <2>1. UNCHANGED <<now, storeVars, chainVars>>
    BY <1>12 DEF Forward
  <2>2. CASE CommitRelayExecutionReceipt(grant(w), task[w].result) /\ Goto(w, "settled")
    BY <1>1, <1>3, <1>4, <1>12, <2>1, <2>2, CommittingWorks
  <2>3. CASE UNCHANGED relayVars /\ Fail(w)
    BY <1>1, <2>1, <2>3, ReadFails DEF Reading
  <2> QED BY <1>12, <2>2, <2>3 DEF Forward
<1> QED BY <1>2, <1>7, <1>8, <1>9, <1>10, <1>11, <1>12

-------------------------------------------------------------------------------
(* The reconciler's steps *)

(* Where the reconciler may go: it is no buyer, and has sent no request. *)
LEMMA ReconcilerMayGo ==
    ASSUME DirectInv
    PROVE  /\ Reconciler \in Worker /\ Knows(Reconciler)
           /\ \A n \in Pcs \ HolderPcs :
                 /\ n \in GrantPcs => grant(Reconciler) # NoGrant
                 /\ n \in ReceiptPcs => receipt # NoReceipt
                 /\ n = "markPayoutDue" => receipt.kind = "late"
                 /\ n = "unsettledFee" => now > ValidBefore
                 /\ n \in OrphanPcs /\ receipt = NoReceipt => now > ValidBefore
                 /\ n \in RefundPcs => now > ValidBefore /\ feeState # "None"
                 /\ n \in CancelPcs => NoFeeAstray
                 /\ n = "complete" => Ended
                 => MayGo(Reconciler, n)
BY ReconcilerAssumption DEF DirectInv, MayGo, Knows, Fits, HoldsAt, ChainAt, RequestAt, receipt

(* A worker that stays, while the queue is put in order. *)
LEMMA IdleWorks ==
    ASSUME DirectInv, NEW w \in Worker, UNCHANGED <<now, quotes, chainVars, relayVars, task>>
    PROVE  Works(w)
<1>1. Knows(w) /\ task \in [Worker -> TypedTask] /\ faults \in 0 .. MaxFaults
  BY DEF DirectInv, DirectTypes, ChainTypeOK
<1>2. /\ now' = now /\ faults' \in 0 .. MaxFaults /\ Calls /\ StoreKept
      /\ UNCHANGED relayVars /\ Lasting
  BY <1>1, ReadingKeeps DEF chainVars
<1>3. Knows(w)'
  BY <1>1, <1>2, OthersKnow DEF StoreKept, relayVars
<1> QED BY <1>1, <1>2, <1>3 DEF Works, OthersStay, relayVars, pc

(* An inspected execution, or one that failed: the next one is listed. *)
LEMMA RotatingWorks ==
    ASSUME DirectInv, Rotate
    PROVE  Works(Reconciler)
<1> DEFINE R == Reconciler
<1>1. R \in Worker /\ Knows(R) /\ task \in [Worker -> TypedTask] /\ faults \in 0 .. MaxFaults
  BY ReconcilerMayGo DEF DirectInv, DirectTypes, ChainTypeOK
<1>2. /\ now' = now /\ faults' \in 0 .. MaxFaults /\ Calls /\ StoreKept
      /\ UNCHANGED relayVars /\ Lasting
  BY <1>1, ReadingKeeps DEF Rotate, chainVars
<1>3. "start" \in Pcs /\ "start" \notin HolderPcs
  BY DEF Pcs, HolderPcs
<1>4. task' = [task EXCEPT ![R] = At("start")] /\ At("start") \in TypedTask
  BY <1>3, RecordTypes DEF Rotate
<1>5. MovesTo(R, "start") /\ task'[R].result = NoReceipt
  BY <1>1, <1>4 DEF MovesTo, At
<1>6. RequestAt(R, "start")'
  BY <1>1, <1>2, ReconcilerAssumption DEF Knows, Fits, RequestAt, relayVars
<1>7. /\ \A g : HoldsAt(R, "start", g, NoReceipt)
      /\ ChainAt(R, "start", NoReceipt) /\ Earned(NoReceipt)
  BY DEF HoldsAt, ChainAt, Earned, GrantPcs, ForwardPcs, ReceiptPcs, FundedPcs, ResolvedPcs,
         OrphanPcs, RefundPcs, CancelPcs
<1>8. Knows(R)'
  BY <1>1, <1>2, <1>3, <1>5, <1>6, <1>7, MovesKnow
<1> QED BY <1>2, <1>3, <1>5, <1>8 DEF Works, MovesTo, OthersStay, relayVars

(* Finding out what is known of an execution. *)
LEMMA FindingWorks ==
    ASSUME DirectInv, ListExecuting \/ FindReceipt
    PROVE  Works(Reconciler)
<1> USE DEF GrantPcs, ForwardPcs, FundedPcs, ReceiptPcs, AnsweredPcs, ResolvedPcs, OrphanPcs,
            RefundPcs, CancelPcs, SavingPcs, MaySave, HolderPcs, Pcs
<1> DEFINE R == Reconciler
<1>1. R \in Worker /\ Knows(R) /\ ReceiptInv /\ RelayTypeOK
  BY ReconcilerMayGo DEF DirectInv, DirectTypes
<1>2. MayGo(R, "findReceipt") /\ MayGo(R, "unsettled")
      /\ (record.relayGrant # NoGrant => MayGo(R, "recover"))
  BY ReconcilerMayGo DEF record, grant
<1>3. CASE ListExecuting
  <2>1. UNCHANGED <<now, quotes, chainVars, relayVars>> /\ pc(R) = "start"
    BY <1>3 DEF ListExecuting, at
  <2>2. CASE UNCHANGED executing
               /\ task' = [task EXCEPT ![R].copy = quotes[Deal], ![R].pc = "findReceipt"]
    <3>1. Reading /\ ~task[R].sent
      BY <1>1, <2>1, <2>2 DEF Reading, storeVars, Knows, Sending
    <3> QED BY <1>1, <1>2, <2>2, <3>1, CopyWorks
  <2>3. CASE UNCHANGED task
    BY <1>1, <2>1, <2>3, IdleWorks
  <2> QED BY <1>3, <2>2, <2>3 DEF ListExecuting
<1>4. CASE FindReceipt
  <2>1. Reading /\ pc(R) = "findReceipt" /\ ~task[R].sent
    BY <1>1, <1>4 DEF FindReceipt, at, Knows, Sending
  <2>2. CASE relayReceipt # NoReceipt
               /\ task' = [task EXCEPT ![R].result = relayReceipt, ![R].pc = "settled"]
    <3>1. relayReceipt \in Receipt /\ Earned(relayReceipt)
      BY <1>1, <2>2 DEF RelayTypeOK, ReceiptInv
    <3>2. /\ "settled" \in Pcs \ HolderPcs
          /\ HoldsAt(R, "settled", grant(R), relayReceipt) /\ ChainAt(R, "settled", relayReceipt)
          /\ RequestAt(R, "settled")
      BY <1>1, <2>1, <2>2, ReconcilerAssumption DEF Knows, Fits, HoldsAt, ChainAt, RequestAt
    <3> QED BY <1>1, <2>1, <2>2, <3>1, <3>2, ReceiptWorks
  <2>3. CASE Goto(R, "unsettled")
    BY <1>1, <1>2, <2>1, <2>3, ReadWorks
  <2>4. CASE record.relayGrant # NoGrant /\ Goto(R, "recover")
    BY <1>1, <1>2, <2>1, <2>4, ReadWorks
  <2>5. CASE Fail(R)
    BY <1>1, <2>1, <2>5, ReadFails
  <2> QED BY <1>4, <2>2, <2>3, <2>4, <2>5 DEF FindReceipt
<1> QED BY <1>3, <1>4

(* Reading, noting, saving and calling, as the reconciler does. *)
LEMMA ReconcilingWorks ==
    ASSUME DirectInv, NEW n, MayGo(Reconciler, n)
    PROVE  /\ Read(n) => Works(Reconciler)
           /\ ~task[Reconciler].sent /\ SeeCovenant(n) => Works(Reconciler)
           /\ ~task[Reconciler].sent /\ SeeFee(n) => Works(Reconciler)
           /\ pc(Reconciler) \in SavingPcs \ {"grant", "settled"} =>
                \A stage : Recorded(stage, n) => Works(Reconciler)
           /\ \A c \in Call :
                 /\ c.method = "markPayoutDue" => LateAnswered
                 /\ Transact(Reconciler, c, n)
                 => Works(Reconciler)
<1> DEFINE R == Reconciler
<1>1. R \in Worker
  BY ReconcilerAssumption
<1>2. ASSUME Read(n) PROVE Works(R)
  BY <1>1, <1>2, ReadWorks DEF Read
<1>3. ASSUME ~task[R].sent, SeeCovenant(n) \/ SeeFee(n) PROVE Works(R)
  BY <1>1, <1>3, SeenWorks DEF SeeCovenant, SeeFee
<1>4. ASSUME pc(R) \in SavingPcs \ {"grant", "settled"}, NEW stage, Recorded(stage, n) PROVE Works(R)
  <2>1. CASE Reading /\ Goto(R, n)
    BY <1>1, <2>1, ReadWorks
  <2>2. CASE Checkpoint(R, stage, n)
    BY <1>1, <1>4, <2>2, CheckpointWorks DEF MaySave
  <2> QED BY <1>4, <2>1, <2>2 DEF Recorded
<1>5. ASSUME NEW c \in Call, c.method = "markPayoutDue" => LateAnswered, Transact(R, c, n)
      PROVE  Works(R)
  <2>1. /\ n \in Pcs \ HolderPcs /\ HoldsAt(R, n, grant(R), task[R].result)
        /\ ChainAt(R, n, task[R].result) /\ RequestAt(R, n)
    BY DEF MayGo, Fits
  <2> QED BY <1>1, <1>5, <2>1, TransactWorks
<1> QED BY <1>2, <1>3, <1>4, <1>5

(* A fee that was paid past the escrow. *)
LEMMA OrphanWorks ==
    ASSUME DirectInv, RecoverOrphanedFee
    PROVE  Works(Reconciler)
<1> USE DEF GrantPcs, ForwardPcs, FundedPcs, ReceiptPcs, AnsweredPcs, ResolvedPcs, OrphanPcs,
            RefundPcs, CancelPcs, SavingPcs, MaySave, HolderPcs, Pcs
<1> DEFINE R == Reconciler
<1>1. R \in Worker /\ Knows(R) /\ now \in Nat
  BY ReconcilerMayGo DEF DirectInv, DirectTypes
<1>2. pc(R) \in OrphanPcs
  BY DEF RecoverOrphanedFee, at
<1>3. receipt = NoReceipt => now > ValidBefore
  BY <1>1, <1>2 DEF Knows, Fits, ChainAt, receipt
<1>4. /\ MayGo(R, "rotate") /\ MayGo(R, "failing")
      /\ \A n \in OrphanPcs : MayGo(R, n)
      /\ receipt # NoReceipt => MayGo(R, "clock")
      /\ receipt = NoReceipt /\ (feeUse = "unused" \/ feeState = "Refunded") => MayGo(R, "cancel")
  BY <1>3, ReconcilerMayGo DEF NoFeeAstray
<1>5. CASE pc(R) = "searchOrphan"
  <2>1. CASE Read("rotate") \/ Read("refundOrphan")
    BY <1>4, <2>1, ReconcilingWorks
  <2>2. CASE feeUse = "unused" /\ receipt = NoReceipt /\ Read("cancel")
    BY <1>4, <2>2, ReconcilingWorks
  <2>3. CASE Reading /\ Fail(R)
    BY <1>1, <2>3, ReadFails
  <2> QED BY <1>5, <2>1, <2>2, <2>3 DEF RecoverOrphanedFee, Inspected, at
<1>6. CASE pc(R) = "refundOrphan"
  <2> DEFINE c == [method |-> "refundOrphaned"]
  <2>1. c \in Call /\ c.method = "refundOrphaned"
    BY DEF Call
  <2>2. Transact(R, c, "saveOrphan")
    BY <1>6 DEF RecoverOrphanedFee, at, Do
  <2> HIDE DEF c
  <2> QED BY <1>4, <2>1, <2>2, ReconcilingWorks
<1>7. CASE pc(R) = "saveOrphan"
  <2>1. Recorded("orphanedFeeRefunded", "rereadOrphan")
    BY <1>7 DEF RecoverOrphanedFee, at
  <2> QED BY <1>4, <1>7, <2>1, ReconcilingWorks
<1>8. CASE pc(R) = "rereadOrphan"
  <2>1. ~task[R].sent
    BY <1>1, <1>8 DEF Knows, Sending
  <2>2. SeeFee(IF feeState # "Refunded" THEN "failing" ELSE IF receipt # NoReceipt THEN "clock" ELSE "cancel")
    BY <1>8 DEF RecoverOrphanedFee, at
  <2>3. CASE feeState # "Refunded"
    BY <1>4, <2>1, <2>2, <2>3, ReconcilingWorks
  <2>4. CASE feeState = "Refunded" /\ receipt # NoReceipt
    BY <1>4, <2>1, <2>2, <2>4, ReconcilingWorks
  <2>5. CASE feeState = "Refunded" /\ receipt = NoReceipt
    BY <1>4, <2>1, <2>2, <2>5, ReconcilingWorks
  <2> QED BY <2>3, <2>4, <2>5
<1> QED BY <1>2, <1>5, <1>6, <1>7, <1>8

(* What comes next, once there is a receipt. *)
LEMMA NextMayGo ==
    ASSUME DirectInv, receipt # NoReceipt, NEW seen
    PROVE  /\ MayGo(Reconciler, LossNext(seen))
           /\ MayGo(Reconciler, DeliveryNext(seen))
           /\ MayGo(Reconciler, FeeNext(seen))
<1> USE DEF GrantPcs, ForwardPcs, FundedPcs, ReceiptPcs, AnsweredPcs, ResolvedPcs, OrphanPcs,
            RefundPcs, CancelPcs, SavingPcs, MaySave, HolderPcs, Pcs
<1>1. LossNext(seen) \in {"settleLoss", "final"}
  BY DEF LossNext
<1>2. /\ DeliveryNext(seen) \in {"release", "markPayoutDue", "settleLoss", "final"}
      /\ DeliveryNext(seen) = "markPayoutDue" => receipt.kind = "late"
  BY <1>1 DEF DeliveryNext, Breached
<1>3. /\ FeeNext(seen) \in {"finalizeFee", "release", "markPayoutDue", "settleLoss", "final"}
      /\ FeeNext(seen) = "markPayoutDue" => receipt.kind = "late"
  BY <1>2 DEF FeeNext
<1>4. ASSUME NEW n \in {"finalizeFee", "release", "markPayoutDue", "settleLoss", "final"},
             n = "markPayoutDue" => receipt.kind = "late"
      PROVE  MayGo(Reconciler, n)
  BY <1>4, ReconcilerMayGo
<1> QED BY <1>1, <1>2, <1>3, <1>4

(* The provider was paid: the covenant and the fee are read, and the clock seen to. *)
LEMMA SettledWorks ==
    ASSUME DirectInv, ReadSettled \/ ReconcileClock
    PROVE  Works(Reconciler)
<1> USE DEF GrantPcs, ForwardPcs, FundedPcs, ReceiptPcs, AnsweredPcs, ResolvedPcs, OrphanPcs,
            RefundPcs, CancelPcs, SavingPcs, MaySave, HolderPcs, Pcs
<1> DEFINE R == Reconciler
           Here == {"settled", "settledFee", "clock", "startClock", "saveClock", "rereadClock",
                    "expire", "saveExpired", "refundExpired", "saveExpiredRefund", "endExpired"}
<1>1. R \in Worker /\ Knows(R) /\ FeeInv /\ feeState \in {"None", "Funded", "Captured", "Refunded"}
  BY ReconcilerMayGo DEF DirectInv, DirectTypes, ChainTypeOK
<1>2. pc(R) \in Here
  BY DEF ReadSettled, ReconcileClock, at
<1>3. receipt # NoReceipt /\ feeState # "None"
  BY <1>1, <1>2 DEF Knows, Fits, HoldsAt, Earned, FeeInv, receipt
<1>4. receipt \in Receipt
  BY <1>1, <1>3 DEF DirectInv, DirectTypes, TypedTask, receipt
<1>5. /\ \A n \in Here : MayGo(R, n)
      /\ MayGo(R, "rotate") /\ MayGo(R, "searchOrphan")
      /\ covenant.state = "Released" /\ feeState = "Refunded" => MayGo(R, "complete")
  BY <1>3, ReconcilerMayGo DEF Ended, SettledForGood
<1>6. \A seen : MayGo(R, FeeNext(seen))
  BY <1>3, NextMayGo
<1>7. pc(R) \notin SavingPcs \ {"settled"} => ~task[R].sent
  BY <1>1, ReconcilerAssumption DEF Knows, Sending
<1>8. CASE ReadSettled
  <2>1. CASE pc(R) = "settled" /\ SeeCovenant("settledFee")
    BY <1>5, <1>7, <2>1, ReconcilingWorks
  <2>2. CASE pc(R) = "settledFee"
    <3>1. PICK n \in {"rotate", "searchOrphan", "clock"} : SeeFee(n)
      BY <1>8, <2>2 DEF ReadSettled, at
    <3> QED BY <1>5, <1>7, <2>2, <3>1, ReconcilingWorks
  <2> QED BY <1>8, <2>1, <2>2 DEF ReadSettled, at
<1>9. CASE pc(R) = "clock" /\ ReconcileClock
  <2>1. CASE Reading /\ Fail(R)
    BY <1>1, <2>1, ReadFails
  <2>2. CASE Read(FeeNext(saw))
    BY <1>6, <2>2, ReconcilingWorks
  <2>3. CASE Read("startClock") \/ Read("rotate") \/ Read("expire")
    BY <1>5, <2>3, ReconcilingWorks
  <2> QED BY <1>9, <2>1, <2>2, <2>3 DEF ReconcileClock, at
<1>10. CASE pc(R) = "startClock" /\ ReconcileClock
  <2> DEFINE c == [method |-> "startClock", receipt |-> receipt]
  <2>1. c \in Call /\ c.method = "startClock"
    BY <1>4 DEF Call
  <2>2. Transact(R, c, "saveClock")
    BY <1>10 DEF ReconcileClock, at, DoWithReceipt
  <2> HIDE DEF c
  <2> QED BY <1>5, <2>1, <2>2, ReconcilingWorks
<1>11. CASE pc(R) = "saveClock" /\ ReconcileClock
  <2>1. Recorded("clockStarted", "rereadClock")
    BY <1>11 DEF ReconcileClock, at
  <2> QED BY <1>5, <1>11, <2>1, ReconcilingWorks
<1>12. CASE pc(R) = "rereadClock" /\ ReconcileClock
  <2>1. SeeCovenant(FeeNext(covenant.state))
    BY <1>12 DEF ReconcileClock, at
  <2> QED BY <1>6, <1>7, <1>12, <2>1, ReconcilingWorks
<1>13. CASE pc(R) = "expire" /\ ReconcileClock
  <2> DEFINE c == [method |-> "expireUnstarted"]
  <2>1. c \in Call /\ c.method = "expireUnstarted"
    BY DEF Call
  <2>2. Transact(R, c, "saveExpired")
    BY <1>13 DEF ReconcileClock, at, Do
  <2> HIDE DEF c
  <2> QED BY <1>5, <2>1, <2>2, ReconcilingWorks
<1>14. CASE pc(R) = "saveExpired" /\ ReconcileClock
  <2>1. PICK n \in {"refundExpired", "endExpired"} : Recorded("coverageExpiredUnstarted", n)
    BY <1>14 DEF ReconcileClock, at
  <2> QED BY <1>5, <1>14, <2>1, ReconcilingWorks
<1>15. CASE pc(R) = "refundExpired" /\ ReconcileClock
  <2> DEFINE c == [method |-> "refund"]
  <2>1. c \in Call /\ c.method = "refund"
    BY DEF Call
  <2>2. Transact(R, c, "saveExpiredRefund")
    BY <1>15 DEF ReconcileClock, at, Do
  <2> HIDE DEF c
  <2> QED BY <1>5, <2>1, <2>2, ReconcilingWorks
<1>16. CASE pc(R) = "saveExpiredRefund" /\ ReconcileClock
  <2>1. Recorded("feeRefunded", "endExpired")
    BY <1>16 DEF ReconcileClock, at
  <2> QED BY <1>5, <1>16, <2>1, ReconcilingWorks
<1>17. CASE pc(R) = "endExpired" /\ ReconcileClock
  <2>1. PICK n \in {"rotate", "complete"} :
           /\ Read(n)
           /\ n = "complete" => covenant.state = "Released" /\ feeState \in {"None", "Refunded"}
    BY <1>17 DEF ReconcileClock, at
  <2> QED BY <1>3, <1>5, <2>1, ReconcilingWorks
<1>18. CASE ReconcileClock
  BY <1>18, <1>9, <1>10, <1>11, <1>12, <1>13, <1>14, <1>15, <1>16, <1>17 DEF ReconcileClock, at
<1> QED BY <1>8, <1>18

(* The delivery, and the end of a purchase. *)
LEMMA EndingWorks ==
    ASSUME DirectInv, ReconcileDelivery \/ ReconcileEnd
    PROVE  Works(Reconciler)
<1> USE DEF GrantPcs, ForwardPcs, FundedPcs, ReceiptPcs, AnsweredPcs, ResolvedPcs, OrphanPcs,
            RefundPcs, CancelPcs, SavingPcs, MaySave, HolderPcs, Pcs
<1> DEFINE R == Reconciler
           Here == {"deliver", "release", "saveReleased", "markPayoutDue", "saveDue", "rereadDue",
                    "settleLoss", "saveSettled", "final"}
<1>1. R \in Worker /\ Knows(R)
  BY ReconcilerMayGo
<1>2. pc(R) \in Here \cup {"complete"}
  BY DEF ReconcileDelivery, ReconcileEnd, at
<1>3. pc(R) \in Here => receipt \in Receipt /\ receipt # NoReceipt
  BY <1>1 DEF DirectInv, DirectTypes, TypedTask, Knows, Fits, HoldsAt, receipt
<1>4. pc(R) \in Here => /\ \A n \in Here \ {"markPayoutDue"} : MayGo(R, n)
                        /\ \A seen : MayGo(R, DeliveryNext(seen)) /\ MayGo(R, LossNext(seen))
  BY <1>3, ReconcilerMayGo, NextMayGo
<1>5. MayGo(R, "rotate") /\ (Ended => MayGo(R, "complete"))
  BY ReconcilerMayGo
<1>6. ASSUME pc(R) \in Here, NEW m \in {"release", "markPayoutDue", "settleNetLoss"},
             m = "markPayoutDue" => pc(R) = "markPayoutDue",
             NEW n \in Here \ {"markPayoutDue"}, DoWithReceipt(m, n)
      PROVE  Works(R)
  <2> DEFINE c == [method |-> m, receipt |-> receipt]
  <2>1. c \in Call /\ c.method = m
    BY <1>3, <1>6 DEF Call
  <2>2. m = "markPayoutDue" => LateAnswered
    BY <1>1, <1>3, <1>6 DEF Knows, Fits, HoldsAt, Earned, receipt
  <2>3. Transact(R, c, n)
    BY <1>6 DEF DoWithReceipt
  <2> HIDE DEF c
  <2> QED BY <1>4, <1>6, <2>1, <2>2, <2>3, ReconcilingWorks
<1>7. CASE pc(R) = "deliver"
  <2>1. Read(DeliveryNext(saw))
    BY <1>7 DEF ReconcileDelivery, ReconcileEnd, at
  <2> QED BY <1>4, <1>7, <2>1, ReconcilingWorks
<1>8. CASE pc(R) = "release"
  <2>1. DoWithReceipt("release", "saveReleased")
    BY <1>8 DEF ReconcileDelivery, ReconcileEnd, at
  <2> QED BY <1>6, <1>8, <2>1
<1>9. CASE pc(R) = "saveReleased"
  <2>1. Recorded("coverageReleased", "final")
    BY <1>9 DEF ReconcileDelivery, ReconcileEnd, at
  <2> QED BY <1>4, <1>9, <2>1, ReconcilingWorks
<1>10. CASE pc(R) = "markPayoutDue"
  <2>1. DoWithReceipt("markPayoutDue", "saveDue")
    BY <1>10 DEF ReconcileDelivery, ReconcileEnd, at
  <2> QED BY <1>6, <1>10, <2>1
<1>11. CASE pc(R) = "saveDue"
  <2>1. Recorded("payoutDue", "rereadDue")
    BY <1>11 DEF ReconcileDelivery, ReconcileEnd, at
  <2> QED BY <1>4, <1>11, <2>1, ReconcilingWorks
<1>12. CASE pc(R) = "rereadDue"
  <2>1. SeeCovenant(LossNext(covenant.state)) /\ ~task[R].sent
    BY <1>1, <1>12 DEF ReconcileDelivery, ReconcileEnd, at, Knows, Sending
  <2> QED BY <1>4, <1>12, <2>1, ReconcilingWorks
<1>13. CASE pc(R) = "settleLoss"
  <2>1. DoWithReceipt("settleNetLoss", "saveSettled")
    BY <1>13 DEF ReconcileDelivery, ReconcileEnd, at
  <2> QED BY <1>6, <1>13, <2>1
<1>14. CASE pc(R) = "saveSettled"
  <2>1. Recorded("coverageSettled", "final")
    BY <1>14 DEF ReconcileDelivery, ReconcileEnd, at
  <2> QED BY <1>4, <1>14, <2>1, ReconcilingWorks
<1>15. CASE pc(R) = "final"
  <2>1. PICK n \in {"rotate", "complete"} : Read(n) /\ (n = "complete" => SettledForGood)
    BY <1>15 DEF ReconcileDelivery, ReconcileEnd, at
  <2> QED BY <1>5, <2>1, ReconcilingWorks DEF Ended
<1>16. CASE pc(R) = "complete"
  <2>1. Save(R, CompletedRecord(quotes[Deal]), "rotate")
    BY <1>16 DEF ReconcileDelivery, ReconcileEnd, at
  <2>2. CompletedRecord(quotes[Deal]) \in QuoteRecord
    <3>1. quotes[Deal] \in QuoteRecord /\ now \in Nat
      BY DealAssumption DEF DirectInv, DirectTypes
    <3> QED BY <3>1, PreparedTypes
  <2>3. Ended
    BY <1>1, <1>16 DEF Knows, Fits, ChainAt
  <2> QED BY <1>1, <1>5, <1>16, <2>1, <2>2, <2>3, SaveWorks
<1> QED BY <1>2, <1>7, <1>8, <1>9, <1>10, <1>11, <1>12, <1>13, <1>14, <1>15, <1>16

(* No payment was found. *)
LEMMA UnsettledWorks ==
    ASSUME DirectInv, ReconcileUnsettled
    PROVE  Works(Reconciler)
<1> USE DEF GrantPcs, ForwardPcs, FundedPcs, ReceiptPcs, AnsweredPcs, ResolvedPcs, OrphanPcs,
            RefundPcs, CancelPcs, SavingPcs, MaySave, HolderPcs, Pcs
<1> DEFINE R == Reconciler
<1>1. /\ R \in Worker /\ Knows(R) /\ task[R].copy \in QuoteRecord
      /\ feeState \in {"None", "Funded", "Captured", "Refunded"}
  BY ReconcilerMayGo DEF DirectInv, DirectTypes, ChainTypeOK, TypedTask
<1>2. pc(R) \in {"unsettled", "unsettledFee"} \cup RefundPcs \cup CancelPcs
  BY DEF ReconcileUnsettled, at
<1>3. pc(R) # "unsettled" => now > ValidBefore
  BY <1>1, <1>2 DEF Knows, Fits, ChainAt, NoFeeAstray
<1>4. /\ MayGo(R, "rotate")
      /\ now > ValidBefore => MayGo(R, "unsettledFee") /\ MayGo(R, "searchOrphan")
      /\ now > ValidBefore /\ feeState # "None" =>
           MayGo(R, "refundUnsettled") /\ MayGo(R, "saveUnsettledRefund")
             /\ MayGo(R, "rereadRefund") /\ MayGo(R, "cancel")
      /\ pc(R) \in CancelPcs => MayGo(R, "saveCancelled") /\ MayGo(R, "endUnsettled")
      /\ /\ pc(R) \in CancelPcs
         /\ covenant.state \in {"None", "CancelledUnpaid"} /\ feeState \in {"None", "Refunded"}
         => MayGo(R, "complete")
  BY <1>1, ReconcilerMayGo DEF NoFeeAstray, Ended, UndoneForGood, Knows, Fits, ChainAt
<1>5. pc(R) \in RefundPcs => feeState # "None"
  BY <1>1 DEF Knows, Fits, ChainAt
<1>6. pc(R) \notin SavingPcs => ~task[R].sent
  BY <1>1 DEF Knows, Sending
<1>7. CASE pc(R) = "unsettled"
  <2>1. CASE UnsettledForGood /\ SeeCovenant("unsettledFee")
    BY <1>4, <1>6, <1>7, <2>1, ReconcilingWorks DEF UnsettledForGood
  <2>2. CASE Read("rotate")
    BY <1>4, <2>2, ReconcilingWorks
  <2> QED BY <1>7, <2>1, <2>2 DEF ReconcileUnsettled, at, Inspected
<1>8. CASE pc(R) = "unsettledFee"
  <2>1. SeeFee(CASE feeState = "Funded" -> "refundUnsettled"
                 [] feeState = "None" -> "searchOrphan"
                 [] OTHER -> "cancel")
    BY <1>8 DEF ReconcileUnsettled, at
  <2>2. PICK n \in {"refundUnsettled", "searchOrphan", "cancel"} :
           SeeFee(n) /\ (n # "searchOrphan" => feeState # "None")
    BY <1>1, <2>1
  <2> QED BY <1>3, <1>4, <1>6, <1>8, <2>2, ReconcilingWorks
<1>9. CASE pc(R) = "refundUnsettled"
  <2> DEFINE c == [method |-> "refund"]
  <2>1. c \in Call /\ c.method = "refund"
    BY DEF Call
  <2>2. Transact(R, c, "saveUnsettledRefund")
    BY <1>9 DEF ReconcileUnsettled, at, Do
  <2> HIDE DEF c
  <2> QED BY <1>3, <1>4, <1>5, <1>9, <2>1, <2>2, ReconcilingWorks
<1>10. CASE pc(R) = "saveUnsettledRefund"
  <2>1. Recorded("feeRefunded", "rereadRefund")
    BY <1>10 DEF ReconcileUnsettled, at
  <2> QED BY <1>3, <1>4, <1>5, <1>10, <2>1, ReconcilingWorks
<1>11. CASE pc(R) = "rereadRefund"
  <2>1. SeeFee("cancel")
    BY <1>11 DEF ReconcileUnsettled, at
  <2> QED BY <1>3, <1>4, <1>5, <1>6, <1>11, <2>1, ReconcilingWorks
<1>12. CASE pc(R) = "cancel"
  <2>1. CASE Read("rotate") \/ Read("endUnsettled")
    BY <1>4, <1>12, <2>1, ReconcilingWorks
  <2>2. CASE Reading /\ Fail(R)
    BY <1>1, <2>2, ReadFails
  <2> DEFINE c == [method |-> "cancelUnpaid", searchFrom |-> record.startedAtMs]
  <2>3. CASE Transact(R, c, "saveCancelled")
    <3>1. c \in Call /\ c.method = "cancelUnpaid"
      BY <1>1 DEF Call, record, QuoteRecord
    <3> HIDE DEF c
    <3> QED BY <1>4, <1>12, <2>3, <3>1, ReconcilingWorks
  <2> QED BY <1>12, <2>1, <2>2, <2>3 DEF ReconcileUnsettled, at, Inspected
<1>13. CASE pc(R) = "saveCancelled"
  <2>1. Recorded("coverageCancelledUnpaid", "endUnsettled")
    BY <1>13 DEF ReconcileUnsettled, at
  <2> QED BY <1>4, <1>13, <2>1, ReconcilingWorks
<1>14. CASE pc(R) = "endUnsettled"
  <2>1. PICK n \in {"rotate", "complete"} :
           /\ Read(n)
           /\ n = "complete" =>
                covenant.state \in {"None", "CancelledUnpaid"} /\ feeState \in {"None", "Refunded"}
    BY <1>14 DEF ReconcileUnsettled, at
  <2> QED BY <1>4, <1>14, <2>1, ReconcilingWorks
<1> QED BY <1>2, <1>7, <1>8, <1>9, <1>10, <1>11, <1>12, <1>13, <1>14

-------------------------------------------------------------------------------
(* The invariant holds *)

(* A worker's step keeps it, whether it moves the relay or not. *)
LEMMA WorkerKeeps ==
    ASSUME DirectInv, NEW w \in Worker, Works(w) \/ Relays(w)
    PROVE  DirectInv'
<1>1. /\ DirectTypes /\ RelayTypeOK /\ ReceiptInv /\ ClaimInv /\ FeeInv /\ EndInv
      /\ \A u \in Worker : Knows(u)
  BY DEF DirectInv, DirectTypes
<1>2. AnswersLast
  BY <1>1, UnansweredStay DEF Works, Relays, relayVars
<1>3. /\ now' = now /\ faults' \in 0 .. MaxFaults /\ Calls /\ StoreKept /\ OthersStay(w)
      /\ task' \in [Worker -> TypedTask] /\ Knows(w)'
  BY DEF Works, Relays
<1>4. ChainInv' /\ Lasting
  BY <1>2, <1>3, CallsKeep
<1>5. RelayTypeOK' /\ ReceiptInv' /\ ClaimInv'
  <2>1. CASE Works(w)
    <3>1. UNCHANGED relayVars
      BY <2>1 DEF Works
    <3>2. RelayTypeOK'
      BY <1>1, <3>1 DEF RelayTypeOK, relayVars
    <3>3. ReceiptInv'
      BY <1>1, <1>4, <3>1 DEF ReceiptInv, Earned, Lasting, relayVars
    <3>4. \A u \in Worker : Holder(u)' => Holder(u)
      BY <2>1 DEF Works, Holder, HolderPcs, OthersStay, pc, relayVars
    <3>5. ClaimInv'
      BY <1>1, <1>3, <3>1, <3>4 DEF ClaimInv, relayVars
    <3> QED BY <3>2, <3>3, <3>5
  <2>2. CASE Relays(w)
    BY <2>2 DEF Relays
  <2> QED BY <2>1, <2>2
<1>6. \A u \in Worker : Knows(u)'
  BY <1>1, <1>3, <1>4, OthersKnow DEF OthersStay, StoreKept
<1>7. EndInv'
  BY <1>1, <1>3, <1>4 DEF EndInv, StoreKept, Lasting
<1>8. DirectTypes'
  BY <1>1, <1>3, <1>4, <1>5 DEF DirectTypes, StoreKept, ChainInv
<1> QED BY <1>4, <1>5, <1>6, <1>7, <1>8 DEF DirectInv, ChainInv

(* So does a step of the chain, of the provider or of the clock. *)
LEMMA EnvironmentKeepsAll ==
    ASSUME DirectInv, ProviderNext \/ ChainMoves \/ Time
    PROVE  DirectInv'
<1>1. /\ DirectTypes /\ RelayTypeOK /\ ReceiptInv /\ ClaimInv /\ EndInv
      /\ \A u \in Worker : Knows(u)
  BY DEF DirectInv, DirectTypes
<1>2. ChainInv' /\ Lasting
  BY EnvironmentKeeps
<1>3. UNCHANGED <<storeVars, relayVars, task>>
  BY DEF ProviderNext, ChainMoves, Time, Tick
<1>4. RelayTypeOK' /\ ReceiptInv'
  BY <1>1, <1>2, <1>3 DEF RelayTypeOK, ReceiptInv, Earned, Lasting, relayVars
<1>5. ClaimInv'
  BY <1>1, <1>2, <1>3, DealAssumption DEF ClaimInv, Holder, pc, Lasting, relayVars
<1>6. \A u \in Worker : Knows(u)'
  BY <1>1, <1>2, <1>3, OthersKnow DEF relayVars, storeVars, Complete
<1>7. EndInv'
  BY <1>1, <1>2, <1>3 DEF EndInv, Complete, Lasting, storeVars
<1>8. DirectTypes'
  <2>1. now' # 0
    BY <1>1, <1>2 DEF DirectTypes, Lasting
  <2> QED BY <1>1, <1>2, <1>3, <1>4, <2>1 DEF DirectTypes, ChainInv, Lasting, storeVars
<1> QED BY <1>2, <1>4, <1>5, <1>6, <1>7, <1>8 DEF DirectInv, ChainInv

(* It holds before anything has happened. *)
LEMMA DirectInit ==
    ASSUME ExecutionInit
    PROVE  DirectInv
<1> USE DEF ExecutionInit
<1>1. now = 1 /\ quotes \in [Quote -> QuoteRecord] /\ quotes[Deal].state = "bound"
  BY StoreAssumption, DealAssumption DEF StoreInit, NoQuote, QuoteRecord, QuoteState
<1>2. ChainTypeOK
  BY DealAssumption DEF ChainInit, ChainTypeOK, NoCovenant
<1>3. RelayTypeOK
  BY DEF RelayInit, RelayTypeOK
<1>4. "start" \in Pcs
  BY DEF Pcs
<1>5. task = [w \in Worker |-> At("start")] /\ task \in [Worker -> TypedTask]
  BY <1>4, RecordTypes
<1>6. DirectTypes
  BY <1>1, <1>2, <1>3, <1>5 DEF DirectTypes
<1>7. CovenantInv /\ FeeInv /\ MempoolInv
  BY DEF ChainInit, RelayInit, CovenantInv, FeeInv, MempoolInv, CapturedForStartedCover, NoCovenant
<1>8. ReceiptInv
  BY DEF RelayInit, ReceiptInv, Earned
<1>9. ASSUME NEW w \in Worker
      PROVE  pc(w) = "start" /\ ~task[w].sent /\ task[w].result = NoReceipt /\ forwarded[w] = "no"
  BY <1>5 DEF At, pc, RelayInit
<1>10. ClaimInv
  BY <1>9 DEF ClaimInv, Holder, RelayInit
<1>11. ASSUME NEW w \in Worker PROVE Knows(w)
  BY <1>9 DEF Knows, Fits, HoldsAt, ChainAt, RequestAt, Earned, Sending, GrantPcs, ForwardPcs,
        ReceiptPcs, FundedPcs, ResolvedPcs, OrphanPcs, RefundPcs, CancelPcs
<1>12. EndInv
  BY <1>1 DEF EndInv, Complete
<1> QED BY <1>6, <1>7, <1>8, <1>10, <1>11, <1>12 DEF DirectInv

(* Every step is a worker's, as above, or the environment's, or none. *)
LEMMA StepKinds ==
    ASSUME DirectInv, [Next]_vars
    PROVE  (\E w \in Worker : Works(w) \/ Relays(w)) \/ ProviderNext \/ ChainMoves \/ Time
<1>1. ASSUME NEW w \in Buyer, BuyerStep(w) PROVE w \in Worker /\ (Works(w) \/ Relays(w))
  <2>1. w \in Worker
    BY BuyerAssumption
  <2> QED BY <1>1, <2>1, ClaimingWorks, FundingWorks, GrantingWorks, RecoveringWorks,
             ForwardingWorks, StartingClockWorks, FinalizingWorks, DeliveringWorks, RecedingWorks
             DEF BuyerStep
<1>2. ASSUME ReconcilerStep
      PROVE  Reconciler \in Worker /\ (Works(Reconciler) \/ Relays(Reconciler))
  <2>1. Reconciler \in Worker
    BY ReconcilerAssumption
  <2> QED BY <1>2, <2>1, FindingWorks, RecoveringWorks, SettledWorks, OrphanWorks,
             FinalizingWorks, EndingWorks, UnsettledWorks, RotatingWorks DEF ReconcilerStep
<1>3. ASSUME UNCHANGED vars PROVE \E w \in Worker : Works(w)
  <2>1. PICK w : w \in Worker
    BY ReconcilerAssumption
  <2>2. Works(w)
    BY <1>3, <2>1, IdleWorks DEF vars, storeVars
  <2> QED BY <2>1, <2>2
<1> QED BY <1>1, <1>2, <1>3 DEF Next, ExecutionNext, BuyersNext

(* The invariant is inductive. *)
LEMMA DirectStep ==
    ASSUME DirectInv, [Next]_vars
    PROVE  DirectInv'
BY StepKinds, WorkerKeeps, EnvironmentKeepsAll

(* The invariant holds of the buyers, the provider and the reconciler together. *)
LEMMA DirectInvariant == Spec => []DirectInv
BY DirectInit, DirectStep, PTL DEF Spec

(* And of the buyers without a reconciler, whose steps are among them. *)
LEMMA ExecutionInvariant == ExecutionSpec => []DirectInv
<1>1. [ExecutionNext]_vars => [Next]_vars
  BY DEF Next
<1> QED BY <1>1, DirectInit, DirectStep, PTL DEF ExecutionSpec

-------------------------------------------------------------------------------
(* Theorems: the states *)

(* What the clock, the record, the contracts, the relay and the workers hold has its *)
(* type: in particular, every program counter is one of the handlers' awaits.          *)
THEOREM DirectTypesHold == Spec => []DirectTypes
<1>1. DirectInv => DirectTypes
  BY DEF DirectInv
<1> QED BY <1>1, DirectInvariant, PTL

(* There is one holder of the authorization, and whoever forwarded it is one. *)
LEMMA OneForwards ==
    ASSUME DirectInv
    PROVE  OneInvocationForwards
<1> SUFFICES ASSUME NEW u \in Worker, NEW w \in Worker,
                    forwarded[u] \notin {"no", "unpaid"}, forwarded[w] \notin {"no", "unpaid"}
             PROVE  u = w
  BY DEF OneInvocationForwards
<1>1. u \in Buyer /\ w \in Buyer
  BY DEF DirectInv, Knows, Fits, RequestAt
<1> QED BY <1>1 DEF DirectInv, ClaimInv, Holder

(* However many invocations execute the quote, one of them takes the buyer's          *)
(* authorization to the provider, and another one only after an answer that it was    *)
(* not paid: the claim of provider-policy-store.js outlives the authorization.  That  *)
(* one may post it to several addresses, as fetchPinnedEndpoint does.                  *)
THEOREM DirectOneInvocationForwards == Spec => []OneInvocationForwards
BY OneForwards, DirectInvariant, PTL

(* So it is without a reconciler, too. *)
THEOREM ExecutionOneInvocationForwards == ExecutionSpec => []OneInvocationForwards
BY OneForwards, ExecutionInvariant, PTL

(* The provider is paid under a covenant that stands and a fee in escrow, and no      *)
(* cancellation takes that cover away: cancel_unpaid is attested when the payment's   *)
(* authorization is over, and what is mined late was attested then.                    *)
THEOREM DirectPaysUnderCover == Spec => []PaidIsCovered
<1>1. DirectInv => PaidIsCovered
  BY DEF DirectInv, CovenantInv, FeeInv, PaidIsCovered
<1> QED BY <1>1, DirectInvariant, PTL

(* The treasury takes a fee only when the provider was paid and the clock ran, also   *)
(* by a capture that is mined after its sender gave up on it.                          *)
THEOREM DirectCapturesStartedCover == Spec => []CapturedForStartedCover
<1>1. DirectInv => CapturedForStartedCover
  BY DEF DirectInv, FeeInv
<1> QED BY <1>1, DirectInvariant, PTL

(* A provider that answered in time is never declared in breach: a breach is attested *)
(* by a receipt of a late answer, and there is one answer.                             *)
THEOREM DirectSparesTimely == Spec => []TimelyNeverInBreach
<1>1. DirectInv => TimelyNeverInBreach
  <2> SUFFICES ASSUME DirectInv, NEW w \in Worker, forwarded[w] = "timely",
                      covenant.state \in {"PayoutDue", "Paid"}
               PROVE  FALSE
    BY DEF TimelyNeverInBreach
  <2>1. PICK u \in Worker : forwarded[u] = "late"
    BY DEF DirectInv, CovenantInv, LateAnswered
  <2>2. u = w
    BY <2>1, OneForwards DEF OneInvocationForwards
  <2> QED BY <2>1, <2>2
<1> QED BY <1>1, DirectInvariant, PTL

(* An execution is completed, by whichever side, only when nothing is left to do for  *)
(* it: no covenant stands, and no fee of the buyer's is held in the escrow or past it. *)
THEOREM DirectCompletesSettled == Spec => []CompleteIsSettled
<1>1. DirectInv => CompleteIsSettled
  <2> SUFFICES ASSUME DirectInv, Complete
               PROVE  /\ covenant.state \notin {"PendingStart", "Active", "PayoutDue"}
                      /\ feeState # "Funded" /\ (feeUse # "unused" => feeState # "None")
                      /\ settledAt # 0 => covenant.state \in {"Released", "Paid"}
    BY DEF CompleteIsSettled
  <2>1. Ended /\ CovenantInv /\ FeeInv
    BY DEF DirectInv, EndInv
  <2>2. CASE SettledForGood
    BY <2>2 DEF SettledForGood
  <2>3. CASE UndoneForGood
    BY <2>1, <2>3 DEF UndoneForGood, NoFeeAstray, CovenantInv, FeeInv
  <2> QED BY <2>1, <2>2, <2>3 DEF Ended
<1> QED BY <1>1, DirectInvariant, PTL

-------------------------------------------------------------------------------
(* Theorems: the steps *)

(* No step replaces a receipt that is on record. *)
LEMMA ReceiptOnRecordStays ==
    ASSUME DirectInv, [Next]_vars
    PROVE  ReceiptStays
<1>1. ASSUME NEW w \in Worker, Works(w) \/ Relays(w) PROVE ReceiptStays
  BY <1>1 DEF Works, Relays, ReceiptStays, relayVars
<1>2. ASSUME ProviderNext \/ ChainMoves \/ Time PROVE ReceiptStays
  BY <1>2 DEF ProviderNext, ChainMoves, Time, ReceiptStays, relayVars
<1> QED BY <1>1, <1>2, StepKinds

(* A signed receipt is never replaced, whichever of two invocations, or of an answer  *)
(* and a recovery, commits first: a commit finds its claims pending, or the same one. *)
THEOREM DirectReceiptStays == Spec => ReceiptNeverReplaced
<1>1. DirectInv /\ [Next]_vars => [relayReceipt # NoReceipt => relayReceipt' = relayReceipt]_vars
  BY ReceiptOnRecordStays DEF ReceiptStays
<1> QED BY <1>1, DirectInvariant, PTL DEF Spec, ReceiptNeverReplaced

(* Nor is it by the buyer's invocations alone. *)
THEOREM ExecutionReceiptStays == ExecutionSpec => ReceiptNeverReplaced
<1>1. DirectInv /\ [ExecutionNext]_vars
        => [relayReceipt # NoReceipt => relayReceipt' = relayReceipt]_vars
  BY ReceiptOnRecordStays DEF ReceiptStays, Next
<1> QED BY <1>1, ExecutionInvariant, PTL DEF ExecutionSpec, ReceiptNeverReplaced

-------------------------------------------------------------------------------
(* The deal *)

(* A covenant that moves as the contract lets it makes a step of the deal. *)
LEMMA CoverageStepIsDeal ==
    ASSUME feeState' = feeState,
           covenant.state \in DOMAIN Deals!CoverageStep,
           covenant'.state \in Deals!CoverageStep[covenant.state]
    PROVE  Deals!DealNext
<1> DEFINE cov == [d \in {Deal} |-> covenant.state]
           fees == [d \in {Deal} |-> feeState]
<1>1. cov[Deal] = covenant.state /\ cov' = [cov EXCEPT ![Deal] = covenant'.state]
  OBVIOUS
<1>2. fees' = fees
  OBVIOUS
<1>3. Deals!MoveCoverage(Deal)
  BY <1>1, <1>2 DEF Deals!MoveCoverage
<1> QED BY <1>3 DEF Deals!DealNext

(* So does a fee, under a covenant that stays. *)
LEMMA FeeStepIsDeal ==
    ASSUME covenant'.state = covenant.state,
           \/ feeState = "None" /\ covenant.state = "PendingStart" /\ feeState' = "Funded"
           \/ /\ feeState = "Funded" /\ feeState' = "Captured"
              /\ covenant.state \notin {"None", "PendingStart", "CancelledUnpaid"}
           \/ /\ feeState' = "Refunded"
              /\ feeState = "Funded" \/ (feeState = "None" /\ covenant.state # "None")
    PROVE  Deals!DealNext
<1> DEFINE cov == [d \in {Deal} |-> covenant.state]
           fees == [d \in {Deal} |-> feeState]
<1>1. cov[Deal] = covenant.state /\ cov' = cov
  OBVIOUS
<1>2. fees[Deal] = feeState /\ fees' = [fees EXCEPT ![Deal] = feeState']
  OBVIOUS
<1>3. Deals!FundFee(Deal) \/ Deals!CaptureFee(Deal) \/ Deals!RefundFee(Deal)
  BY <1>1, <1>2 DEF Deals!FundFee, Deals!CaptureFee, Deals!RefundFee
<1> QED BY <1>1, <1>3 DEF Deals!DealNext

(* A call that is mined is a step of the deal. *)
LEMMA MinedIsDeal ==
    ASSUME DirectTypes, NEW c \in Call, Mined(c)
    PROVE  Deals!DealNext
<1> USE MinedMoves, CallMethods
<1>1. CASE c.method \in {"fund", "capture", "refund", "refundOrphaned"}
  <2>1. covenant'.state = covenant.state
    BY <1>1
  <2> QED BY <1>1, <2>1, FeeStepIsDeal
<1>2. CASE c.method \in {"issue", "startClock", "expireUnstarted", "release", "markPayoutDue",
                         "settleNetLoss", "cancelUnpaid"}
  <2>1. feeState' = feeState
    BY <1>2
  <2>2. /\ covenant.state \in DOMAIN Deals!CoverageStep
        /\ covenant'.state \in Deals!CoverageStep[covenant.state]
    BY <1>2 DEF Deals!CoverageStep
  <2> QED BY <2>1, <2>2, CoverageStepIsDeal
<1> QED BY <1>1, <1>2

(* A step that leaves both leaves the deal. *)
LEMMA DealStays ==
    ASSUME UNCHANGED <<covenant, feeState>>
    PROVE  UNCHANGED Deals!dealVars
BY DEF Deals!dealVars

(* Every step of anybody is a step of the deal, or none. *)
LEMMA StepIsDeal ==
    ASSUME DirectInv, [Next]_vars
    PROVE  [Deals!DealNext]_(Deals!dealVars)
<1>1. DirectTypes /\ mempool \subseteq Call
  BY DEF DirectInv, DirectTypes, ChainTypeOK
<1>2. ASSUME NEW w \in Worker, Works(w) \/ Relays(w) PROVE [Deals!DealNext]_(Deals!dealVars)
  <2>1. Calls
    BY <1>2 DEF Works, Relays
  <2> QED BY <1>1, <2>1, MinedIsDeal, DealStays DEF Calls, Quiet, Sends
<1>3. ASSUME ChainMoves PROVE [Deals!DealNext]_(Deals!dealVars)
  <2>1. ASSUME NEW m \in {"expireUnstarted", "refund"}, Mined([method |-> m])
        PROVE  Deals!DealNext
    <3>1. [method |-> m] \in Call
      BY DEF Call
    <3> QED BY <1>1, <2>1, <3>1, MinedIsDeal
  <2>2. ASSUME LateTransaction PROVE Deals!DealNext \/ UNCHANGED <<covenant, feeState>>
    BY <1>1, <2>2, MinedIsDeal DEF LateTransaction
  <2> QED BY <1>3, <2>1, <2>2, DealStays DEF ChainMoves, ChainNext, FeePaidDirectly, Permissionless
<1>4. ASSUME ProviderNext \/ Time PROVE UNCHANGED <<covenant, feeState>>
  BY <1>4 DEF ProviderNext, ProviderSettles, Time, chainVars
<1> QED BY <1>2, <1>3, <1>4, DealStays, StepKinds

(* Whatever the invocations and the reconciler do, whatever is mined late and whoever *)
(* else calls, the deal's covenant and fee move as the contracts promise.              *)
THEOREM DirectImplementsDeal == Spec => ImplementsDeal
<1>1. ExecutionInit => Deals!DealInit
  BY DEF ExecutionInit, ChainInit, NoCovenant, Deals!DealInit
<1>2. DirectInv /\ [Next]_vars => [Deals!DealNext]_(Deals!dealVars)
  BY StepIsDeal
<1> QED BY <1>1, <1>2, DirectInvariant, PTL DEF Spec, ImplementsDeal, Deals!DealSpec
===============================================================================
