--------------------------- MODULE CoveredJobReceipt ---------------------------
(***************************************************************************)
(* The service around the ledger: src/api/covered-job-receipt.js           *)
(* sells a covered receipt for an x402 payment, src/api/reconcile-         *)
(* coverage.js follows the covered job, and src/api/record-payout.js       *)
(* records what the operator paid.  Invocations are serverless: any number *)
(* run at once, each holds records it has read across its awaits, and each *)
(* may stop anywhere.                                                      *)
(*                                                                         *)
(* A call's pc names the await it is at.  The token, the facilitator and   *)
(* the task escrow are external: a submitted authorization is mined at     *)
(* most once before it expires, and a job moves on by itself.              *)
(*                                                                         *)
(* To the service a payment is the header it came in, by the hash of its   *)
(* bytes; to the token it is the authorization the header carries.  One    *)
(* authorization can come in differently encoded headers, and is then      *)
(* several payments, for several jobs, of which one transfer pays.         *)
(*                                                                         *)
(* A job whose policy bonds its provider on chain (v0.4) takes its own     *)
(* branches of the handler: between the reservation and the journal it has *)
(* a covenant issued, and nothing but the reconciler of UniversalCover,    *)
(* where those steps are, ends its reservation.                            *)
(***************************************************************************)
EXTENDS CoverageLedger

CONSTANTS
    Call,              \* concurrent invocations of the paid endpoint
    Reconciler,        \* concurrent reconciler runs
    Recorder,          \* concurrent record-payout invocations
    Authorization,     \* signed transfers of the fee, by nonce
    AuthorizationOf,   \* the one each payment header carries
    RequestOf, CapOf,  \* the job each payment covers, and its verified cap
    Bonded, Relayed,   \* the jobs whose policies bond a provider on chain, and
                       \* those of them that run over PolicyPool's relay
    InitialReserve,    \* the reserve wallet's balance
    MaxCrashes         \* bound of the model on invocations that die

ASSUME ServiceAssumption ==
    /\ RequestOf \in [Payment -> Request] /\ CapOf \in [Payment -> Cap]
    /\ AuthorizationOf \in [Payment -> Authorization]
    /\ Relayed \subseteq Bonded /\ Bonded \subseteq Request
    /\ InitialReserve \in Nat /\ MaxCrashes \in Nat

VARIABLES
    calls,             \* the paid endpoint's invocations
    reconcilers,       \* the reconciler's
    recorders,         \* record-payout's
    submitted,         \* payments handed to the facilitator
    settled,           \* those a scan from their submission on finds the transfer of
    expired,           \* those whose authorization is over
    jobStatus, overdue,             \* jobs: escrow status, deadline past
    reserve,           \* balance of the reserve wallet
    payoutAmount,      \* payout transactions that were sent, and their amounts
    crashes            \* invocations that died so far

worldVars == <<submitted, settled, expired, jobStatus, overdue, reserve, payoutAmount>>
serviceVars == <<calls, reconcilers, recorders, worldVars, crashes>>
allServiceVars == <<ledgerVars, serviceVars>>

Snapshot == LedgerRecord \cup {NoRecord}
JobStatus == {"accepted", "delivered", "disputed", "closed", "stopped"}
CallStep == {"idle", "found", "reconcile", "release", "recover", "verify", "balance",
             "order", "reserve", "journal", "undo", "settle", "outcome", "markUnknown",
             "finalize", "issue", "attach", "compensate"}

ServiceTypeOK ==
    /\ LedgerTypeOK
    /\ calls \in [Call -> [pc : CallStep, payment : Payment \cup {NoPayment},
                           rec : Snapshot, balance : Nat]]
    /\ reconcilers \in [Reconciler -> [rec : Snapshot, status : JobStatus \cup {"unread"}]]
    /\ recorders \in [Recorder -> Snapshot]
    /\ submitted \subseteq Payment /\ settled \subseteq Payment /\ expired \subseteq Payment
    /\ jobStatus \in [Request -> JobStatus]
    /\ overdue \subseteq Request
    /\ reserve \in Nat /\ crashes \in 0 .. MaxCrashes
    /\ payoutAmount \in [Payout -> Nat]

NoCall == [pc |-> "idle", payment |-> NoPayment, rec |-> NoRecord, balance |-> 0]
NoReconciler == [rec |-> NoRecord, status |-> "unread"]

ServiceInit ==
    /\ LedgerInit
    /\ calls = [c \in Call |-> NoCall]
    /\ reconcilers = [k \in Reconciler |-> NoReconciler]
    /\ recorders = [k \in Recorder |-> NoRecord]
    /\ submitted = {} /\ settled = {} /\ expired = {}
    /\ jobStatus = [r \in Request |-> "accepted"]
    /\ overdue = {}
    /\ reserve = InitialReserve
    /\ payoutAmount = [t \in Payout |-> 0]
    /\ crashes = 0

at(c, pc) == calls[c].pc = pc
goto(c, pc) == calls' = [calls EXCEPT ![c].pc = pc]
gotoWith(c, pc, rec) == calls' = [calls EXCEPT ![c].pc = pc, ![c].rec = rec]
reply(c) == calls' = [calls EXCEPT ![c] = NoCall]
othersUnchanged == UNCHANGED <<reconcilers, recorders, worldVars, crashes>>
callOnly == UNCHANGED <<ledgerVars, reconcilers, recorders, worldVars, crashes>>

-------------------------------------------------------------------------------
(* The paid endpoint *)

bonded(c) == RequestOf[calls[c].payment] \in Bonded

\* findByPaymentId reads the payment key and then, one await later, the record.
Lookup(c, p) ==
    /\ at(c, "idle")
    /\ calls' = [calls EXCEPT ![c].payment = p,
                              ![c].pc = IF payments[p] = NoRequest THEN "verify" ELSE "found"]
    /\ callOnly

\* A record with a receipt is the answer; one whose payment was submitted is
\* reconciled first; one to be compensated is left to the reconciler; anything
\* else goes the way of a new request.
ReadRecord(c) ==
    LET rec == records[RequestOf[calls[c].payment]] IN
    /\ at(c, "found")
    /\ \/ rec.state \in Issued /\ reply(c)
       \/ /\ rec.state \in Unfinished /\ rec.settlement \in {"submitting", "unknown"}
          /\ gotoWith(c, "reconcile", rec)
       \/ rec.state = "compensation_required" /\ rec.settlement = "none" /\ reply(c)
       \/ /\ \/ rec.state = "missing"
             \/ rec.state = "pending" /\ rec.settlement = "none"
          /\ goto(c, "verify")
    /\ callOnly

\* Mutant: an incomplete search for the payment counts as not found.
notFoundEarly(p) == p \notin settled

\* The scan found no transfer in the whole window the authorization was valid in.
notFound(p) == p \notin settled /\ p \in expired

\* reconcileSettlement, of the record this call has read, has three outcomes:
\* the transfer, its absence, or no answer yet (the chain is behind or out of reach).
ReconcileSettled(c) ==
    /\ at(c, "reconcile") /\ calls[c].rec.paymentId \in settled
    /\ goto(c, "recover") /\ callOnly

ReconcileNotFound(c) ==
    /\ at(c, "reconcile") /\ notFound(calls[c].rec.paymentId)
    /\ goto(c, IF bonded(c) THEN "compensate" ELSE "release") /\ callOnly

ReconcilePending(c) ==
    /\ at(c, "reconcile")
    /\ reply(c) /\ callOnly

ReleaseUnsettled(c) ==
    /\ at(c, "release")
    /\ LedgerRelease(calls[c].rec)
    /\ reply(c) /\ othersUnchanged

\* finalRecordForSettlement: a relayed job's receipt waits for its clock.
finalRecord(rec) ==
    [rec EXCEPT !.state = IF rec.request \in Relayed THEN "pending_start" ELSE "active",
                !.settlement = "settled"]

Recover(c) ==
    /\ at(c, "recover")
    /\ LedgerFinalize(finalRecord(calls[c].rec))
    /\ reply(c) /\ othersUnchanged

sameAuthorization(p) == {q \in Payment : AuthorizationOf[q] = AuthorizationOf[p]}

\* The token has executed the authorization, for whichever of its headers.
used(p) == \E q \in settled : AuthorizationOf[q] = AuthorizationOf[p]

\* payment.verify refuses an authorization that was used or has expired.
Verify(c) ==
    /\ at(c, "verify")
    /\ IF used(calls[c].payment) \/ calls[c].payment \in expired THEN reply(c)
       ELSE goto(c, IF bonded(c) THEN "order" ELSE "balance")
    /\ callOnly

ReadBalance(c) ==
    /\ at(c, "balance")
    /\ calls' = [calls EXCEPT ![c].pc = "order", ![c].balance = reserve]
    /\ callOnly

\* verifyTargetOrder and the deadline: an accepted job whose SLA still runs.
VerifyOrder(c) ==
    LET r == RequestOf[calls[c].payment] IN
    /\ at(c, "order")
    /\ IF jobStatus[r] = "accepted" /\ r \notin overdue THEN goto(c, "reserve") ELSE reply(c)
    /\ callOnly

pendingRecord(p) ==
    [request |-> RequestOf[p], paymentId |-> p, state |-> "pending",
     liabilityAtomic |-> IF RequestOf[p] \in Bonded THEN 0 ELSE CapOf[p],
     settlement |-> "none", payout |-> NoPayout]

Reserve(c) ==
    LET rec == pendingRecord(calls[c].payment) IN
    /\ at(c, "reserve")
    /\ \/ /\ LedgerReserve(rec, calls[c].balance)
          /\ gotoWith(c, IF bonded(c) THEN "issue" ELSE "journal", rec)
       \/ /\ reserveStatus(rec, calls[c].balance) # "reserved"
          /\ reply(c) /\ UNCHANGED ledgerVars
    /\ othersUnchanged

submitting(rec) == [rec EXCEPT !.settlement = "submitting"]

\* Mutant: the payment is submitted before its journal entry is written.
JournalSkipped(rec) == UNCHANGED ledgerVars

JournalWrite(rec) == LedgerMarkSettlement(submitting(rec))

\* The submission is journalled before it is made.  settlementRecovery refuses an
\* authorization that is over by now; when it does, when the stored record does
\* not come back as submitting, or when the write fails or is only thought to
\* have failed, the reservation is undone, or a covenant's left to compensation.
Journal(c) ==
    LET rec == calls[c].rec
        undo == IF bonded(c) THEN "compensate" ELSE "undo" IN
    /\ at(c, "journal")
    /\ \/ /\ calls[c].payment \notin expired /\ JournalWrite(rec)
          /\ IF stored(rec) = "pending" THEN gotoWith(c, "settle", submitting(rec))
                                        ELSE goto(c, undo)
       \/ calls[c].payment \notin expired /\ JournalWrite(rec) /\ goto(c, undo)
       \/ UNCHANGED ledgerVars /\ goto(c, undo)
    /\ othersUnchanged

Undo(c) ==
    /\ at(c, "undo")
    /\ LedgerRelease(calls[c].rec)
    /\ reply(c) /\ othersUnchanged

\* payment.settle hands the authorization to the facilitator.
Submit(c) ==
    /\ at(c, "settle")
    /\ submitted' = submitted \cup {calls[c].payment}
    /\ goto(c, "outcome")
    /\ UNCHANGED <<ledgerVars, reconcilers, recorders, settled, expired, jobStatus, overdue,
                   reserve, payoutAmount, crashes>>

\* Success is a verified transfer; every failure is an unknown outcome.
Outcome(c) ==
    /\ at(c, "outcome")
    /\ \/ calls[c].payment \in settled /\ goto(c, "finalize")
       \/ goto(c, "markUnknown")
    /\ callOnly

MarkUnknown(c) ==
    /\ at(c, "markUnknown")
    /\ LedgerMarkSettlement([calls[c].rec EXCEPT !.settlement = "unknown"])
    /\ reply(c) /\ othersUnchanged

Finalize(c) ==
    /\ at(c, "finalize")
    /\ LedgerFinalize(finalRecord(calls[c].rec))
    /\ reply(c) /\ othersUnchanged

\* An invocation dies, or a ledger call of its fails, and it does nothing more.
Crash(c) ==
    /\ ~at(c, "idle") /\ crashes < MaxCrashes
    /\ crashes' = crashes + 1
    /\ reply(c)
    /\ UNCHANGED <<ledgerVars, reconcilers, recorders, worldVars>>

-------------------------------------------------------------------------------
(* The reconciler: a record of the list, then its job, then the clock *)

ListRecord(k, r) ==
    /\ reconcilers[k].rec = NoRecord
    /\ records[r].state = "active"
    /\ reconcilers' = [reconcilers EXCEPT ![k].rec = records[r]]
    /\ UNCHANGED <<ledgerVars, calls, recorders, worldVars, crashes>>

ReadJobStatus(k) ==
    /\ reconcilers[k].rec # NoRecord /\ reconcilers[k].status = "unread"
    /\ reconcilers' = [reconcilers EXCEPT ![k].status = jobStatus[reconcilers[k].rec.request]]
    /\ UNCHANGED <<ledgerVars, calls, recorders, worldVars, crashes>>

\* The status was read one await ago; the deadline is compared with the clock now.
\* A relayed job's receipt names no deadline, so none is ever seen to pass or hold.
Decide(k) ==
    LET rec  == reconcilers[k].rec
        st   == reconcilers[k].status
        due  == rec.request \in overdue \ Relayed
        inTime == rec.request \notin overdue \cup Relayed IN
    /\ st # "unread"
    /\ \/ st = "accepted" /\ due /\ LedgerMarkPayoutDue([rec EXCEPT !.state = "payout_due"])
       \/ /\ st \in {"closed", "stopped"} \/ (st = "delivered" /\ inTime)
          /\ LedgerMarkReleased([rec EXCEPT !.state = "released"])
       \/ /\ st = "disputed" \/ (st = "accepted" /\ ~due) \/ (st = "delivered" /\ ~inTime)
          /\ UNCHANGED ledgerVars
    /\ reconcilers' = [reconcilers EXCEPT ![k] = NoReconciler]
    /\ UNCHANGED <<calls, recorders, worldVars, crashes>>

-------------------------------------------------------------------------------
(* Payouts: the operator pays a due receipt; the transaction is recorded later *)

SendPayout(r, t) ==
    /\ records[r].state = "payout_due"
    /\ payoutAmount[t] = 0 /\ records[r].liabilityAtomic <= reserve
    /\ payoutAmount' = [payoutAmount EXCEPT ![t] = records[r].liabilityAtomic]
    /\ reserve' = reserve - records[r].liabilityAtomic
    /\ UNCHANGED <<ledgerVars, calls, reconcilers, recorders, submitted, settled, expired,
                   jobStatus, overdue, crashes>>

\* record-payout reads the record, and verifies the transaction against it.
VerifyPayout(k, r, t) ==
    /\ recorders[k] = NoRecord
    /\ records[r].state = "payout_due" /\ payoutAmount[t] = records[r].liabilityAtomic
    /\ recorders' = [recorders EXCEPT ![k] = [records[r] EXCEPT !.state = "paid", !.payout = t]]
    /\ UNCHANGED <<ledgerVars, calls, reconcilers, worldVars, crashes>>

RecordPayout(k) ==
    /\ recorders[k] # NoRecord
    /\ LedgerMarkPaid(recorders[k])
    /\ recorders' = [recorders EXCEPT ![k] = NoRecord]
    /\ UNCHANGED <<calls, reconcilers, worldVars, crashes>>

-------------------------------------------------------------------------------
(* The outside world *)

hasRecord(p) ==
    records[RequestOf[p]].state # "missing" /\ records[RequestOf[p]].paymentId = p

\* A scan starts half a minute before the submission it looks for.  It finds a
\* transfer that was mined later, and may find one from just before.
Scanned(p) ==
    p \in submitted \/ (hasRecord(p) /\ records[RequestOf[p]].settlement # "none")

\* The authorization of a submitted payment is executed; found by all its headers'
\* scans that have begun, and by those yet to begin that reach back that far.
Mine(p) ==
    /\ p \in submitted \ expired /\ ~used(p)
    /\ \E S \in SUBSET sameAuthorization(p) :
         {q \in sameAuthorization(p) : Scanned(q)} \subseteq S /\ settled' = settled \cup S
    /\ UNCHANGED <<ledgerVars, calls, reconcilers, recorders, submitted, expired, jobStatus,
                   overdue, reserve, payoutAmount, crashes>>

\* The authorization's window and the scan's margin are over, wherever the
\* invocations that hold it are.
ExpireAuthorization(p) ==
    /\ p \notin expired
    /\ expired' = expired \cup sameAuthorization(p)
    /\ UNCHANGED <<ledgerVars, calls, reconcilers, recorders, submitted, settled, jobStatus,
                   overdue, reserve, payoutAmount, crashes>>

JobSteps ==
    [accepted |-> {"delivered", "closed", "stopped"}, delivered |-> {"disputed", "closed"},
     disputed |-> {"closed"}, closed |-> {}, stopped |-> {}]

JobMoves(r, s) ==
    /\ s \in JobSteps[jobStatus[r]]
    /\ jobStatus' = [jobStatus EXCEPT ![r] = s]
    /\ UNCHANGED <<ledgerVars, calls, reconcilers, recorders, submitted, settled, expired,
                   overdue, reserve, payoutAmount, crashes>>

DeadlinePasses(r) ==
    /\ r \notin overdue
    /\ overdue' = overdue \cup {r}
    /\ UNCHANGED <<ledgerVars, calls, reconcilers, recorders, submitted, settled, expired,
                   jobStatus, reserve, payoutAmount, crashes>>

-------------------------------------------------------------------------------
CallStepNext(c) ==
    \/ ReadRecord(c) \/ ReconcileSettled(c) \/ ReconcileNotFound(c)
    \/ ReconcilePending(c) \/ ReleaseUnsettled(c) \/ Recover(c)
    \/ Verify(c) \/ ReadBalance(c) \/ VerifyOrder(c) \/ Reserve(c)
    \/ Journal(c) \/ Undo(c) \/ Submit(c) \/ Outcome(c) \/ MarkUnknown(c) \/ Finalize(c)

BuyerNext ==
    \/ \E c \in Call, p \in Payment : Lookup(c, p)
    \/ \E c \in Call : CallStepNext(c) \/ Crash(c)
    \/ \E p \in Payment : Mine(p) \/ ExpireAuthorization(p)

ReconcilerNext ==
    \E k \in Reconciler :
        (\E r \in Request : ListRecord(k, r)) \/ ReadJobStatus(k) \/ Decide(k)

PayoutNext ==
    \/ \E r \in Request, t \in Payout : SendPayout(r, t)
    \/ \E k \in Recorder :
          (\E r \in Request, t \in Payout : VerifyPayout(k, r, t)) \/ RecordPayout(k)

JobNext ==
    \E r \in Request : (\E s \in JobStatus : JobMoves(r, s)) \/ DeadlinePasses(r)

ServiceNext == BuyerNext \/ ReconcilerNext \/ PayoutNext \/ JobNext

ServiceSpec == ServiceInit /\ [][ServiceNext]_allServiceVars

\* A buyer who was charged replays until it is answered, invocations that do not
\* crash run to their end, and a chain scan that is repeated forever completes.
ServiceFairness ==
    /\ \A c \in Call : WF_allServiceVars(CallStepNext(c))
    /\ \A p \in Payment : SF_allServiceVars(\E c \in Call : Lookup(c, p))
    /\ \A p \in Payment : SF_allServiceVars(
          \E c \in Call : calls[c].payment = p /\ ReconcileSettled(c))

-------------------------------------------------------------------------------
(* Properties *)

\* A buyer is never charged without a durable record of the payment: either its
\* receipt, or the marker from which a replay still reconciles it.
ChargedIsRecorded ==
    \A p \in submitted \cap settled :
        hasRecord(p) /\ records[RequestOf[p]].settlement # "none"

\* A payment header is handed to the facilitator by one invocation only, ever,
\* however many replays, undone reservations and crashes there are.  It says
\* nothing of two headers of one authorization: those are two payments.
HeaderSubmittedByOne ==
    [][ \A c, d \in Call :
          Submit(c) => /\ calls[c].payment \notin submitted
                       /\ at(d, "settle") /\ c # d => calls[d].payment # calls[c].payment
      ]_allServiceVars

\* A buyer who was charged gets its receipt by replaying the header it submitted.
ChargedGetsReceipt ==
    \A p \in Payment :
        (p \in submitted \cap settled) ~> (hasRecord(p) /\ records[RequestOf[p]].state \in Issued)
===============================================================================
