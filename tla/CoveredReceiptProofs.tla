-------------------------- MODULE CoveredReceiptProofs --------------------------
(***************************************************************************)
(* The receipts' safety: what the ledger of CoverageLedger keeps while the *)
(* invocations of CoveredJobReceipt overlap, replay and die, and what the  *)
(* covenants of UniversalCover keep beside it while reconcilers decide     *)
(* from what they have read, for any payments, jobs and invocations.       *)
(*                                                                         *)
(* ServiceInv is inductive.  Every record and every snapshot of one is     *)
(* faithful: it names the job its payment covers and what that payment's   *)
(* cover costs.  Snapshots of issued receipts stand: the receipt is still  *)
(* issued, for the same payment.  And a payment whose authorization can    *)
(* still be used is held by at most one invocation that may submit it.     *)
(*                                                                         *)
(* So is BondInv.  A covenant tells what happened to its payment and its   *)
(* job, and what a worker holds was true when it was read and is of a kind *)
(* that stays true: a job once judged is judged, a covenant that was       *)
(* cancelled is, a payment whose authorization closed is not mined.        *)
(*                                                                         *)
(* Nothing is assumed of the payments: several may be for one job and      *)
(* differ in their caps, and several may carry one authorization.          *)
(***************************************************************************)
EXTENDS UniversalCover, UnitSumsProofs, TLAPS

Owed(p) == IF RequestOf[p] \in Bonded THEN 0 ELSE CapOf[p]

Faithful(rec) ==
    /\ rec \in LedgerRecord
    /\ rec.request = RequestOf[rec.paymentId]
    /\ rec.liabilityAtomic = Owed(rec.paymentId)
    /\ rec.state # "compensation_required"
    /\ rec.state \in Issued => rec.settlement = "settled"

CallRecord == [pc : CallStep, payment : Payment \cup {NoPayment}, rec : Snapshot, balance : Nat]

ReconcilerRecord == [rec : Snapshot, status : JobStatus \cup {"unread"}]

\* The variables' types, but for the counters': the others' do not rest on theirs.
LedgerTypes ==
    /\ requests \subseteq Request
    /\ payments \in [Payment -> Request \cup {NoRequest}]
    /\ records \in [Request -> LedgerRecord \cup {NoRecord}]
    /\ payouts \in [Payout -> Request \cup {NoRequest}]

InvocationTypes ==
    /\ calls \in [Call -> CallRecord]
    /\ reconcilers \in [Reconciler -> ReconcilerRecord]
    /\ recorders \in [Recorder -> Snapshot]

\* The authorization of one header is over when it is over for them all.
ExpiredTogether == \A p \in expired : sameAuthorization(p) \subseteq expired

WorldTypes ==
    /\ submitted \subseteq Payment /\ settled \subseteq Payment /\ expired \subseteq Payment
    /\ ExpiredTogether
    /\ jobStatus \in [Request -> JobStatus]
    /\ overdue \subseteq Request
    /\ reserve \in Nat /\ crashes \in 0 .. MaxCrashes
    /\ payoutAmount \in [Payout -> Nat]

\* A job has a faithful record exactly while its request key is set.
RecordsFaithful ==
    \A r \in Request :
      \/ records[r] = NoRecord /\ r \notin requests
      \/ Faithful(records[r]) /\ records[r].request = r /\ r \in requests

PaidOnce ==
    \A r \in Request : records[r].state = "paid" =>
        records[r].payout \in Payout /\ payouts[records[r].payout] = r

LedgerInv == LedgerTypes /\ RecordsFaithful /\ PaidOnce

Reserved == {"issue", "journal", "undo", "settle", "outcome", "markUnknown", "finalize"}
Replaying == {"reconcile", "recover", "release"}

\* What an invocation of the paid endpoint knows at each of its awaits.
CallKnows(call) ==
    /\ call.pc # "idle" => call.payment \in Payment
    /\ call.pc \in Reserved \cup Replaying =>
          Faithful(call.rec) /\ call.rec.state = "pending"
    /\ call.pc \in Reserved => call.rec.paymentId = call.payment
    /\ call.pc = "release" => call.rec.paymentId \in expired \ settled

\* The receipt a snapshot was read from is still issued, for the same payment.
Stands(rec) ==
    /\ records[rec.request].state \in Issued
    /\ records[rec.request].paymentId = rec.paymentId

ReconcilerKnows(run) ==
    /\ run.rec = NoRecord => run.status = "unread"
    /\ run.rec # NoRecord => Faithful(run.rec) /\ run.rec.state = "active" /\ Stands(run.rec)

RecorderKnows(rec) ==
    rec # NoRecord =>
        Faithful(rec) /\ rec.state = "paid" /\ rec.payout \in Payout /\ Stands(rec)

\* An invocation that holds a reservation, and may undo it or submit its payment.
Holding == {"issue", "journal", "undo", "settle"}
Holds(c, p) == calls[c].pc \in Holding /\ calls[c].payment = p
Settling(c, p) == calls[c].pc = "settle" /\ calls[c].payment = p

HeldByOne(p) ==
    /\ \A c, d \in Call : Settling(c, p) /\ Settling(d, p) => c = d
    /\ \A c \in Call : Settling(c, p) => p \notin submitted
    /\ p \notin expired \ settled =>
         /\ \A c, d \in Call : Holds(c, p) /\ Holds(d, p) => c = d
         /\ \A c \in Call : Holds(c, p) => p \notin submitted /\ payments[p] # NoRequest
         /\ p \in submitted => payments[p] # NoRequest

ServiceInv ==
    /\ LedgerInv
    /\ InvocationTypes
    /\ WorldTypes
    /\ \A c \in Call : CallKnows(calls[c])
    /\ \A k \in Reconciler : ReconcilerKnows(reconcilers[k])
    /\ \A k \in Recorder : RecorderKnows(recorders[k])
    /\ \A p \in Payment : HeldByOne(p)

\* An issued receipt takes only the steps that are allowed.
Advances ==
    \A r \in Request : records[r].state \in Issued =>
          /\ records'[r].state \in StepsFrom(records[r].state)
          /\ records'[r].paymentId = records[r].paymentId

-------------------------------------------------------------------------------
(* Records *)

(* The fields of a faithful record. *)
LEMMA FaithfulShape ==
  ASSUME NEW rec, Faithful(rec)
  PROVE  /\ rec.request \in Request /\ rec.paymentId \in Payment
         /\ rec.request = RequestOf[rec.paymentId]
         /\ rec.state \in {"pending"} \cup Issued
         /\ rec # NoRecord
BY DEF Faithful, LedgerRecord, Unfinished, Issued, NoRecord

(* A new reservation is faithful. *)
LEMMA PendingFaithful ==
  ASSUME ServiceAssumption, NEW p \in Payment
  PROVE  /\ Faithful(pendingRecord(p))
         /\ pendingRecord(p).request = RequestOf[p] /\ pendingRecord(p).paymentId = p
         /\ pendingRecord(p).state = "pending"
         /\ pendingRecord(p).liabilityAtomic = Owed(p)
BY DEF ServiceAssumption, Faithful, pendingRecord, LedgerRecord, Unfinished, Issued, Owed

(* The journal's entries are faithful. *)
LEMMA JournalFaithful ==
  ASSUME NEW rec, Faithful(rec), rec.state = "pending", NEW s \in {"submitting", "unknown"}
  PROVE  /\ Faithful([rec EXCEPT !.settlement = s])
         /\ [rec EXCEPT !.settlement = s].request = rec.request
         /\ [rec EXCEPT !.settlement = s].paymentId = rec.paymentId
         /\ [rec EXCEPT !.settlement = s].state = "pending"
         /\ [rec EXCEPT !.settlement = s].settlement = s
BY DEF Faithful, LedgerRecord, Issued

(* So is the receipt of a settled payment. *)
LEMMA FinalFaithful ==
  ASSUME NEW rec, Faithful(rec)
  PROVE  /\ Faithful(finalRecord(rec))
         /\ finalRecord(rec).request = rec.request
         /\ finalRecord(rec).paymentId = rec.paymentId
         /\ finalRecord(rec).state \in {"active", "pending_start"}
         /\ finalRecord(rec).settlement = "settled"
BY DEF Faithful, LedgerRecord, Issued, finalRecord

(* And so is a receipt that moves on. *)
LEMMA IssuedFaithful ==
  ASSUME NEW rec, Faithful(rec), rec.state \in Issued,
         NEW s \in {"payout_due", "released"}
  PROVE  /\ Faithful([rec EXCEPT !.state = s])
         /\ [rec EXCEPT !.state = s].request = rec.request
         /\ [rec EXCEPT !.state = s].paymentId = rec.paymentId
         /\ [rec EXCEPT !.state = s].state = s
BY DEF Faithful, LedgerRecord, Issued

(* And one that was paid. *)
LEMMA PaidFaithful ==
  ASSUME NEW rec, Faithful(rec), rec.state \in Issued, NEW t \in Payout
  PROVE  /\ Faithful([rec EXCEPT !.state = "paid", !.payout = t])
         /\ [rec EXCEPT !.state = "paid", !.payout = t].request = rec.request
         /\ [rec EXCEPT !.state = "paid", !.payout = t].paymentId = rec.paymentId
         /\ [rec EXCEPT !.state = "paid", !.payout = t].state = "paid"
         /\ [rec EXCEPT !.state = "paid", !.payout = t].payout = t
BY DEF Faithful, LedgerRecord, Issued

(* What is found under a job's key. *)
LEMMA RecordFound ==
  ASSUME RecordsFaithful, NEW r \in Request
  PROVE  \/ records[r] = NoRecord /\ records[r].state = "missing" /\ r \notin requests
         \/ /\ Faithful(records[r]) /\ records[r].request = r /\ r \in requests
            /\ records[r].state \in {"pending"} \cup Issued
BY FaithfulShape DEF RecordsFaithful, NoRecord

(* An issued receipt goes on to issued states. *)
LEMMA StepsAreIssued ==
  ASSUME NEW s \in Issued
  PROVE  s \in StepsFrom(s) /\ StepsFrom(s) \subseteq Issued
BY DEF Issued, StepsFrom
-------------------------------------------------------------------------------
(* The scripts *)

(* One record is written or deleted with its request key. *)
LEMMA RecordWritten ==
  ASSUME LedgerTypes, RecordsFaithful, NEW r \in Request, NEW new,
         records' = [records EXCEPT ![r] = new],
         \/ new = NoRecord /\ requests' = requests \ {r}
         \/ Faithful(new) /\ new.request = r /\ requests' = requests \cup {r}
  PROVE  /\ RecordsFaithful'
         /\ records' \in [Request -> LedgerRecord \cup {NoRecord}]
         /\ requests' \subseteq Request
         /\ records'[r] = new
         /\ \A x \in Request \ {r} : records'[x] = records[x]
<1>1. records \in [Request -> LedgerRecord \cup {NoRecord}] /\ requests \subseteq Request
  BY DEF LedgerTypes
<1>2. new \in LedgerRecord \cup {NoRecord}
  BY DEF Faithful
<1>3. records'[r] = new /\ \A x \in Request \ {r} : records'[x] = records[x]
  BY <1>1
<1>4. RecordsFaithful'
  BY <1>3 DEF RecordsFaithful
<1> QED
  BY <1>1, <1>2, <1>3, <1>4

(* A script that finds nothing to do. *)
LEMMA LedgerStill ==
  ASSUME LedgerInv, UNCHANGED ledgerVars
  PROVE  LedgerInv' /\ Advances
<1>1. UNCHANGED <<requests, payments, records, payouts>>
  BY DEF ledgerVars
<1>2. LedgerInv'
  BY <1>1 DEF LedgerInv, LedgerTypes, RecordsFaithful, PaidOnce
<1>3. Advances
  BY <1>1, StepsAreIssued DEF Advances
<1> QED
  BY <1>2, <1>3

(* A record that is no issued receipt is replaced by one that is not paid. *)
LEMMA UnissuedReplaced ==
  ASSUME LedgerInv, NEW r \in Request, NEW new, records' = [records EXCEPT ![r] = new],
         \/ new = NoRecord /\ requests' = requests \ {r}
         \/ Faithful(new) /\ new.request = r /\ requests' = requests \cup {r},
         records[r].state \notin Issued, new.state # "paid",
         payments' \in [Payment -> Request \cup {NoRequest}], UNCHANGED payouts
  PROVE  LedgerInv' /\ Advances
<1>1. /\ RecordsFaithful'
      /\ records' \in [Request -> LedgerRecord \cup {NoRecord}]
      /\ requests' \subseteq Request
      /\ records'[r] = new
      /\ \A x \in Request \ {r} : records'[x] = records[x]
  BY RecordWritten DEF LedgerInv
<1>2. PaidOnce'
  BY <1>1 DEF LedgerInv, PaidOnce
<1>3. Advances
  BY <1>1, StepsAreIssued DEF Advances
<1> QED
  BY <1>1, <1>2, <1>3 DEF LedgerInv, LedgerTypes

(* A reservation finds no record under its request key. *)
LEMMA ReserveKeeps ==
  ASSUME ServiceAssumption, LedgerInv, NEW p \in Payment, NEW balance,
         LedgerReserve(pendingRecord(p), balance)
  PROVE  LedgerInv' /\ Advances /\ records[RequestOf[p]] = NoRecord
<1> DEFINE rec == pendingRecord(p)
<1>1. /\ Faithful(rec) /\ rec.request = RequestOf[p] /\ rec.paymentId = p
      /\ rec.state = "pending" /\ rec.request \in Request
  BY PendingFaithful, FaithfulShape
<1> HIDE DEF rec
<1>2. /\ rec.request \notin requests
      /\ requests' = requests \cup {rec.request}
      /\ payments' = [payments EXCEPT ![rec.paymentId] = rec.request]
      /\ records' = [records EXCEPT ![rec.request] = rec]
      /\ UNCHANGED payouts
  BY DEF LedgerReserve, reserveStatus, rec
<1>3. records[rec.request] = NoRecord /\ records[rec.request].state \notin Issued
  BY <1>1, <1>2, RecordFound DEF LedgerInv, Issued
<1>4. payments' \in [Payment -> Request \cup {NoRequest}]
  BY <1>1, <1>2 DEF LedgerInv, LedgerTypes
<1> QED
  BY <1>1, <1>2, <1>3, <1>4, UnissuedReplaced

(* A release deletes nothing that was issued. *)
LEMMA ReleaseKeeps ==
  ASSUME LedgerInv, NEW rec, Faithful(rec), LedgerRelease(rec)
  PROVE  LedgerInv' /\ Advances
<1>1. rec.request \in Request /\ rec.paymentId \in Payment
  BY FaithfulShape
<1>2. CASE releasable(rec)
  <2>1. /\ requests' = requests \ {rec.request}
        /\ payments' = [payments EXCEPT ![rec.paymentId] = NoRequest]
        /\ records' = [records EXCEPT ![rec.request] = NoRecord]
        /\ UNCHANGED payouts
    BY <1>2 DEF LedgerRelease
  <2>2. records[rec.request].state \notin Issued /\ NoRecord.state # "paid"
    BY <1>2 DEF releasable, stored, Unfinished, Issued, NoRecord
  <2>3. payments' \in [Payment -> Request \cup {NoRequest}]
    BY <1>1, <2>1 DEF LedgerInv, LedgerTypes
  <2> QED
    BY <1>1, <2>1, <2>2, <2>3, UnissuedReplaced
<1>3. CASE ~releasable(rec)
  BY <1>3, LedgerStill DEF LedgerRelease
<1> QED
  BY <1>2, <1>3

(* A record is overwritten only while it is no receipt. *)
LEMMA MarkSettlementKeeps ==
  ASSUME LedgerInv, NEW rec, Faithful(rec), rec.state = "pending", LedgerMarkSettlement(rec)
  PROVE  LedgerInv' /\ Advances
<1>1. rec.request \in Request
  BY FaithfulShape
<1>2. CASE stored(rec) = "pending"
  <2>1. /\ records' = [records EXCEPT ![rec.request] = rec]
        /\ UNCHANGED <<requests, payments, payouts>>
    BY <1>2 DEF LedgerMarkSettlement
  <2>2. rec.request \in requests /\ records[rec.request].state \notin Issued
    BY <1>1, <1>2, RecordFound DEF LedgerInv, stored, Issued
  <2>3. requests' = requests \cup {rec.request}
        /\ payments' \in [Payment -> Request \cup {NoRequest}]
    BY <2>1, <2>2 DEF LedgerInv, LedgerTypes
  <2> QED
    BY <1>1, <2>1, <2>2, <2>3, UnissuedReplaced
<1>3. CASE stored(rec) # "pending"
  BY <1>3, LedgerStill DEF LedgerMarkSettlement, ledgerVars
<1> QED
  BY <1>2, <1>3

(* A receipt is issued once. *)
LEMMA FinalizeKeeps ==
  ASSUME LedgerInv, NEW rec, Faithful(rec), rec.state \in {"active", "pending_start"},
         LedgerFinalize(rec)
  PROVE  LedgerInv' /\ Advances
<1>1. rec.request \in Request
  BY FaithfulShape
<1>2. CASE stored(rec) \in Unfinished
  <2>1. /\ records' = [records EXCEPT ![rec.request] = rec]
        /\ UNCHANGED <<requests, payments, payouts>>
    BY <1>2 DEF LedgerFinalize
  <2>2. rec.request \in requests /\ records[rec.request].state \notin Issued
    BY <1>1, <1>2, RecordFound DEF LedgerInv, stored, Issued, Unfinished
  <2>3. requests' = requests \cup {rec.request}
        /\ payments' \in [Payment -> Request \cup {NoRequest}]
    BY <2>1, <2>2 DEF LedgerInv, LedgerTypes
  <2> QED
    BY <1>1, <2>1, <2>2, <2>3, UnissuedReplaced
<1>3. CASE stored(rec) \notin Unfinished
  BY <1>3, LedgerStill DEF LedgerFinalize
<1> QED
  BY <1>2, <1>3

(* A receipt that leaves the active state is the one the snapshot was read from. *)
LEMMA LeaveActiveKeeps ==
  ASSUME LedgerInv, NEW rec, Faithful(rec), rec.state \in {"payout_due", "released"},
         records[rec.request].paymentId = rec.paymentId,
         LedgerMarkPayoutDue(rec) \/ LedgerMarkReleased(rec)
  PROVE  LedgerInv' /\ Advances
<1>1. rec.request \in Request
  BY FaithfulShape
<1>2. CASE canLeaveActive(rec)
  <2>1. /\ records' = [records EXCEPT ![rec.request] = rec]
        /\ UNCHANGED <<requests, payments, payouts>>
    BY <1>2 DEF LedgerMarkPayoutDue, LedgerMarkReleased
  <2>2. rec.request \in requests /\ records[rec.request].state = "active"
    BY <1>1, <1>2, RecordFound DEF LedgerInv, canLeaveActive, stored
  <2>3. requests' = requests \cup {rec.request}
    BY <2>1, <2>2
  <2>4. /\ RecordsFaithful'
        /\ records' \in [Request -> LedgerRecord \cup {NoRecord}]
        /\ requests' \subseteq Request
        /\ records'[rec.request] = rec
        /\ \A x \in Request \ {rec.request} : records'[x] = records[x]
    BY <1>1, <2>1, <2>3, RecordWritten DEF LedgerInv
  <2>5. PaidOnce'
    BY <2>1, <2>4 DEF LedgerInv, PaidOnce
  <2>6. Advances
    <3>1. rec.state \in StepsFrom("active")
      BY DEF StepsFrom
    <3> QED
      BY <2>2, <2>4, <3>1, StepsAreIssued DEF Advances
  <2> QED
    BY <2>1, <2>4, <2>5, <2>6 DEF LedgerInv, LedgerTypes
<1>3. CASE ~canLeaveActive(rec)
  BY <1>3, LedgerStill DEF LedgerMarkPayoutDue, LedgerMarkReleased
<1> QED
  BY <1>2, <1>3

(* A payout is recorded for the receipt it paid, and for no other. *)
LEMMA MarkPaidKeeps ==
  ASSUME LedgerAssumption, LedgerInv, NEW rec, Faithful(rec), rec.state = "paid",
         rec.payout \in Payout,
         records[rec.request].paymentId = rec.paymentId, LedgerMarkPaid(rec)
  PROVE  LedgerInv' /\ Advances
<1>1. rec.request \in Request
  BY FaithfulShape
<1>2. CASE payoutUnused(rec) /\ stored(rec) = "payout_due"
  <2>1. /\ records' = [records EXCEPT ![rec.request] = rec]
        /\ payouts' = [payouts EXCEPT ![rec.payout] = rec.request]
        /\ UNCHANGED <<requests, payments>>
    BY <1>2 DEF LedgerMarkPaid
  <2>2. rec.request \in requests /\ records[rec.request].state = "payout_due"
    BY <1>1, <1>2, RecordFound DEF LedgerInv, stored
  <2>3. requests' = requests \cup {rec.request}
    BY <2>1, <2>2
  <2>4. /\ RecordsFaithful'
        /\ records' \in [Request -> LedgerRecord \cup {NoRecord}]
        /\ requests' \subseteq Request
        /\ records'[rec.request] = rec
        /\ \A x \in Request \ {rec.request} : records'[x] = records[x]
    BY <1>1, <2>1, <2>3, RecordWritten DEF LedgerInv
  <2>5. payouts' \in [Payout -> Request \cup {NoRequest}] /\ payouts'[rec.payout] = rec.request
        /\ \A t \in Payout \ {rec.payout} : payouts'[t] = payouts[t]
    BY <1>1, <2>1 DEF LedgerInv, LedgerTypes
  <2>6. PaidOnce'
    <3> SUFFICES ASSUME NEW r \in Request, records'[r].state = "paid"
                 PROVE  records'[r].payout \in Payout /\ payouts'[records'[r].payout] = r
      BY DEF PaidOnce
    <3>1. CASE r = rec.request
      BY <2>4, <2>5, <3>1
    <3>2. CASE r # rec.request
      <4>1. records'[r] = records[r] /\ records[r].payout \in Payout
            /\ payouts[records[r].payout] = r
        BY <2>4, <3>2 DEF LedgerInv, PaidOnce
      <4>2. payouts[rec.payout] \in {NoRequest, rec.request} /\ NoRequest \notin Request
        BY <1>2 DEF payoutUnused, LedgerAssumption
      <4>3. records[r].payout # rec.payout
        BY <3>2, <4>1, <4>2
      <4> QED
        BY <2>5, <4>1, <4>3
    <3> QED
      BY <3>1, <3>2
  <2>7. Advances
    <3>1. "paid" \in StepsFrom("payout_due")
      BY DEF StepsFrom
    <3> QED
      BY <2>2, <2>4, <3>1, StepsAreIssued DEF Advances
  <2> QED
    BY <2>1, <2>4, <2>5, <2>6, <2>7 DEF LedgerInv, LedgerTypes
<1>3. CASE ~(payoutUnused(rec) /\ stored(rec) = "payout_due")
  BY <1>3, LedgerStill DEF LedgerMarkPaid
<1> QED
  BY <1>2, <1>3
-------------------------------------------------------------------------------
(* What the steps write to the ledger *)

\* The scripts an invocation of the paid endpoint calls, and with what record.
CallWrites(c) ==
    \/ calls[c].pc = "reserve" /\ LedgerReserve(pendingRecord(calls[c].payment), calls[c].balance)
    \/ calls[c].pc \in {"release", "undo"} /\ LedgerRelease(calls[c].rec)
    \/ calls[c].pc \in {"recover", "finalize"} /\ LedgerFinalize(finalRecord(calls[c].rec))
    \/ /\ calls[c].pc \in {"journal", "markUnknown"}
       /\ \E s \in {"submitting", "unknown"} :
             LedgerMarkSettlement([calls[c].rec EXCEPT !.settlement = s])

ReconcilerWrites(k) ==
    /\ reconcilers[k].status # "unread"
    /\ \/ /\ reconcilers[k].rec.request \in overdue \ Relayed
          /\ LedgerMarkPayoutDue([reconcilers[k].rec EXCEPT !.state = "payout_due"])
       \/ LedgerMarkReleased([reconcilers[k].rec EXCEPT !.state = "released"])

RecorderWrites(k) == recorders[k] # NoRecord /\ LedgerMarkPaid(recorders[k])

LedgerMoves ==
    \/ UNCHANGED ledgerVars
    \/ \E c \in Call : CallWrites(c)
    \/ \E k \in Reconciler : ReconcilerWrites(k)
    \/ \E k \in Recorder : RecorderWrites(k)

(* A step of the service writes to the ledger in one of these ways, or not at all. *)
LEMMA ServiceWrites ==
  ASSUME [ServiceNext]_allServiceVars
  PROVE  LedgerMoves
<1> USE DEF LedgerMoves
<1>1. CASE UNCHANGED allServiceVars
  BY <1>1 DEF allServiceVars
<1>2. ASSUME NEW c \in Call, CallStepNext(c)
      PROVE  UNCHANGED ledgerVars \/ CallWrites(c)
  <2>1. CASE \/ ReadRecord(c) \/ ReconcileSettled(c) \/ ReconcileNotFound(c)
             \/ ReconcilePending(c) \/ Verify(c) \/ ReadBalance(c) \/ VerifyOrder(c)
             \/ Submit(c) \/ Outcome(c)
    BY <2>1 DEF ReadRecord, ReconcileSettled, ReconcileNotFound, ReconcilePending, Verify,
       ReadBalance, VerifyOrder, Submit, Outcome, callOnly
  <2>2. CASE ReleaseUnsettled(c) \/ Undo(c)
    BY <2>2 DEF ReleaseUnsettled, Undo, CallWrites, at
  <2>3. CASE Recover(c) \/ Finalize(c)
    BY <2>3 DEF Recover, Finalize, CallWrites, at
  <2>4. CASE Reserve(c)
    BY <2>4 DEF Reserve, CallWrites, at
  <2>5. CASE Journal(c)
    BY <2>5 DEF Journal, JournalWrite, submitting, CallWrites, at
  <2>6. CASE MarkUnknown(c)
    BY <2>6 DEF MarkUnknown, CallWrites, at
  <2> QED
    BY <1>2, <2>1, <2>2, <2>3, <2>4, <2>5, <2>6 DEF CallStepNext
<1>3. ASSUME NEW k \in Reconciler, NEW r \in Request,
             ListRecord(k, r) \/ ReadJobStatus(k) \/ Decide(k)
      PROVE  UNCHANGED ledgerVars \/ ReconcilerWrites(k)
  BY <1>3 DEF ListRecord, ReadJobStatus, Decide, ReconcilerWrites
<1>4. ASSUME NEW k \in Reconciler, ReadJobStatus(k) \/ Decide(k)
      PROVE  UNCHANGED ledgerVars \/ ReconcilerWrites(k)
  BY <1>4 DEF ReadJobStatus, Decide, ReconcilerWrites
<1>5. ASSUME NEW k \in Recorder, NEW r \in Request, NEW t \in Payout, VerifyPayout(k, r, t)
      PROVE  UNCHANGED ledgerVars
  BY <1>5 DEF VerifyPayout
<1>6. ASSUME NEW k \in Recorder, RecordPayout(k)
      PROVE  RecorderWrites(k)
  BY <1>6 DEF RecordPayout, RecorderWrites
<1>7. ASSUME NEW c \in Call, NEW p \in Payment, Lookup(c, p)
      PROVE  UNCHANGED ledgerVars
  BY <1>7 DEF Lookup, callOnly
<1>8. ASSUME NEW c \in Call, Crash(c)
      PROVE  UNCHANGED ledgerVars
  BY <1>8 DEF Crash
<1>9. ASSUME NEW p \in Payment, Mine(p) \/ ExpireAuthorization(p)
      PROVE  UNCHANGED ledgerVars
  BY <1>9 DEF Mine, ExpireAuthorization
<1>10. ASSUME NEW r \in Request, NEW t \in Payout, SendPayout(r, t)
       PROVE  UNCHANGED ledgerVars
  BY <1>10 DEF SendPayout
<1>11. ASSUME JobNext
       PROVE  UNCHANGED ledgerVars
  BY <1>11 DEF JobNext, JobMoves, DeadlinePasses
<1>12. CASE BuyerNext
  BY <1>2, <1>7, <1>8, <1>9, <1>12 DEF BuyerNext
<1>13. CASE ReconcilerNext
  BY <1>3, <1>4, <1>13 DEF ReconcilerNext
<1>14. CASE PayoutNext
  BY <1>5, <1>6, <1>10, <1>14 DEF PayoutNext
<1> QED
  BY <1>1, <1>11, <1>12, <1>13, <1>14 DEF ServiceNext

(* However the ledger is written, its records stay faithful and its receipts advance. *)
LEMMA LedgerMovesKeep ==
  ASSUME LedgerAssumption, ServiceAssumption, ServiceInv, LedgerMoves
  PROVE  LedgerInv' /\ Advances
<1>1. ASSUME UNCHANGED ledgerVars
      PROVE  LedgerInv' /\ Advances
  BY <1>1, LedgerStill DEF ServiceInv
<1>2. ASSUME NEW c \in Call, CallWrites(c)
      PROVE  LedgerInv' /\ Advances
  <2>1. CallKnows(calls[c])
    BY DEF ServiceInv
  <2>2. CASE calls[c].pc = "reserve"
             /\ LedgerReserve(pendingRecord(calls[c].payment), calls[c].balance)
    <3>1. calls[c].payment \in Payment
      BY <2>1, <2>2 DEF CallKnows
    <3> QED
      BY <2>2, <3>1, ReserveKeeps DEF ServiceInv
  <2>3. CASE calls[c].pc \in {"release", "undo"} /\ LedgerRelease(calls[c].rec)
    <3>1. Faithful(calls[c].rec)
      BY <2>1, <2>3 DEF CallKnows, Reserved, Replaying
    <3> QED
      BY <2>3, <3>1, ReleaseKeeps DEF ServiceInv
  <2>4. CASE calls[c].pc \in {"recover", "finalize"} /\ LedgerFinalize(finalRecord(calls[c].rec))
    <3>1. Faithful(calls[c].rec)
      BY <2>1, <2>4 DEF CallKnows, Reserved, Replaying
    <3>2. /\ Faithful(finalRecord(calls[c].rec))
          /\ finalRecord(calls[c].rec).state \in {"active", "pending_start"}
      BY <3>1, FinalFaithful
    <3> QED
      BY <2>4, <3>2, FinalizeKeeps DEF ServiceInv
  <2>5. ASSUME calls[c].pc \in {"journal", "markUnknown"}, NEW s \in {"submitting", "unknown"},
               LedgerMarkSettlement([calls[c].rec EXCEPT !.settlement = s])
        PROVE  LedgerInv' /\ Advances
    <3> DEFINE rec == calls[c].rec
    <3>1. Faithful(rec) /\ rec.state = "pending"
      BY <2>1, <2>5 DEF CallKnows, Reserved, Replaying
    <3>2. LedgerMarkSettlement([rec EXCEPT !.settlement = s])
      BY <2>5
    <3> HIDE DEF rec
    <3>3. /\ Faithful([rec EXCEPT !.settlement = s])
          /\ [rec EXCEPT !.settlement = s].state = "pending"
      BY <3>1, JournalFaithful
    <3> QED
      BY <3>2, <3>3, MarkSettlementKeeps DEF ServiceInv
  <2> QED
    BY <1>2, <2>2, <2>3, <2>4, <2>5 DEF CallWrites
<1>3. ASSUME NEW k \in Reconciler, ReconcilerWrites(k)
      PROVE  LedgerInv' /\ Advances
  <2> DEFINE rec == reconcilers[k].rec
  <2>1. ReconcilerKnows(reconcilers[k]) /\ reconcilers[k].status # "unread"
    BY <1>3 DEF ServiceInv, ReconcilerWrites
  <2>2. Faithful(rec) /\ rec.state \in Issued /\ Stands(rec)
    BY <2>1 DEF ReconcilerKnows, Issued
  <2> HIDE DEF rec
  <2>3. ASSUME NEW s \in {"payout_due", "released"}
        PROVE  /\ Faithful([rec EXCEPT !.state = s])
               /\ [rec EXCEPT !.state = s].request = rec.request
               /\ [rec EXCEPT !.state = s].paymentId = rec.paymentId
               /\ [rec EXCEPT !.state = s].state = s
    BY <2>2, IssuedFaithful
  <2>4. records[rec.request].paymentId = rec.paymentId
    BY <2>2 DEF Stands
  <2>5. CASE LedgerMarkPayoutDue([rec EXCEPT !.state = "payout_due"])
    BY <2>3, <2>4, <2>5, LeaveActiveKeeps DEF ServiceInv
  <2>6. CASE LedgerMarkReleased([rec EXCEPT !.state = "released"])
    BY <2>3, <2>4, <2>6, LeaveActiveKeeps DEF ServiceInv
  <2> QED
    BY <1>3, <2>5, <2>6 DEF ReconcilerWrites, rec
<1>4. ASSUME NEW k \in Recorder, RecorderWrites(k)
      PROVE  LedgerInv' /\ Advances
  <2>1. RecorderKnows(recorders[k]) /\ recorders[k] # NoRecord
    BY <1>4 DEF ServiceInv, RecorderWrites
  <2> QED
    BY <1>4, <2>1, MarkPaidKeeps DEF ServiceInv, RecorderWrites, RecorderKnows, Stands
<1> QED
  BY <1>1, <1>2, <1>3, <1>4 DEF LedgerMoves

(* A receipt that stands goes on standing. *)
LEMMA StandsOn ==
  ASSUME Advances, NEW rec, rec.request \in Request, Stands(rec)
  PROVE  Stands(rec)'
BY StepsAreIssued DEF Advances, Stands
-------------------------------------------------------------------------------
(* How an invocation moves *)

CallsInv ==
    /\ calls \in [Call -> CallRecord]
    /\ \A c \in Call : CallKnows(calls[c])
    /\ \A p \in Payment : HeldByOne(p)

authorizationVars == <<submitted, settled, expired>>

\* The invocation goes to another await, and the others stay where they are.
OthersStay(c) ==
    calls' \in [Call -> CallRecord] /\ \A d \in Call \ {c} : calls'[d] = calls[d]

Becomes(c, pc, rec) ==
    /\ OthersStay(c)
    /\ calls'[c].pc = pc /\ calls'[c].payment = calls[c].payment /\ calls'[c].rec = rec

(* The invocation goes on with the record it has. *)
LEMMA CallGoes ==
  ASSUME InvocationTypes, NEW c \in Call, NEW pc \in CallStep, goto(c, pc)
  PROVE  Becomes(c, pc, calls[c].rec)
<1>1. calls \in [Call -> CallRecord] /\ calls' = [calls EXCEPT ![c].pc = pc]
  BY DEF InvocationTypes, goto
<1>2. calls' = [calls EXCEPT ![c] = [calls[c] EXCEPT !.pc = pc]]
  BY <1>1
<1>3. [calls[c] EXCEPT !.pc = pc] \in CallRecord
  BY <1>1 DEF CallRecord
<1>4. OthersStay(c)
  BY <1>1, <1>2, <1>3 DEF OthersStay
<1> QED
  BY <1>1, <1>2, <1>4 DEF Becomes, CallRecord

(* Or with another. *)
LEMMA CallGoesWith ==
  ASSUME InvocationTypes, NEW c \in Call, NEW pc \in CallStep, NEW rec \in Snapshot,
         gotoWith(c, pc, rec)
  PROVE  Becomes(c, pc, rec)
<1>1. calls \in [Call -> CallRecord]
      /\ calls' = [calls EXCEPT ![c].pc = pc, ![c].rec = rec]
  BY DEF InvocationTypes, gotoWith
<1>2. calls' = [calls EXCEPT ![c] = [calls[c] EXCEPT !.pc = pc, !.rec = rec]]
  BY <1>1
<1>3. [calls[c] EXCEPT !.pc = pc, !.rec = rec] \in CallRecord
  BY <1>1 DEF CallRecord
<1>4. OthersStay(c)
  BY <1>1, <1>2, <1>3 DEF OthersStay
<1> QED
  BY <1>1, <1>2, <1>4 DEF Becomes, CallRecord

(* Or it is over. *)
LEMMA CallReplies ==
  ASSUME InvocationTypes, NEW c \in Call, reply(c)
  PROVE  OthersStay(c) /\ calls'[c].pc = "idle"
<1>1. calls \in [Call -> CallRecord] /\ calls' = [calls EXCEPT ![c] = NoCall]
  BY DEF InvocationTypes, reply
<1>2. NoCall \in CallRecord /\ NoCall.pc = "idle"
  BY DEF NoCall, CallRecord, CallStep, Snapshot
<1> QED
  BY <1>1, <1>2 DEF OthersStay

(* What the other invocations know, they still know: nothing that expired unpaid *)
(* is paid any more.                                                             *)
LEMMA CallsKnow ==
  ASSUME ServiceInv, NEW c \in Call, OthersStay(c), CallKnows(calls'[c]),
         UNCHANGED <<settled, expired>>
  PROVE  calls' \in [Call -> CallRecord] /\ \A d \in Call : CallKnows(calls[d])'
<1>1. \A d \in Call : CallKnows(calls'[d])
  BY DEF OthersStay, ServiceInv
<1> QED
  BY <1>1 DEF OthersStay, CallKnows

(* An invocation leaves what it held, and a payment key with it at most for a *)
(* payment that it held alone or that can never be made.                      *)
LEMMA CallLetsGo ==
  ASSUME ServiceInv, NEW c \in Call, OthersStay(c), CallKnows(calls'[c]),
         calls'[c].pc \notin Holding, UNCHANGED authorizationVars,
         \A q \in Payment : \/ payments'[q] = payments[q]
                            \/ q \in expired \ settled \/ Holds(c, q)
  PROVE  CallsInv'
<1>1. UNCHANGED <<submitted, settled, expired>>
  BY DEF authorizationVars
<1>2. calls' \in [Call -> CallRecord] /\ \A d \in Call : CallKnows(calls[d])'
  BY <1>1, CallsKnow
<1>3. ASSUME NEW p \in Payment
      PROVE  HeldByOne(p)'
  <2>1. HeldByOne(p)
    BY DEF ServiceInv
  <2>2. ASSUME NEW d \in Call
        PROVE  /\ Holds(d, p)' => d # c /\ Holds(d, p)
               /\ Settling(d, p)' => d # c /\ Settling(d, p)
    BY DEF OthersStay, Holds, Settling, Holding
  <2>3. \/ payments'[p] = payments[p]
        \/ p \in expired \ settled \/ Holds(c, p)
    OBVIOUS
  <2> QED
    BY <1>1, <2>1, <2>2, <2>3 DEF HeldByOne
<1> QED
  BY <1>2, <1>3 DEF CallsInv

(* A reservation is held by the invocation that made it, its payment key being free. *)
LEMMA CallReserves ==
  ASSUME ServiceInv, NEW c \in Call, OthersStay(c), CallKnows(calls'[c]),
         calls'[c].pc \in {"issue", "journal"}, calls'[c].payment \in Payment,
         UNCHANGED authorizationVars,
         payments[calls'[c].payment] = NoRequest, payments'[calls'[c].payment] # NoRequest,
         \A q \in Payment : q # calls'[c].payment => payments'[q] = payments[q]
  PROVE  CallsInv'
<1>1. UNCHANGED <<submitted, settled, expired>>
  BY DEF authorizationVars
<1>2. calls' \in [Call -> CallRecord] /\ \A d \in Call : CallKnows(calls[d])'
  BY <1>1, CallsKnow
<1>3. ASSUME NEW p \in Payment
      PROVE  HeldByOne(p)'
  <2>1. HeldByOne(p)
    BY DEF ServiceInv
  <2>2. ASSUME NEW d \in Call, d # c
        PROVE  (Holds(d, p)' <=> Holds(d, p)) /\ (Settling(d, p)' <=> Settling(d, p))
    BY <2>2 DEF OthersStay, Holds, Settling, Holding
  <2>3. (Holds(c, p)' => p = calls'[c].payment) /\ ~Settling(c, p)'
    BY DEF Holds, Settling
  <2>4. CASE p = calls'[c].payment
    BY <1>1, <2>1, <2>2, <2>3, <2>4 DEF HeldByOne
  <2>5. CASE p # calls'[c].payment
    <3>1. payments'[p] = payments[p]
      BY <2>5
    <3> QED
      BY <1>1, <2>1, <2>2, <2>3, <2>5, <3>1 DEF HeldByOne
  <2> QED
    BY <2>4, <2>5
<1> QED
  BY <1>2, <1>3 DEF CallsInv

(* The holder of a reservation submits its payment only while it can be used. *)
LEMMA CallHoldsOn ==
  ASSUME ServiceInv, NEW c \in Call, NEW p \in Payment, NEW pc \in {"undo", "settle"}, NEW rec,
         Holds(c, p), Becomes(c, pc, rec), CallKnows(calls'[c]),
         pc = "settle" => p \notin expired,
         UNCHANGED authorizationVars, UNCHANGED payments
  PROVE  CallsInv'
<1>1. UNCHANGED <<submitted, settled, expired>>
  BY DEF authorizationVars
<1>2. calls' \in [Call -> CallRecord] /\ \A d \in Call : CallKnows(calls[d])'
  BY <1>1, CallsKnow DEF Becomes
<1>3. ASSUME NEW q \in Payment
      PROVE  HeldByOne(q)'
  <2>1. HeldByOne(q)
    BY DEF ServiceInv
  <2>2. ASSUME NEW d \in Call
        PROVE  /\ Holds(d, q)' <=> Holds(d, q)
               /\ d # c => (Settling(d, q)' <=> Settling(d, q))
    BY DEF Becomes, OthersStay, Holds, Settling, Holding
  <2>3. Settling(c, q)' => q = p /\ q \notin expired
    BY DEF Becomes, Holds, Settling
  <2>4. \A d \in Call : Settling(d, q) => Holds(d, q)
    BY DEF Settling, Holds, Holding
  <2>5. Holds(c, q) <=> q = p
    BY DEF Holds
  <2>6. /\ \A b, d \in Call : Settling(b, q)' /\ Settling(d, q)' => b = d
        /\ \A d \in Call : Settling(d, q)' => q \notin submitted
    BY <2>1, <2>2, <2>3, <2>4, <2>5 DEF HeldByOne
  <2> QED
    BY <1>1, <2>1, <2>2, <2>6 DEF HeldByOne
<1> QED
  BY <1>2, <1>3 DEF CallsInv
(* The payment is submitted by the one invocation that holds its reservation. *)
LEMMA CallSubmits ==
  ASSUME ServiceInv, NEW c \in Call, NEW p \in Payment, Settling(c, p),
         Becomes(c, "outcome", calls[c].rec), submitted' = submitted \cup {p},
         UNCHANGED <<settled, expired, payments>>
  PROVE  CallsInv'
<1>1. CallKnows(calls'[c])
  BY DEF ServiceInv, CallKnows, Becomes, Settling, Reserved, Replaying
<1>2. calls' \in [Call -> CallRecord] /\ \A d \in Call : CallKnows(calls[d])'
  BY <1>1, CallsKnow DEF Becomes
<1>3. ASSUME NEW q \in Payment
      PROVE  HeldByOne(q)'
  <2>1. HeldByOne(q) /\ HeldByOne(p)
    BY DEF ServiceInv
  <2>2. ASSUME NEW d \in Call
        PROVE  /\ Holds(d, q)' => d # c /\ Holds(d, q)
               /\ Settling(d, q)' => d # c /\ Settling(d, q)
    BY DEF Becomes, OthersStay, Holds, Settling, Holding
  <2>3. Holds(c, p)
    BY DEF Settling, Holds, Holding
  <2>4. p \notin expired \ settled => payments[p] # NoRequest
    BY <2>1, <2>3 DEF HeldByOne
  <2>5. ASSUME q = p, NEW d \in Call, d # c
        PROVE  ~Settling(d, q) /\ (q \notin expired \ settled => ~Holds(d, q))
    BY <2>1, <2>3, <2>5 DEF HeldByOne
  <2>6. CASE q = p
    BY <2>1, <2>2, <2>4, <2>5, <2>6 DEF HeldByOne
  <2>7. CASE q # p
    <3>1. q \in submitted' <=> q \in submitted
      BY <2>7
    <3> QED
      BY <2>1, <2>2, <3>1 DEF HeldByOne
  <2> QED
    BY <2>6, <2>7
<1> QED
  BY <1>2, <1>3 DEF CallsInv

(* A transfer is found by scans of headers whose authorization was not over. *)
LEMMA PaymentMined ==
  ASSUME ServiceInv, NEW S \in SUBSET (Payment \ expired),
         settled' = settled \cup S, UNCHANGED <<submitted, expired, payments, calls>>
  PROVE  CallsInv'
<1>1. expired \ settled = expired' \ settled'
  OBVIOUS
<1>2. \A d \in Call : CallKnows(calls[d])'
  BY <1>1 DEF ServiceInv, CallKnows
<1>3. ASSUME NEW q \in Payment
      PROVE  HeldByOne(q)'
  <2>1. HeldByOne(q)
    BY DEF ServiceInv
  <2>2. ASSUME NEW d \in Call
        PROVE  (Holds(d, q)' <=> Holds(d, q)) /\ (Settling(d, q)' <=> Settling(d, q))
    BY DEF Holds, Settling
  <2>3. q \in expired' \ settled' <=> q \in expired \ settled
    BY <1>1
  <2> QED
    BY <2>1, <2>2, <2>3 DEF HeldByOne
<1> QED
  BY <1>2, <1>3 DEF CallsInv, ServiceInv, InvocationTypes

(* An authorization is over. *)
LEMMA PaymentExpired ==
  ASSUME ServiceInv, NEW S \in SUBSET Payment, expired' = expired \cup S,
         UNCHANGED <<submitted, settled, payments, calls>>
  PROVE  CallsInv'
<1>1. expired \ settled \subseteq expired' \ settled'
  OBVIOUS
<1>2. \A d \in Call : CallKnows(calls[d])'
  BY <1>1 DEF ServiceInv, CallKnows
<1>3. ASSUME NEW q \in Payment
      PROVE  HeldByOne(q)'
  <2>1. HeldByOne(q)
    BY DEF ServiceInv
  <2>2. ASSUME NEW d \in Call
        PROVE  (Holds(d, q)' <=> Holds(d, q)) /\ (Settling(d, q)' <=> Settling(d, q))
    BY DEF Holds, Settling
  <2> QED
    BY <2>1, <2>2 DEF HeldByOne
<1> QED
  BY <1>2, <1>3 DEF CallsInv, ServiceInv, InvocationTypes

(* Nothing that the invocations or the token are about has moved. *)
LEMMA CallsStill ==
  ASSUME ServiceInv, UNCHANGED <<calls, payments, submitted, settled, expired>>
  PROVE  CallsInv'
<1>1. ASSUME NEW q \in Payment
      PROVE  HeldByOne(q)'
  <2>1. HeldByOne(q)
    BY DEF ServiceInv
  <2>2. ASSUME NEW d \in Call
        PROVE  (Holds(d, q)' <=> Holds(d, q)) /\ (Settling(d, q)' <=> Settling(d, q))
    BY DEF Holds, Settling
  <2> QED
    BY <2>1, <2>2 DEF HeldByOne
<1> QED
  BY <1>1 DEF CallsInv, ServiceInv, InvocationTypes, CallKnows

-------------------------------------------------------------------------------
(* The paid endpoint, step by step *)

(* The reads, the checks and the answers write nothing and hold nothing. *)
LEMMA ReadingKeeps ==
  ASSUME ServiceAssumption, ServiceInv, NEW c \in Call,
         \/ ReadRecord(c) \/ ReconcileSettled(c) \/ ReconcileNotFound(c)
         \/ ReconcilePending(c) \/ Verify(c) \/ VerifyOrder(c) \/ Outcome(c)
  PROVE  CallsInv'
<1> DEFINE rec == calls[c].rec
<1>0. /\ CallKnows(calls[c]) /\ InvocationTypes
      /\ UNCHANGED payments /\ UNCHANGED authorizationVars
  BY DEF ServiceInv, ReadRecord, ReconcileSettled, ReconcileNotFound, ReconcilePending,
     Verify, VerifyOrder, Outcome, callOnly, worldVars, ledgerVars, authorizationVars
<1>1. ASSUME reply(c)
      PROVE  CallsInv'
  <2>1. OthersStay(c) /\ calls'[c].pc = "idle"
    BY <1>0, <1>1, CallReplies
  <2>2. CallKnows(calls'[c]) /\ calls'[c].pc \notin Holding
    BY <2>1 DEF CallKnows, Reserved, Replaying, Holding
  <2> QED
    BY <1>0, <2>1, <2>2, CallLetsGo
<1>2. ASSUME NEW pc \in {"verify", "order", "balance", "reserve", "compensate"}, goto(c, pc),
             calls[c].pc # "idle"
      PROVE  CallsInv'
  <2>1. Becomes(c, pc, rec)
    BY <1>0, <1>2, CallGoes DEF CallStep
  <2>2. CallKnows(calls'[c]) /\ calls'[c].pc \notin Holding
    BY <1>0, <1>2, <2>1 DEF CallKnows, Reserved, Replaying, Holding, Becomes
  <2> QED
    BY <1>0, <2>1, <2>2, CallLetsGo DEF Becomes
<1>3. CASE ReadRecord(c)
  <2> DEFINE found == records[RequestOf[calls[c].payment]]
  <2>1. calls[c].pc = "found" /\ RequestOf[calls[c].payment] \in Request
    BY <1>0, <1>3 DEF ReadRecord, at, CallKnows, ServiceAssumption
  <2>2. CASE found.state \in Unfinished /\ gotoWith(c, "reconcile", found)
    <3>1. Faithful(found) /\ found.state = "pending" /\ found \in Snapshot
      BY <2>1, <2>2, RecordFound
         DEF ServiceInv, LedgerInv, Unfinished, Issued, Faithful, Snapshot, NoRecord
    <3> HIDE DEF found
    <3>2. Becomes(c, "reconcile", found)
      BY <1>0, <2>2, <3>1, CallGoesWith DEF CallStep
    <3>3. CallKnows(calls'[c]) /\ calls'[c].pc \notin Holding
      BY <1>0, <2>1, <3>1, <3>2 DEF CallKnows, Reserved, Replaying, Holding, Becomes
    <3> QED
      BY <1>0, <3>2, <3>3, CallLetsGo DEF Becomes
  <2>3. \/ reply(c) \/ goto(c, "verify")
        \/ found.state \in Unfinished /\ gotoWith(c, "reconcile", found)
    BY <1>3 DEF ReadRecord
  <2> QED
    BY <1>1, <1>2, <2>1, <2>2, <2>3
<1>4. CASE ReconcileSettled(c) \/ Outcome(c)
  <2>1. \/ calls[c].pc = "reconcile" /\ goto(c, "recover")
        \/ calls[c].pc = "outcome" /\ goto(c, "finalize")
        \/ calls[c].pc = "outcome" /\ goto(c, "markUnknown")
    BY <1>4 DEF ReconcileSettled, Outcome, at
  <2>2. \/ calls[c].pc = "reconcile" /\ Becomes(c, "recover", rec)
        \/ calls[c].pc = "outcome" /\ Becomes(c, "finalize", rec)
        \/ calls[c].pc = "outcome" /\ Becomes(c, "markUnknown", rec)
    BY <1>0, <2>1, CallGoes DEF CallStep
  <2>3. CallKnows(calls'[c]) /\ calls'[c].pc \notin Holding /\ OthersStay(c)
    BY <1>0, <2>2 DEF CallKnows, Reserved, Replaying, Holding, Becomes
  <2> QED
    BY <1>0, <2>3, CallLetsGo
<1>5. CASE ReconcileNotFound(c)
  <2>1. /\ calls[c].pc = "reconcile" /\ rec.paymentId \in expired \ settled
        /\ goto(c, "compensate") \/ goto(c, "release")
    BY <1>5 DEF ReconcileNotFound, at, notFound
  <2>2. CASE goto(c, "release")
    <3>1. Becomes(c, "release", rec)
      BY <1>0, <2>2, CallGoes DEF CallStep
    <3>2. CallKnows(calls'[c]) /\ calls'[c].pc \notin Holding /\ OthersStay(c)
      BY <1>0, <2>1, <3>1 DEF CallKnows, Reserved, Replaying, Holding, Becomes
    <3> QED
      BY <1>0, <3>2, CallLetsGo
  <2> QED
    BY <1>2, <2>1, <2>2
<1>6. CASE ReconcilePending(c)
  BY <1>1, <1>6 DEF ReconcilePending
<1>7. CASE Verify(c)
  BY <1>1, <1>2, <1>7 DEF Verify, at
<1>8. CASE VerifyOrder(c)
  BY <1>1, <1>2, <1>8 DEF VerifyOrder, at
<1> QED
  BY <1>3, <1>4, <1>5, <1>6, <1>7, <1>8
(* The first reading takes up a payment; the balance is remembered beside it. *)
LEMMA LookingKeeps ==
  ASSUME ServiceInv, NEW c \in Call, (\E p \in Payment : Lookup(c, p)) \/ ReadBalance(c)
  PROVE  CallsInv'
<1>0. /\ CallKnows(calls[c]) /\ calls \in [Call -> CallRecord] /\ reserve \in Nat
      /\ UNCHANGED payments /\ UNCHANGED authorizationVars
  BY DEF ServiceInv, InvocationTypes, WorldTypes, Lookup, ReadBalance, callOnly, worldVars,
     ledgerVars, authorizationVars
<1>1. ASSUME NEW p \in Payment, Lookup(c, p)
      PROVE  CallsInv'
  <2>1. PICK pc \in {"verify", "found"} :
           calls' = [calls EXCEPT ![c] = [calls[c] EXCEPT !.payment = p, !.pc = pc]]
    BY <1>0, <1>1 DEF Lookup
  <2>2. [calls[c] EXCEPT !.payment = p, !.pc = pc] \in CallRecord
    BY <1>0 DEF CallRecord, CallStep
  <2>3. OthersStay(c) /\ calls'[c].pc = pc /\ calls'[c].payment = p
    BY <1>0, <2>1, <2>2 DEF OthersStay, CallRecord
  <2>4. CallKnows(calls'[c]) /\ calls'[c].pc \notin Holding
    BY <2>3 DEF CallKnows, Reserved, Replaying, Holding
  <2> QED
    BY <1>0, <2>3, <2>4, CallLetsGo
<1>2. CASE ReadBalance(c)
  <2>1. /\ calls[c].pc = "balance"
        /\ calls' = [calls EXCEPT ![c] = [calls[c] EXCEPT !.pc = "order", !.balance = reserve]]
    BY <1>0, <1>2 DEF ReadBalance, at
  <2>2. [calls[c] EXCEPT !.pc = "order", !.balance = reserve] \in CallRecord
    BY <1>0 DEF CallRecord, CallStep
  <2>3. OthersStay(c) /\ calls'[c].pc = "order" /\ calls'[c].payment = calls[c].payment
    BY <1>0, <2>1, <2>2 DEF OthersStay, CallRecord
  <2>4. CallKnows(calls'[c]) /\ calls'[c].pc \notin Holding
    BY <1>0, <2>1, <2>3 DEF CallKnows, Reserved, Replaying, Holding
  <2> QED
    BY <1>0, <2>3, <2>4, CallLetsGo
<1> QED
  BY <1>1, <1>2

(* What ends an invocation frees at most the payment key of its own record. *)
LEMMA EndingKeeps ==
  ASSUME ServiceInv, NEW c \in Call,
         \/ ReleaseUnsettled(c) \/ Recover(c) \/ Undo(c) \/ MarkUnknown(c) \/ Finalize(c)
         \/ Crash(c)
  PROVE  CallsInv'
<1> DEFINE rec == calls[c].rec
<1>0. CallKnows(calls[c]) /\ InvocationTypes /\ LedgerTypes
  BY DEF ServiceInv, LedgerInv
<1>1. reply(c) /\ UNCHANGED authorizationVars
  BY DEF ReleaseUnsettled, Recover, Undo, MarkUnknown, Finalize, Crash, othersUnchanged,
     worldVars, authorizationVars
<1>2. OthersStay(c) /\ calls'[c].pc = "idle"
  BY <1>0, <1>1, CallReplies
<1>3. CallKnows(calls'[c]) /\ calls'[c].pc \notin Holding
  BY <1>2 DEF CallKnows, Reserved, Replaying, Holding
<1>4. CASE ReleaseUnsettled(c) \/ Undo(c)
  <2>1. /\ calls[c].pc \in {"release", "undo"}
        /\ \/ UNCHANGED payments
           \/ payments' = [payments EXCEPT ![rec.paymentId] = NoRequest]
    BY <1>4 DEF ReleaseUnsettled, Undo, LedgerRelease, at, ledgerVars
  <2>2. \A q \in Payment : q # rec.paymentId => payments'[q] = payments[q]
    BY <1>0, <2>1 DEF LedgerTypes
  <2>3. CASE calls[c].pc = "release"
    <3>1. rec.paymentId \in expired \ settled
      BY <1>0, <2>3 DEF CallKnows
    <3> QED
      BY <1>1, <1>2, <1>3, <2>2, <3>1, CallLetsGo
  <2>4. CASE calls[c].pc = "undo"
    <3>1. rec.paymentId = calls[c].payment /\ calls[c].payment \in Payment
      BY <1>0, <2>4 DEF CallKnows, Reserved
    <3>2. Holds(c, rec.paymentId)
      BY <2>4, <3>1 DEF Holds, Holding
    <3> HIDE DEF rec
    <3> QED
      BY <1>1, <1>2, <1>3, <2>2, <3>2, CallLetsGo
  <2> QED
    BY <2>1, <2>3, <2>4
<1>5. CASE Recover(c) \/ MarkUnknown(c) \/ Finalize(c) \/ Crash(c)
  <2>1. UNCHANGED payments
    BY <1>5 DEF Recover, MarkUnknown, Finalize, Crash, LedgerFinalize, LedgerMarkSettlement,
       ledgerVars
  <2> QED
    BY <1>1, <1>2, <1>3, <2>1, CallLetsGo
<1> QED
  BY <1>4, <1>5

(* A reservation is made with its payment key free, and is then held. *)
LEMMA ReservingKeeps ==
  ASSUME LedgerAssumption, ServiceAssumption, ServiceInv, NEW c \in Call, Reserve(c)
  PROVE  CallsInv'
<1> DEFINE p == calls[c].payment
           rec == pendingRecord(p)
<1>0. CallKnows(calls[c]) /\ InvocationTypes /\ LedgerTypes /\ UNCHANGED authorizationVars
  BY DEF ServiceInv, LedgerInv, Reserve, othersUnchanged, worldVars, authorizationVars
<1>1. calls[c].pc = "reserve" /\ p \in Payment
  BY <1>0 DEF Reserve, at, CallKnows
<1>2. /\ Faithful(rec) /\ rec.request = RequestOf[p] /\ rec.paymentId = p
      /\ rec.state = "pending" /\ rec.request \in Request
  BY <1>1, PendingFaithful, FaithfulShape
<1>3. CASE reply(c) /\ UNCHANGED ledgerVars
  <2>1. OthersStay(c) /\ calls'[c].pc = "idle" /\ UNCHANGED payments
    BY <1>0, <1>3, CallReplies DEF ledgerVars
  <2>2. CallKnows(calls'[c]) /\ calls'[c].pc \notin Holding
    BY <2>1 DEF CallKnows, Reserved, Replaying, Holding
  <2> QED
    BY <1>0, <2>1, <2>2, CallLetsGo
<1>4. ASSUME LedgerReserve(rec, calls[c].balance), NEW pc \in {"issue", "journal"},
             gotoWith(c, pc, rec)
      PROVE  CallsInv'
  <2>1. rec \in Snapshot
    BY <1>2 DEF Faithful, Snapshot
  <2>2. /\ payments[rec.paymentId] = NoRequest
        /\ payments' = [payments EXCEPT ![rec.paymentId] = rec.request]
    BY <1>4 DEF LedgerReserve, reserveStatus
  <2> HIDE DEF rec
  <2>3. Becomes(c, pc, rec)
    BY <1>0, <1>4, <2>1, CallGoesWith DEF CallStep
  <2>4. CallKnows(calls'[c])
    BY <1>1, <1>2, <2>3 DEF CallKnows, Becomes, Reserved, Replaying
  <2>5. /\ payments[p] = NoRequest /\ payments'[p] # NoRequest
        /\ \A q \in Payment : q # p => payments'[q] = payments[q]
    BY <1>0, <1>1, <1>2, <2>2 DEF LedgerTypes, LedgerAssumption
  <2>6. calls'[c].payment = p /\ calls'[c].pc = pc /\ OthersStay(c)
    BY <2>3 DEF Becomes
  <2> HIDE DEF p
  <2> QED
    BY <1>0, <1>1, <2>4, <2>5, <2>6, CallReserves
<1> QED
  BY <1>3, <1>4 DEF Reserve

(* The journal's writer goes on to submit, or undoes its reservation. *)
LEMMA JournalKeeps ==
  ASSUME ServiceInv, NEW c \in Call, Journal(c)
  PROVE  CallsInv'
<1> DEFINE p == calls[c].payment
           rec == calls[c].rec
<1>0. /\ CallKnows(calls[c]) /\ InvocationTypes /\ UNCHANGED authorizationVars
      /\ UNCHANGED payments
  BY DEF ServiceInv, Journal, JournalWrite, LedgerMarkSettlement, othersUnchanged, worldVars,
     authorizationVars, ledgerVars
<1>1. /\ calls[c].pc = "journal" /\ p \in Payment /\ Holds(c, p)
      /\ Faithful(rec) /\ rec.state = "pending" /\ rec.paymentId = p
  BY <1>0 DEF Journal, at, CallKnows, Reserved, Holds, Holding
<1>2. CASE goto(c, "compensate")
  <2>1. Becomes(c, "compensate", rec)
    BY <1>0, <1>2, CallGoes DEF CallStep
  <2>2. CallKnows(calls'[c]) /\ calls'[c].pc \notin Holding /\ OthersStay(c)
    BY <1>0, <1>1, <2>1 DEF CallKnows, Reserved, Replaying, Holding, Becomes
  <2> QED
    BY <1>0, <2>2, CallLetsGo
<1>3. CASE goto(c, "undo")
  <2>1. Becomes(c, "undo", rec)
    BY <1>0, <1>3, CallGoes DEF CallStep
  <2>2. CallKnows(calls'[c])
    BY <1>1, <2>1 DEF CallKnows, Reserved, Replaying, Becomes
  <2> QED
    BY <1>0, <1>1, <2>1, <2>2, CallHoldsOn
<1>4. CASE p \notin expired /\ gotoWith(c, "settle", submitting(rec))
  <2> DEFINE new == submitting(rec)
  <2>1. /\ Faithful(new) /\ new.state = "pending" /\ new.paymentId = p /\ new \in Snapshot
    BY <1>1, JournalFaithful DEF submitting, Faithful, Snapshot
  <2> HIDE DEF new
  <2>2. Becomes(c, "settle", new)
    BY <1>0, <1>4, <2>1, CallGoesWith DEF CallStep, new
  <2>3. CallKnows(calls'[c])
    BY <1>1, <2>1, <2>2 DEF CallKnows, Reserved, Replaying, Becomes
  <2> QED
    BY <1>0, <1>1, <1>4, <2>2, <2>3, CallHoldsOn
<1> QED
  BY <1>2, <1>3, <1>4 DEF Journal

(* Submitting. *)
LEMMA SubmittingKeeps ==
  ASSUME ServiceInv, NEW c \in Call, Submit(c)
  PROVE  CallsInv'
<1>1. /\ CallKnows(calls[c]) /\ InvocationTypes
      /\ calls[c].pc = "settle" /\ goto(c, "outcome")
      /\ submitted' = submitted \cup {calls[c].payment}
      /\ UNCHANGED <<settled, expired, payments>>
  BY DEF ServiceInv, Submit, at, ledgerVars
<1>2. calls[c].payment \in Payment /\ Settling(c, calls[c].payment)
  BY <1>1 DEF CallKnows, Settling
<1>3. Becomes(c, "outcome", calls[c].rec)
  BY <1>1, CallGoes DEF CallStep
<1> QED
  BY <1>1, <1>2, <1>3, CallSubmits

(* Every step keeps what the invocations of the paid endpoint know and hold. *)
LEMMA CallsStepKeeps ==
  ASSUME LedgerAssumption, ServiceAssumption, ServiceInv, [ServiceNext]_allServiceVars
  PROVE  CallsInv'
<1>1. CASE UNCHANGED allServiceVars
  BY <1>1, CallsStill DEF allServiceVars, serviceVars, worldVars, ledgerVars
<1>2. CASE BuyerNext
  <2>1. ASSUME NEW c \in Call, CallStepNext(c)
        PROVE  CallsInv'
    BY <2>1, ReadingKeeps, LookingKeeps, EndingKeeps, ReservingKeeps, JournalKeeps,
       SubmittingKeeps DEF CallStepNext
  <2>2. ASSUME NEW c \in Call, NEW p \in Payment, Lookup(c, p)
        PROVE  CallsInv'
    BY <2>2, LookingKeeps
  <2>3. ASSUME NEW c \in Call, Crash(c)
        PROVE  CallsInv'
    BY <2>3, EndingKeeps
  <2>4. ASSUME NEW p \in Payment, Mine(p)
        PROVE  CallsInv'
    <3>1. PICK S \in SUBSET sameAuthorization(p) : settled' = settled \cup S
      BY <2>4 DEF Mine
    <3>2. S \subseteq Payment \ expired
      BY <2>4, <3>1 DEF Mine, ServiceInv, WorldTypes, ExpiredTogether, sameAuthorization
    <3>3. UNCHANGED <<submitted, expired, payments, calls>>
      BY <2>4 DEF Mine, ledgerVars
    <3> QED
      BY <3>1, <3>2, <3>3, PaymentMined
  <2>5. ASSUME NEW p \in Payment, ExpireAuthorization(p)
        PROVE  CallsInv'
    <3>1. sameAuthorization(p) \subseteq Payment
      BY DEF sameAuthorization
    <3> QED
      BY <2>5, <3>1, PaymentExpired DEF ExpireAuthorization, ledgerVars
  <2> QED
    BY <1>2, <2>1, <2>2, <2>3, <2>4, <2>5 DEF BuyerNext
<1>3. CASE ReconcilerNext \/ PayoutNext \/ JobNext
  <2>1. UNCHANGED <<calls, payments, submitted, settled, expired>>
    BY <1>3 DEF ReconcilerNext, PayoutNext, JobNext, ListRecord, ReadJobStatus, Decide,
       SendPayout, VerifyPayout, RecordPayout, JobMoves, DeadlinePasses, LedgerMarkPayoutDue,
       LedgerMarkReleased, LedgerMarkPaid, ledgerVars, worldVars
  <2> QED
    BY <2>1, CallsStill
<1> QED
  BY <1>1, <1>2, <1>3 DEF ServiceNext
-------------------------------------------------------------------------------
(* The reconcilers, the recorders and the world *)

(* What was read of a receipt stays true of it. *)
LEMMA SnapshotsKept ==
  ASSUME Advances, ServiceInv
  PROVE  /\ \A k \in Reconciler :
               /\ reconcilers[k].rec = NoRecord => reconcilers[k].status = "unread"
               /\ reconcilers[k].rec # NoRecord =>
                    /\ Faithful(reconcilers[k].rec) /\ reconcilers[k].rec.state = "active"
                    /\ records'[reconcilers[k].rec.request].state \in Issued
                    /\ records'[reconcilers[k].rec.request].paymentId
                         = reconcilers[k].rec.paymentId
         /\ \A k \in Recorder : recorders[k] # NoRecord =>
               /\ Faithful(recorders[k]) /\ recorders[k].state = "paid"
               /\ recorders[k].payout \in Payout
               /\ records'[recorders[k].request].state \in Issued
               /\ records'[recorders[k].request].paymentId = recorders[k].paymentId
<1>1. ASSUME NEW rec, Faithful(rec), Stands(rec)
      PROVE  /\ records'[rec.request].state \in Issued
             /\ records'[rec.request].paymentId = rec.paymentId
  <2>1. rec.request \in Request
    BY <1>1, FaithfulShape
  <2> QED
    BY <1>1, <2>1, StandsOn DEF Stands
<1> QED
  BY <1>1 DEF ServiceInv, ReconcilerKnows, RecorderKnows

(* A reconciler starts from an active record, and forgets it when it has decided. *)
LEMMA ReconcilersKeep ==
  ASSUME Advances, ServiceInv, NEW k \in Reconciler,
         (\E r \in Request : ListRecord(k, r)) \/ ReadJobStatus(k) \/ Decide(k)
  PROVE  /\ reconcilers' \in [Reconciler -> ReconcilerRecord]
         /\ \A j \in Reconciler : ReconcilerKnows(reconcilers[j])'
<1>1. /\ reconcilers \in [Reconciler -> ReconcilerRecord]
      /\ jobStatus \in [Request -> JobStatus]
      /\ \A j \in Reconciler : ReconcilerKnows(reconcilers[j])
  BY DEF ServiceInv, InvocationTypes, WorldTypes
<1>2. PICK new \in ReconcilerRecord :
         /\ reconcilers' = [reconcilers EXCEPT ![k] = new]
         /\ new.rec = NoRecord => new.status = "unread"
         /\ new.rec # NoRecord =>
              /\ Faithful(new.rec) /\ new.rec.state = "active"
              /\ records'[new.rec.request].state \in Issued
              /\ records'[new.rec.request].paymentId = new.rec.paymentId
  <2>1. ASSUME NEW r \in Request, ListRecord(k, r)
        PROVE  \E new \in ReconcilerRecord :
                  /\ reconcilers' = [reconcilers EXCEPT ![k] = new]
                  /\ new.rec = records[r] /\ new.status = "unread"
                  /\ Faithful(new.rec) /\ new.rec.state = "active"
                  /\ Stands(new.rec) /\ UNCHANGED records
    <3> DEFINE new == [reconcilers[k] EXCEPT !.rec = records[r]]
    <3>1. /\ reconcilers[k].rec = NoRecord /\ records[r].state = "active"
          /\ reconcilers' = [reconcilers EXCEPT ![k].rec = records[r]]
          /\ UNCHANGED records
      BY <2>1 DEF ListRecord, ledgerVars
    <3>2. Faithful(records[r]) /\ records[r].request = r
      BY <3>1, RecordFound DEF ServiceInv, LedgerInv
    <3>3. records[r] \in Snapshot
      BY <3>2 DEF Faithful, Snapshot
    <3>4. new \in ReconcilerRecord /\ new.rec = records[r] /\ new.status = "unread"
      BY <1>1, <3>1, <3>3 DEF ReconcilerRecord, ReconcilerKnows
    <3>5. reconcilers' = [reconcilers EXCEPT ![k] = new]
      BY <1>1, <3>1
    <3>6. Stands(records[r])
      BY <3>1, <3>2 DEF Stands, Issued
    <3> HIDE DEF new
    <3> QED
      BY <3>1, <3>2, <3>4, <3>5, <3>6
  <2>2. ASSUME ReadJobStatus(k)
        PROVE  \E new \in ReconcilerRecord :
                  /\ reconcilers' = [reconcilers EXCEPT ![k] = new]
                  /\ new.rec = reconcilers[k].rec /\ reconcilers[k].rec # NoRecord
    <3> DEFINE rec == reconcilers[k].rec
               new == [reconcilers[k] EXCEPT !.status = jobStatus[rec.request]]
    <3>1. /\ rec # NoRecord
          /\ reconcilers' = [reconcilers EXCEPT ![k] = new]
      BY <1>1, <2>2 DEF ReadJobStatus
    <3>2. rec.request \in Request
      BY <1>1, <3>1, FaithfulShape DEF ReconcilerKnows
    <3>3. new \in ReconcilerRecord /\ new.rec = rec
      BY <1>1, <3>2 DEF ReconcilerRecord
    <3> QED
      BY <3>1, <3>3
  <2>3. ASSUME Decide(k)
        PROVE  /\ reconcilers' = [reconcilers EXCEPT ![k] = NoReconciler]
               /\ NoReconciler \in ReconcilerRecord
               /\ NoReconciler.rec = NoRecord /\ NoReconciler.status = "unread"
    BY <2>3 DEF Decide, NoReconciler, ReconcilerRecord, Snapshot
  <2>4. reconcilers[k].rec # NoRecord =>
           /\ Faithful(reconcilers[k].rec) /\ reconcilers[k].rec.state = "active"
           /\ records'[reconcilers[k].rec.request].state \in Issued
           /\ records'[reconcilers[k].rec.request].paymentId = reconcilers[k].rec.paymentId
    BY <1>1, SnapshotsKept
  <2> QED
    BY <2>1, <2>2, <2>3, <2>4 DEF Stands
<1>3. reconcilers' \in [Reconciler -> ReconcilerRecord]
  BY <1>1, <1>2
<1>4. ASSUME NEW j \in Reconciler
      PROVE  ReconcilerKnows(reconcilers[j])'
  BY <1>1, <1>2, SnapshotsKept DEF ReconcilerKnows, Stands
<1> QED
  BY <1>3, <1>4

(* A recorder starts from a due record and the transaction that paid it. *)
LEMMA RecordersKeep ==
  ASSUME Advances, ServiceInv, NEW k \in Recorder,
         \/ \E r \in Request, t \in Payout : VerifyPayout(k, r, t)
         \/ RecordPayout(k)
  PROVE  /\ recorders' \in [Recorder -> Snapshot]
         /\ \A j \in Recorder : RecorderKnows(recorders[j])'
<1>1. /\ recorders \in [Recorder -> Snapshot]
      /\ \A j \in Recorder : RecorderKnows(recorders[j])
  BY DEF ServiceInv, InvocationTypes
<1>2. PICK new \in Snapshot :
         /\ recorders' = [recorders EXCEPT ![k] = new]
         /\ new # NoRecord =>
              /\ Faithful(new) /\ new.state = "paid" /\ new.payout \in Payout
              /\ records'[new.request].state \in Issued
              /\ records'[new.request].paymentId = new.paymentId
  <2>1. ASSUME NEW r \in Request, NEW t \in Payout, VerifyPayout(k, r, t)
        PROVE  \E new \in Snapshot :
                  /\ recorders' = [recorders EXCEPT ![k] = new]
                  /\ Faithful(new) /\ new.state = "paid" /\ new.payout \in Payout
                  /\ records'[new.request].state \in Issued
                  /\ records'[new.request].paymentId = new.paymentId
    <3> DEFINE old == records[r]
               new == [old EXCEPT !.state = "paid", !.payout = t]
    <3>1. /\ old.state = "payout_due" /\ recorders' = [recorders EXCEPT ![k] = new]
          /\ records' = records
      BY <2>1 DEF VerifyPayout, ledgerVars
    <3>2. Faithful(old) /\ old.request = r /\ old.state \in Issued
      BY <3>1, RecordFound DEF ServiceInv, LedgerInv, Issued
    <3> HIDE DEF old
    <3>3. /\ Faithful(new) /\ new.state = "paid" /\ new.payout = t
          /\ new.request = old.request /\ new.paymentId = old.paymentId
      BY <3>2, PaidFaithful
    <3>4. records'[r] = old
      BY <3>1 DEF old
    <3>5. new \in Snapshot
      BY <3>3 DEF Faithful, Snapshot
    <3> HIDE DEF new
    <3> QED
      BY <3>1, <3>2, <3>3, <3>4, <3>5
  <2>2. RecordPayout(k) => recorders' = [recorders EXCEPT ![k] = NoRecord] /\ NoRecord \in Snapshot
    BY DEF RecordPayout, Snapshot
  <2> QED
    BY <2>1, <2>2
<1>3. recorders' \in [Recorder -> Snapshot]
  BY <1>1, <1>2
<1>4. ASSUME NEW j \in Recorder
      PROVE  RecorderKnows(recorders[j])'
  BY <1>1, <1>2, SnapshotsKept DEF RecorderKnows, Stands
<1> QED
  BY <1>3, <1>4

(* The reconcilers and recorders that do not move know what they knew. *)
LEMMA OthersKnow ==
  ASSUME Advances, ServiceInv
  PROVE  /\ UNCHANGED reconcilers =>
               /\ reconcilers' \in [Reconciler -> ReconcilerRecord]
               /\ \A k \in Reconciler : ReconcilerKnows(reconcilers[k])'
         /\ UNCHANGED recorders =>
               /\ recorders' \in [Recorder -> Snapshot]
               /\ \A k \in Recorder : RecorderKnows(recorders[k])'
<1>1. /\ \A k \in Reconciler : ReconcilerKnows(reconcilers[k])
      /\ \A k \in Recorder : RecorderKnows(recorders[k])
      /\ reconcilers \in [Reconciler -> ReconcilerRecord] /\ recorders \in [Recorder -> Snapshot]
  BY DEF ServiceInv, InvocationTypes
<1> QED
  BY <1>1, SnapshotsKept DEF ReconcilerKnows, RecorderKnows, Stands

(* Whichever of them moves. *)
LEMMA RunsStepKeeps ==
  ASSUME Advances, ServiceInv, [ServiceNext]_allServiceVars
  PROVE  /\ reconcilers' \in [Reconciler -> ReconcilerRecord]
         /\ \A k \in Reconciler : ReconcilerKnows(reconcilers[k])'
         /\ recorders' \in [Recorder -> Snapshot]
         /\ \A k \in Recorder : RecorderKnows(recorders[k])'
<1>1. CASE UNCHANGED <<reconcilers, recorders>>
  BY <1>1, OthersKnow
<1>2. ASSUME NEW k \in Reconciler,
             (\E r \in Request : ListRecord(k, r)) \/ ReadJobStatus(k) \/ Decide(k)
      PROVE  /\ UNCHANGED recorders
             /\ reconcilers' \in [Reconciler -> ReconcilerRecord]
             /\ \A j \in Reconciler : ReconcilerKnows(reconcilers[j])'
  BY <1>2, ReconcilersKeep DEF ListRecord, ReadJobStatus, Decide
<1>3. ASSUME NEW k \in Recorder,
             (\E r \in Request, t \in Payout : VerifyPayout(k, r, t)) \/ RecordPayout(k)
      PROVE  /\ UNCHANGED reconcilers
             /\ recorders' \in [Recorder -> Snapshot]
             /\ \A j \in Recorder : RecorderKnows(recorders[j])'
  BY <1>3, RecordersKeep DEF VerifyPayout, RecordPayout
<1>4. \/ UNCHANGED <<reconcilers, recorders>>
      \/ ReconcilerNext
      \/ \E k \in Recorder :
            (\E r \in Request, t \in Payout : VerifyPayout(k, r, t)) \/ RecordPayout(k)
  <2>1. ASSUME NEW c \in Call, CallStepNext(c)
        PROVE  UNCHANGED <<reconcilers, recorders>>
    BY <2>1 DEF CallStepNext, ReadRecord, ReconcileSettled, ReconcileNotFound, ReconcilePending,
       ReleaseUnsettled, Recover, Verify, ReadBalance, VerifyOrder, Reserve, Journal, Undo,
       Submit, Outcome, MarkUnknown, Finalize, callOnly, othersUnchanged
  <2>2. BuyerNext \/ JobNext => UNCHANGED <<reconcilers, recorders>>
    BY <2>1 DEF BuyerNext, JobNext, Lookup, Crash, Mine, ExpireAuthorization, JobMoves,
       DeadlinePasses, callOnly
  <2>3. UNCHANGED allServiceVars => UNCHANGED <<reconcilers, recorders>>
    BY DEF allServiceVars, serviceVars
  <2> QED
    BY <2>2, <2>3 DEF ServiceNext, PayoutNext, SendPayout
<1> QED
  BY <1>1, <1>2, <1>3, <1>4, OthersKnow DEF ReconcilerNext
(* The token, the jobs, the reserve and the crashes keep their types. *)
LEMMA WorldKeeps ==
  ASSUME LedgerAssumption, ServiceAssumption, ServiceInv, [ServiceNext]_allServiceVars
  PROVE  WorldTypes'
<1>0. WorldTypes /\ (\A c \in Call : CallKnows(calls[c])) /\ RecordsFaithful
  BY DEF ServiceInv, LedgerInv
<1>a. UNCHANGED expired => ExpiredTogether'
  BY <1>0 DEF WorldTypes, ExpiredTogether, sameAuthorization
<1>1. CASE UNCHANGED <<worldVars, crashes>>
  BY <1>0, <1>1, <1>a DEF WorldTypes, worldVars
<1>2. ASSUME NEW c \in Call, CallStepNext(c)
      PROVE  WorldTypes'
  <2>1. CASE Submit(c)
    <3>1. calls[c].payment \in Payment
      BY <1>0, <2>1 DEF Submit, at, CallKnows
    <3> QED
      BY <1>0, <1>a, <2>1, <3>1 DEF Submit, WorldTypes
  <2>2. CASE ~Submit(c)
    BY <1>1, <1>2, <2>2 DEF CallStepNext, ReadRecord, ReconcileSettled, ReconcileNotFound,
       ReconcilePending, ReleaseUnsettled, Recover, Verify, ReadBalance, VerifyOrder, Reserve,
       Journal, Undo, Outcome, MarkUnknown, Finalize, callOnly, othersUnchanged
  <2> QED
    BY <2>1, <2>2
<1>3. ASSUME NEW c \in Call, (\E p \in Payment : Lookup(c, p)) \/ Crash(c)
      PROVE  WorldTypes'
  <2>1. CASE \E p \in Payment : Lookup(c, p)
    BY <1>1, <2>1 DEF Lookup, callOnly
  <2>2. CASE Crash(c)
    <3>1. MaxCrashes \in Nat /\ crashes \in 0 .. MaxCrashes
      BY <1>0 DEF ServiceAssumption, WorldTypes
    <3>2. crashes' \in 0 .. MaxCrashes
      BY <2>2, <3>1 DEF Crash
    <3>3. UNCHANGED <<submitted, settled, expired, jobStatus, overdue, reserve, payoutAmount>>
      BY <2>2 DEF Crash, worldVars
    <3> QED
      BY <1>0, <1>a, <3>2, <3>3 DEF WorldTypes
  <2> QED
    BY <1>3, <2>1, <2>2
<1>4. ASSUME NEW p \in Payment, Mine(p) \/ ExpireAuthorization(p)
      PROVE  WorldTypes'
  <2>1. submitted' = submitted /\ settled' \subseteq Payment /\ expired' \subseteq Payment
    BY <1>0, <1>4 DEF Mine, ExpireAuthorization, WorldTypes, sameAuthorization
  <2>2. ExpiredTogether'
    BY <1>0, <1>4 DEF Mine, ExpireAuthorization, WorldTypes, ExpiredTogether, sameAuthorization
  <2>3. UNCHANGED <<jobStatus, overdue, reserve, payoutAmount, crashes>>
    BY <1>4 DEF Mine, ExpireAuthorization
  <2> QED
    BY <1>0, <2>1, <2>2, <2>3 DEF WorldTypes
<1>5. ASSUME NEW r \in Request, NEW t \in Payout, SendPayout(r, t)
      PROVE  WorldTypes'
  <2>1. Faithful(records[r])
    BY <1>0, <1>5, RecordFound DEF SendPayout
  <2>2. records[r].liabilityAtomic \in Nat
    <3> DEFINE rec == records[r]
    <3>1. rec \in LedgerRecord
      BY <2>1 DEF Faithful
    <3> HIDE DEF rec
    <3>2. rec.liabilityAtomic \in Cap \/ rec.liabilityAtomic = 0
      BY <3>1 DEF LedgerRecord
    <3>3. Cap \subseteq Nat
      BY LedgerAssumption DEF LedgerAssumption
    <3>4. rec.liabilityAtomic \in Cap => rec.liabilityAtomic \in Nat
      BY <3>3, Zenon
    <3>5. rec.liabilityAtomic = 0 => rec.liabilityAtomic \in Nat
      OBVIOUS
    <3> QED
      BY <3>2, <3>4, <3>5 DEF rec
  <2> QED
    BY <1>0, <1>a, <1>5, <2>2 DEF SendPayout, WorldTypes
<1>6. ASSUME NEW r \in Request, (\E s \in JobStatus : JobMoves(r, s)) \/ DeadlinePasses(r)
      PROVE  WorldTypes'
  BY <1>0, <1>a, <1>6 DEF JobMoves, DeadlinePasses, WorldTypes
<1>7. ASSUME ReconcilerNext \/ \E k \in Recorder :
                (\E r \in Request, t \in Payout : VerifyPayout(k, r, t)) \/ RecordPayout(k)
      PROVE  UNCHANGED <<worldVars, crashes>>
  BY <1>7 DEF ReconcilerNext, ListRecord, ReadJobStatus, Decide, VerifyPayout, RecordPayout
<1>8. UNCHANGED allServiceVars => UNCHANGED <<worldVars, crashes>>
  BY DEF allServiceVars, serviceVars
<1> QED
  BY <1>1, <1>2, <1>3, <1>4, <1>5, <1>6, <1>7, <1>8
     DEF ServiceNext, BuyerNext, PayoutNext, JobNext

-------------------------------------------------------------------------------
(* The invariant *)

(* Every step keeps the invariant, and takes no receipt back. *)
LEMMA ServiceStepKeeps ==
  ASSUME LedgerAssumption, ServiceAssumption, ServiceInv, [ServiceNext]_allServiceVars
  PROVE  ServiceInv' /\ Advances
<1>1. LedgerInv' /\ Advances
  BY ServiceWrites, LedgerMovesKeep
<1>2. CallsInv'
  BY CallsStepKeeps
<1>3. /\ reconcilers' \in [Reconciler -> ReconcilerRecord]
      /\ \A k \in Reconciler : ReconcilerKnows(reconcilers[k])'
      /\ recorders' \in [Recorder -> Snapshot]
      /\ \A k \in Recorder : RecorderKnows(recorders[k])'
  BY <1>1, RunsStepKeeps
<1>4. WorldTypes'
  BY WorldKeeps
<1> QED
  BY <1>1, <1>2, <1>3, <1>4 DEF ServiceInv, CallsInv, InvocationTypes

(* Nothing is sold yet. *)
LEMMA ServiceInvInit ==
  ASSUME LedgerAssumption, ServiceAssumption, ServiceInit
  PROVE  ServiceInv
<1>1. LedgerInv
  BY DEF ServiceInit, LedgerInit, LedgerInv, LedgerTypes, RecordsFaithful, PaidOnce, NoRecord
<1>2. InvocationTypes
  BY DEF ServiceInit, InvocationTypes, CallRecord, ReconcilerRecord, Snapshot, NoCall,
     NoReconciler, CallStep
<1>3. WorldTypes
  BY DEF ServiceInit, WorldTypes, ServiceAssumption, JobStatus, ExpiredTogether
<1>4. \A c \in Call : calls[c].pc = "idle"
  BY DEF ServiceInit, NoCall
<1>5. \A c \in Call : CallKnows(calls[c])
  BY <1>4 DEF CallKnows, Reserved, Replaying
<1>6. \A p \in Payment : HeldByOne(p)
  BY <1>4 DEF ServiceInit, HeldByOne, Holds, Settling, Holding
<1>7. /\ \A k \in Reconciler : ReconcilerKnows(reconcilers[k])
      /\ \A k \in Recorder : RecorderKnows(recorders[k])
  BY DEF ServiceInit, ReconcilerKnows, RecorderKnows, NoReconciler
<1> QED
  BY <1>1, <1>2, <1>3, <1>5, <1>6, <1>7 DEF ServiceInv

(* The invariant holds in every state the service reaches. *)
LEMMA ServiceInvariant == ServiceSpec => []ServiceInv
<1>1. ServiceInit => ServiceInv
  BY LedgerAssumption, ServiceAssumption, ServiceInvInit
<1>2. ServiceInv /\ [ServiceNext]_allServiceVars => ServiceInv'
  BY LedgerAssumption, ServiceAssumption, ServiceStepKeeps
<1> QED
  BY <1>1, <1>2, PTL DEF ServiceSpec

-------------------------------------------------------------------------------
(* Theorems about every receipt *)

(* One payout transaction is recorded for one receipt, however many recorders verify *)
(* it, for whatever receipts of equal amounts.                                       *)
THEOREM ServicePayoutPaysOne == ServiceSpec => []PayoutPaysOneReceipt
<1>1. ServiceInv => PayoutPaysOneReceipt
  BY DEF ServiceInv, LedgerInv, PaidOnce, PayoutPaysOneReceipt
<1> QED
  BY <1>1, ServiceInvariant, PTL

(* An issued receipt is never taken back nor issued again, and keeps its payment,   *)
(* whatever snapshots the replays, reconcilers and recorders write and however many *)
(* payments there are for its job.                                                  *)
THEOREM ServiceReceiptsAdvance == ServiceSpec => ReceiptsOnlyAdvance
<1> DEFINE Advance ==
      \A r \in Request : records[r].state \in Issued =>
          /\ records'[r].state \in StepsFrom(records[r].state)
          /\ records'[r].paymentId = records[r].paymentId
<1>1. ServiceInv /\ [ServiceNext]_allServiceVars => [Advance]_ledgerVars
  BY LedgerAssumption, ServiceAssumption, ServiceStepKeeps DEF Advances
<1> QED
  BY <1>1, ServiceInvariant, PTL DEF ServiceSpec, ReceiptsOnlyAdvance

(* A payment header is handed to the facilitator by one invocation only, however many   *)
(* replays, undone reservations and crashes there are, though other payments are for    *)
(* its job and other headers carry its authorization.                                   *)
THEOREM ServiceSubmitsOnce == ServiceSpec => HeaderSubmittedByOne
<1> DEFINE Once ==
      \A c, d \in Call :
          Submit(c) => /\ calls[c].payment \notin submitted
                       /\ at(d, "settle") /\ c # d => calls[d].payment # calls[c].payment
<1>1. ServiceInv => Once
  <2> SUFFICES ASSUME ServiceInv, NEW c \in Call, NEW d \in Call, Submit(c)
               PROVE  /\ calls[c].payment \notin submitted
                      /\ at(d, "settle") /\ c # d => calls[d].payment # calls[c].payment
    OBVIOUS
  <2>1. calls[c].pc = "settle" /\ calls[c].payment \in Payment
    BY DEF Submit, at, ServiceInv, CallKnows
  <2>2. HeldByOne(calls[c].payment) /\ Settling(c, calls[c].payment)
    BY <2>1 DEF ServiceInv, Settling
  <2> QED
    BY <2>2 DEF HeldByOne, Settling, at
<1>2. ServiceInv /\ [ServiceNext]_allServiceVars => [Once]_allServiceVars
  BY <1>1
<1> QED
  BY <1>2, ServiceInvariant, PTL DEF ServiceSpec, HeaderSubmittedByOne
-------------------------------------------------------------------------------
(* The counters *)

CountersInv == liability \in [Counter -> Int] /\ IssuedLiabilityCounted

\* The counters of what the reserve owes for issued receipts.
OfReceipts == {"active", "payout_due"}

\* What a record adds to the counter of a state.
Debt(rec, s) == IF rec.state = s THEN rec.liabilityAtomic ELSE 0

(* A faithful record owes a natural number. *)
LEMMA OwedIsNat ==
  ASSUME LedgerAssumption, NEW rec, Faithful(rec)
  PROVE  rec.liabilityAtomic \in Nat
<1>1. rec \in LedgerRecord
  BY DEF Faithful
<1>2. rec.liabilityAtomic \in Cap \/ rec.liabilityAtomic = 0
  BY <1>1 DEF LedgerRecord
<1>3. Cap \subseteq Nat
  BY DEF LedgerAssumption
<1>4. rec.liabilityAtomic \in Cap => rec.liabilityAtomic \in Nat
  BY <1>3, Zenon
<1>5. rec.liabilityAtomic = 0 => rec.liabilityAtomic \in Nat
  OBVIOUS
<1> QED
  BY <1>2, <1>4, <1>5

(* What the counters are compared with. *)
LEMMA DebtsAreNat ==
  ASSUME LedgerAssumption, LedgerInv, NEW s \in Counter, NEW r \in Request
  PROVE  /\ LiabilityIn(s)[r] = Debt(records[r], s)
         /\ Debt(records[r], s) \in Nat
<1>1. Faithful(records[r]) => records[r].liabilityAtomic \in Nat
  BY OwedIsNat
<1>2. records[r].state = s => Faithful(records[r])
  BY RecordFound DEF LedgerInv, Counter
<1> QED
  BY <1>1, <1>2 DEF LiabilityIn, Debt

(* The sum of a counter follows the one record that is written. *)
LEMMA SumFollows ==
  ASSUME LedgerAssumption, LedgerInv, LedgerInv', NEW r \in Request, NEW s \in Counter,
         \A x \in Request \ {r} : records'[x] = records[x]
  PROVE  /\ SumOver(Request, LiabilityIn(s)) \in Nat
         /\ SumOver(Request, LiabilityIn(s))' \in Nat
         /\ SumOver(Request, LiabilityIn(s))' =
              SumOver(Request, LiabilityIn(s)) - Debt(records[r], s) + Debt(records'[r], s)
<1> DEFINE f == LiabilityIn(s)
           g == [x \in Request |-> IF records'[x].state = s THEN records'[x].liabilityAtomic ELSE 0]
<1>1. IsFiniteSet(Request)
  BY DEF LedgerAssumption
<1>2. \A x \in Request : f[x] \in Nat /\ f[x] = Debt(records[x], s)
  BY DebtsAreNat
<1>3. ASSUME NEW x \in Request
      PROVE  g[x] \in Nat /\ g[x] = Debt(records'[x], s)
  <2>1. Faithful(records'[x]) => records'[x].liabilityAtomic \in Nat
    BY OwedIsNat
  <2>2. records'[x].state = s => Faithful(records'[x])
    BY DEF LedgerInv, RecordsFaithful, Counter, NoRecord
  <2> QED
    BY <2>1, <2>2 DEF Debt
<1>4. \A x \in Request \ {r} : g[x] = f[x]
  BY <1>2, <1>3 DEF Debt
<1>5. SumOver(Request, LiabilityIn(s))' = SumOver(Request, g)
  BY DEF LiabilityIn, SumOver, UnitsOver, UnitsOf
<1> HIDE DEF f, g
<1>6. /\ SumOver(Request, f) \in Nat /\ SumOver(Request, g) \in Nat
      /\ SumOver(Request, g) = SumOver(Request, f) - f[r] + g[r]
  BY <1>1, <1>2, <1>3, <1>4, SumOverChange
<1> QED
  BY <1>2, <1>3, <1>5, <1>6 DEF f

(* Counters that follow the record that is written match the records again. *)
LEMMA CountersFollow ==
  ASSUME LedgerAssumption, LedgerInv, LedgerInv', CountersInv, NEW r \in Request, NEW new,
         records' = [records EXCEPT ![r] = new],
         liability' \in [Counter -> Int],
         \A s \in OfReceipts :
            liability'[s] = liability[s] - Debt(records[r], s) + Debt(new, s)
  PROVE  CountersInv'
<1>1. records'[r] = new /\ \A x \in Request \ {r} : records'[x] = records[x]
  BY DEF LedgerInv, LedgerTypes
<1>2. \A s \in OfReceipts : s \in Counter /\ liability[s] = SumOver(Request, LiabilityIn(s))
  BY DEF CountersInv, IssuedLiabilityCounted, Counter, OfReceipts
<1>3. ASSUME NEW s \in OfReceipts
      PROVE  liability'[s] = SumOver(Request, LiabilityIn(s))'
  BY <1>1, <1>2, SumFollows
<1>4. "active" \in OfReceipts /\ "payout_due" \in OfReceipts
  BY DEF OfReceipts
<1> QED
  BY <1>3, <1>4 DEF CountersInv, IssuedLiabilityCounted

(* Nothing is written. *)
LEMMA CountersStill ==
  ASSUME CountersInv, UNCHANGED <<records, liability>>
  PROVE  CountersInv'
BY DEF CountersInv, IssuedLiabilityCounted, LiabilityIn, SumOver, UnitsOver, UnitsOf

(* A reservation replaces another record that is no receipt, or none. *)
LEMMA UnissuedCounts ==
  ASSUME LedgerAssumption, LedgerInv, LedgerInv', CountersInv, NEW r \in Request, NEW new,
         records' = [records EXCEPT ![r] = new],
         records[r].state \notin OfReceipts, new.state \notin OfReceipts,
         NEW n \in Int, liability' = [liability EXCEPT !["pending"] = n]
  PROVE  CountersInv'
<1>1. /\ liability' \in [Counter -> Int]
      /\ \A s \in OfReceipts : liability'[s] = liability[s] /\ liability[s] \in Int
  BY DEF CountersInv, Counter, OfReceipts
<1>2. \A s \in OfReceipts : Debt(records[r], s) = 0 /\ Debt(new, s) = 0
  BY DEF Debt
<1>3. \A s \in OfReceipts :
         liability'[s] = liability[s] - Debt(records[r], s) + Debt(new, s)
  BY <1>1, <1>2
<1> QED
  BY <1>1, <1>3, CountersFollow

(* What is reserved for, released or journalled is not issued. *)
LEMMA ReservationCounts ==
  ASSUME LedgerAssumption, LedgerInv, LedgerInv', CountersInv, NEW rec, Faithful(rec),
         rec.state = "pending",
         \/ \E balance : LedgerReserve(rec, balance) /\ records[rec.request] = NoRecord
         \/ LedgerRelease(rec)
         \/ LedgerMarkSettlement(rec)
  PROVE  CountersInv'
<1>1. /\ rec.request \in Request /\ rec.liabilityAtomic \in Nat
      /\ liability["pending"] \in Int /\ liability \in [Counter -> Int]
  BY FaithfulShape, OwedIsNat DEF CountersInv, Counter
<1>2. rec.state \notin OfReceipts /\ NoRecord.state \notin OfReceipts
  BY DEF OfReceipts, NoRecord
<1>3. CASE \E balance : LedgerReserve(rec, balance) /\ records[rec.request] = NoRecord
  <2>1. /\ records' = [records EXCEPT ![rec.request] = rec]
        /\ liability' = [liability EXCEPT !["pending"] = liability["pending"] + rec.liabilityAtomic]
        /\ records[rec.request] = NoRecord
    BY <1>1, <1>3 DEF LedgerReserve
  <2>2. liability["pending"] + rec.liabilityAtomic \in Int
    BY <1>1
  <2> QED
    BY <1>1, <1>2, <2>1, <2>2, UnissuedCounts
<1>4. CASE LedgerRelease(rec)
  <2>1. CASE releasable(rec)
    <3>1. /\ records' = [records EXCEPT ![rec.request] = NoRecord]
          /\ liability' =
               [liability EXCEPT !["pending"] = liability["pending"] - rec.liabilityAtomic]
      BY <1>1, <1>4, <2>1 DEF LedgerRelease
    <3>2. records[rec.request].state \notin OfReceipts
      BY <2>1 DEF releasable, stored, Unfinished, OfReceipts
    <3>3. liability["pending"] - rec.liabilityAtomic \in Int
      BY <1>1
    <3> QED
      BY <1>1, <1>2, <3>1, <3>2, <3>3, UnissuedCounts
  <2>2. CASE ~releasable(rec)
    BY <1>4, <2>2, CountersStill DEF LedgerRelease, ledgerVars
  <2> QED
    BY <2>1, <2>2
<1>5. CASE LedgerMarkSettlement(rec)
  <2>1. CASE stored(rec) = "pending"
    <3>1. records' = [records EXCEPT ![rec.request] = rec] /\ UNCHANGED liability
      BY <1>5, <2>1 DEF LedgerMarkSettlement
    <3>2. records[rec.request].state \notin OfReceipts
      BY <2>1 DEF stored, OfReceipts
    <3>3. liability' = [liability EXCEPT !["pending"] = liability["pending"]]
      BY <1>1, <3>1
    <3> QED
      BY <1>1, <1>2, <3>1, <3>2, <3>3, UnissuedCounts
  <2>2. CASE stored(rec) # "pending"
    BY <1>5, <2>2, CountersStill DEF LedgerMarkSettlement
  <2> QED
    BY <2>1, <2>2
<1> QED
  BY <1>3, <1>4, <1>5

(* The reserve is liable for a receipt that is issued, unless a bond is, and for what *)
(* that receipt promises, whichever payment's reservation it is written over.         *)
LEMMA FinalizeCounts ==
  ASSUME LedgerAssumption, LedgerInv, LedgerInv', CountersInv,
         NEW rec, Faithful(rec), rec.state \in {"active", "pending_start"}, LedgerFinalize(rec)
  PROVE  CountersInv'
<1>1. rec.request \in Request /\ rec.liabilityAtomic \in Nat
  BY FaithfulShape, OwedIsNat
<1>2. CASE stored(rec) \in Unfinished
  <2> DEFINE active == IF rec.state = "active" THEN rec.liabilityAtomic ELSE 0
  <2>1. /\ records' = [records EXCEPT ![rec.request] = rec]
        /\ liability' = [liability EXCEPT !["pending"] = @ - rec.liabilityAtomic,
                                          !["active"] = @ + active]
    BY <1>2 DEF LedgerFinalize
  <2>2. records[rec.request].state \notin OfReceipts
    BY <1>2 DEF stored, Unfinished, OfReceipts
  <2>3. liability \in [Counter -> Int] /\ active \in Nat
    BY <1>1 DEF CountersInv
  <2>4. active = Debt(rec, "active") /\ Debt(rec, "payout_due") = 0
    BY DEF Debt
  <2> HIDE DEF active
  <2>5. /\ liability' \in [Counter -> Int]
        /\ liability'["active"] = liability["active"] + active
        /\ liability'["payout_due"] = liability["payout_due"]
        /\ liability["active"] \in Int /\ liability["payout_due"] \in Int
    BY <1>1, <2>1, <2>3 DEF Counter
  <2>6. \A s \in OfReceipts : Debt(records[rec.request], s) = 0
    BY <2>2 DEF Debt
  <2>7. \A s \in OfReceipts :
           liability'[s] = liability[s] - Debt(records[rec.request], s) + Debt(rec, s)
    BY <2>3, <2>4, <2>5, <2>6 DEF OfReceipts
  <2> QED
    BY <1>1, <2>1, <2>5, <2>7, CountersFollow
<1>3. CASE stored(rec) \notin Unfinished
  BY <1>3, CountersStill DEF LedgerFinalize, ledgerVars
<1> QED
  BY <1>2, <1>3

(* A snapshot of a receipt that stands owes what the receipt does: both name its payment. *)
LEMMA StandingDebt ==
  ASSUME LedgerInv, NEW rec, Faithful(rec), NEW s \in OfReceipts,
         records[rec.request].paymentId = rec.paymentId, records[rec.request].state = s
  PROVE  \A k \in OfReceipts :
            Debt(records[rec.request], k) = IF k = s THEN rec.liabilityAtomic ELSE 0
<1>1. rec.request \in Request
  BY FaithfulShape
<1>2. Faithful(records[rec.request])
  BY <1>1, RecordFound DEF LedgerInv, OfReceipts
<1> QED
  BY <1>2 DEF Debt, Faithful

(* A receipt that leaves the active state takes its liability along, or ends it. *)
LEMMA LeaveActiveCounts ==
  ASSUME LedgerAssumption, LedgerInv, LedgerInv', CountersInv,
         NEW rec, Faithful(rec), records[rec.request].paymentId = rec.paymentId,
         \/ rec.state = "payout_due" /\ LedgerMarkPayoutDue(rec)
         \/ rec.state = "released" /\ LedgerMarkReleased(rec)
  PROVE  CountersInv'
<1>1. rec.request \in Request /\ rec.liabilityAtomic \in Nat
  BY FaithfulShape, OwedIsNat
<1>2. CASE canLeaveActive(rec)
  <2> DEFINE due == IF rec.state = "payout_due" THEN rec.liabilityAtomic ELSE 0
             r == rec.request
  <2>1. liability \in [Counter -> Int] /\ due \in Nat
    BY <1>1 DEF CountersInv
  <2>2. /\ records' = [records EXCEPT ![r] = rec]
        /\ \/ /\ rec.state = "payout_due"
              /\ liability' = [liability EXCEPT !["active"] = @ - rec.liabilityAtomic,
                                                !["payout_due"] = @ + rec.liabilityAtomic]
           \/ /\ rec.state = "released"
              /\ liability' = [liability EXCEPT !["active"] = @ - rec.liabilityAtomic]
    BY <1>2 DEF LedgerMarkPayoutDue, LedgerMarkReleased
  <2>3. records[r].state = "active"
    BY <1>2 DEF canLeaveActive, stored
  <2>4. /\ liability' \in [Counter -> Int]
        /\ liability'["active"] = liability["active"] - rec.liabilityAtomic
        /\ liability'["payout_due"] = liability["payout_due"] + due
        /\ liability["active"] \in Int /\ liability["payout_due"] \in Int
    BY <1>1, <2>1, <2>2 DEF Counter
  <2>5. /\ Debt(records[r], "active") = rec.liabilityAtomic
        /\ Debt(records[r], "payout_due") = 0
    BY <2>3, StandingDebt DEF OfReceipts
  <2>6. Debt(rec, "active") = 0 /\ Debt(rec, "payout_due") = due
    BY <2>2 DEF Debt
  <2> HIDE DEF due, r
  <2>7. \A s \in OfReceipts : liability'[s] = liability[s] - Debt(records[r], s) + Debt(rec, s)
    BY <1>1, <2>1, <2>4, <2>5, <2>6 DEF OfReceipts
  <2> QED
    BY <1>1, <2>2, <2>4, <2>7, CountersFollow DEF r
<1>3. CASE ~canLeaveActive(rec)
  BY <1>3, CountersStill DEF LedgerMarkPayoutDue, LedgerMarkReleased, ledgerVars
<1> QED
  BY <1>2, <1>3

(* A receipt that was paid owes nothing more. *)
LEMMA MarkPaidCounts ==
  ASSUME LedgerAssumption, LedgerInv, LedgerInv', CountersInv,
         NEW rec, Faithful(rec), records[rec.request].paymentId = rec.paymentId,
         rec.state = "paid", LedgerMarkPaid(rec)
  PROVE  CountersInv'
<1>1. rec.request \in Request /\ rec.liabilityAtomic \in Nat
  BY FaithfulShape, OwedIsNat
<1>2. CASE payoutUnused(rec) /\ stored(rec) = "payout_due"
  <2> DEFINE r == rec.request
  <2>1. /\ records' = [records EXCEPT ![r] = rec]
        /\ liability' = [liability EXCEPT !["payout_due"] = @ - rec.liabilityAtomic]
    BY <1>2 DEF LedgerMarkPaid
  <2>2. records[r].state = "payout_due"
    BY <1>2 DEF stored
  <2>3. liability \in [Counter -> Int]
    BY DEF CountersInv
  <2>4. /\ liability' \in [Counter -> Int]
        /\ liability'["active"] = liability["active"]
        /\ liability'["payout_due"] = liability["payout_due"] - rec.liabilityAtomic
        /\ liability["active"] \in Int /\ liability["payout_due"] \in Int
    BY <1>1, <2>1, <2>3 DEF Counter
  <2>5. /\ Debt(records[r], "active") = 0
        /\ Debt(records[r], "payout_due") = rec.liabilityAtomic
    BY <2>2, StandingDebt DEF OfReceipts
  <2>6. Debt(rec, "active") = 0 /\ Debt(rec, "payout_due") = 0
    BY DEF Debt
  <2> HIDE DEF r
  <2>7. \A s \in OfReceipts : liability'[s] = liability[s] - Debt(records[r], s) + Debt(rec, s)
    BY <1>1, <2>4, <2>5, <2>6 DEF OfReceipts
  <2> QED
    BY <1>1, <2>1, <2>4, <2>7, CountersFollow DEF r
<1>3. CASE ~(payoutUnused(rec) /\ stored(rec) = "payout_due")
  BY <1>3, CountersStill DEF LedgerMarkPaid, ledgerVars
<1> QED
  BY <1>2, <1>3

(* However the ledger is written, its counters match its receipts. *)
LEMMA LedgerMovesCount ==
  ASSUME LedgerAssumption, ServiceAssumption, ServiceInv, LedgerInv', CountersInv, LedgerMoves
  PROVE  CountersInv'
<1>0. LedgerInv
  BY DEF ServiceInv
<1>1. ASSUME UNCHANGED ledgerVars
      PROVE  CountersInv'
  BY <1>1, CountersStill DEF ledgerVars
<1>2. ASSUME NEW c \in Call, CallWrites(c)
      PROVE  CountersInv'
  <2>1. CallKnows(calls[c])
    BY DEF ServiceInv
  <2>2. CASE calls[c].pc = "reserve"
             /\ LedgerReserve(pendingRecord(calls[c].payment), calls[c].balance)
    <3> DEFINE p == calls[c].payment
    <3>1. p \in Payment
      BY <2>1, <2>2 DEF CallKnows
    <3>2. /\ Faithful(pendingRecord(p)) /\ pendingRecord(p).request = RequestOf[p]
          /\ pendingRecord(p).state = "pending"
      BY <3>1, PendingFaithful
    <3>3. records[RequestOf[p]] = NoRecord
      BY <1>0, <2>2, <3>1, ReserveKeeps
    <3> QED
      BY <1>0, <2>2, <3>2, <3>3, ReservationCounts
  <2>3. CASE calls[c].pc \in {"release", "undo"} /\ LedgerRelease(calls[c].rec)
    <3>1. Faithful(calls[c].rec) /\ calls[c].rec.state = "pending"
      BY <2>1, <2>3 DEF CallKnows, Reserved, Replaying
    <3> QED
      BY <1>0, <2>3, <3>1, ReservationCounts
  <2>4. CASE calls[c].pc \in {"recover", "finalize"} /\ LedgerFinalize(finalRecord(calls[c].rec))
    <3>1. Faithful(calls[c].rec)
      BY <2>1, <2>4 DEF CallKnows, Reserved, Replaying
    <3>2. /\ Faithful(finalRecord(calls[c].rec))
          /\ finalRecord(calls[c].rec).state \in {"active", "pending_start"}
      BY <3>1, FinalFaithful
    <3> QED
      BY <1>0, <2>4, <3>2, FinalizeCounts
  <2>5. ASSUME calls[c].pc \in {"journal", "markUnknown"}, NEW s \in {"submitting", "unknown"},
               LedgerMarkSettlement([calls[c].rec EXCEPT !.settlement = s])
        PROVE  CountersInv'
    <3> DEFINE rec == calls[c].rec
    <3>1. Faithful(rec) /\ rec.state = "pending"
      BY <2>1, <2>5 DEF CallKnows, Reserved, Replaying
    <3>2. LedgerMarkSettlement([rec EXCEPT !.settlement = s])
      BY <2>5
    <3> HIDE DEF rec
    <3>3. /\ Faithful([rec EXCEPT !.settlement = s])
          /\ [rec EXCEPT !.settlement = s].state = "pending"
      BY <3>1, JournalFaithful
    <3> QED
      BY <1>0, <3>2, <3>3, ReservationCounts
  <2> QED
    BY <1>2, <2>2, <2>3, <2>4, <2>5 DEF CallWrites
<1>3. ASSUME NEW k \in Reconciler, ReconcilerWrites(k)
      PROVE  CountersInv'
  <2> DEFINE rec == reconcilers[k].rec
  <2>1. ReconcilerKnows(reconcilers[k]) /\ reconcilers[k].status # "unread"
    BY <1>3 DEF ServiceInv, ReconcilerWrites
  <2>2. Faithful(rec) /\ rec.state \in Issued /\ records[rec.request].paymentId = rec.paymentId
    BY <2>1 DEF ReconcilerKnows, Issued, Stands
  <2> HIDE DEF rec
  <2>3. ASSUME NEW s \in {"payout_due", "released"}
        PROVE  LET new == [rec EXCEPT !.state = s] IN
               /\ Faithful(new) /\ new.state = s
               /\ records[new.request].paymentId = new.paymentId
    BY <2>2, IssuedFaithful
  <2>4. CASE LedgerMarkPayoutDue([rec EXCEPT !.state = "payout_due"])
    BY <1>0, <2>3, <2>4, LeaveActiveCounts
  <2>5. CASE LedgerMarkReleased([rec EXCEPT !.state = "released"])
    BY <1>0, <2>3, <2>5, LeaveActiveCounts
  <2> QED
    BY <1>3, <2>4, <2>5 DEF ReconcilerWrites, rec
<1>4. ASSUME NEW k \in Recorder, RecorderWrites(k)
      PROVE  CountersInv'
  <2>1. RecorderKnows(recorders[k]) /\ recorders[k] # NoRecord
    BY <1>4 DEF ServiceInv, RecorderWrites
  <2> QED
    BY <1>0, <1>4, <2>1, MarkPaidCounts DEF RecorderWrites, RecorderKnows, Stands
<1> QED
  BY <1>1, <1>2, <1>3, <1>4 DEF LedgerMoves

(* The counters are empty when the ledger is. *)
LEMMA CountersInit ==
  ASSUME LedgerAssumption, ServiceInit
  PROVE  CountersInv
<1>1. \A s \in Counter : SumOver(Request, LiabilityIn(s)) = 0
  <2> TAKE s \in Counter
  <2>1. \A r \in Request : LiabilityIn(s)[r] = 0
    BY DEF LiabilityIn, ServiceInit, LedgerInit, NoRecord, Counter
  <2> QED
    BY <2>1, SumOverZero
<1>2. liability = [k \in Counter |-> 0]
  BY DEF ServiceInit, LedgerInit
<1> QED
  BY <1>1, <1>2 DEF CountersInv, IssuedLiabilityCounted, Counter

(* The counters and what they count. *)
LEMMA CountersInvariant == ServiceSpec => []CountersInv
<1>1. ServiceInit => CountersInv
  BY LedgerAssumption, CountersInit
<1>2. ServiceInv /\ CountersInv /\ [ServiceNext]_allServiceVars => CountersInv'
  BY LedgerAssumption, ServiceAssumption, ServiceStepKeeps, ServiceWrites, LedgerMovesCount
     DEF ServiceInv
<1> QED
  BY <1>1, <1>2, ServiceInvariant, PTL DEF ServiceSpec

(* The counters of active and of due receipts add up what those receipts promise, for *)
(* any payments of any jobs and with whatever caps, whatever stale snapshots the      *)
(* replays, reconcilers and recorders write.                                          *)
THEOREM ServiceIssuedCounted == ServiceSpec => []IssuedLiabilityCounted
<1>1. CountersInv => IssuedLiabilityCounted
  BY DEF CountersInv
<1> QED
  BY <1>1, CountersInvariant, PTL

(* Every variable keeps its type: no snapshot that a worker stores or holds is one that *)
(* the service could not have read.                                                     *)
THEOREM ServiceTypes == ServiceSpec => []ServiceTypeOK
<1>1. ServiceInv /\ CountersInv => ServiceTypeOK
  BY DEF ServiceInv, LedgerInv, LedgerTypes, InvocationTypes, WorldTypes, CountersInv,
     ServiceTypeOK, LedgerTypeOK, CallRecord, ReconcilerRecord
<1> QED
  BY <1>1, ServiceInvariant, CountersInvariant, PTL
-------------------------------------------------------------------------------
(* Bonded cover *)

Labelled(rec) == rec \in LedgerRecord /\ rec.request = RequestOf[rec.paymentId]

\* A job's record is of one of its payments.
RecordsLabelled ==
    /\ records \in [Request -> LedgerRecord \cup {NoRecord}]
    /\ \A r \in Request : records[r] = NoRecord \/ (Labelled(records[r]) /\ records[r].request = r)

\* Whether p's job was timely cannot change any more, unless it becomes late.
Judged(p) ==
    RequestOf[p] \in overdue /\ (RequestOf[p] \in Relayed => relayed[p] # "none")

\* A record that says a payout is due is of a job that was judged.
Due(rec) == rec.state = "payout_due" => Judged(rec.paymentId)

RecordsDue == \A r \in Request : Due(records[r])

\* The awaits of the paid endpoint at which it has a record.
WithRecord == Reserved \cup Replaying \cup {"attach", "compensate"}

\* What an invocation of the paid endpoint knows of its job and its covenant.
CallNotes(call) ==
    /\ call.pc # "idle" => call.payment \in Payment
    /\ call.pc \in WithRecord =>
          /\ Labelled(call.rec) /\ call.rec.request = RequestOf[call.payment]
          /\ call.rec.state \in Unfinished
    /\ call.pc \in {"release", "undo"} => RequestOf[call.payment] \notin Bonded
    /\ call.pc \in {"attach", "journal", "settle"} /\ RequestOf[call.payment] \in Bonded =>
          cover[call.payment] # "None"

ReconcilerNotes(run) ==
    IF run.rec = NoRecord THEN run.status = "unread" ELSE Labelled(run.rec)

RunNotes(run) ==
    /\ run.pc = "idle" => run = NoRun
    /\ run.pc # "idle" => Labelled(run.rec) /\ Due(run.rec)
    /\ run.pc = "sync" /\ run.seen = "PayoutDue" => Judged(run.rec.paymentId)
    /\ run.pc = "write" =>
          run.to # "none" /\ (run.to = "payout_due" => Judged(run.rec.paymentId))

\* What p's covenant tells of its payment and its job.
CoverTells(p) ==
    /\ p \in submitted /\ RequestOf[p] \in Bonded => cover[p] # "None"
    /\ cover[p] = "CancelledUnpaid" => p \in expired \ settled
    /\ cover[p] = "Active" /\ RequestOf[p] \in Relayed => relayed[p] # "none"
    /\ cover[p] = "PayoutDue" => Judged(p)

BondTypes ==
    /\ InvocationTypes
    /\ submitted \subseteq Payment /\ ExpiredTogether
    /\ jobStatus \in [Request -> JobStatus] /\ overdue \subseteq Request /\ reserve \in Nat
    /\ UniversalTypeOK

BondInv ==
    /\ BondTypes
    /\ RecordsLabelled /\ RecordsDue
    /\ \A c \in Call : CallNotes(calls[c])
    /\ \A k \in Reconciler : ReconcilerNotes(reconcilers[k])
    /\ \A k \in Recorder : recorders[k] = NoRecord
    /\ \A u \in Run : RunNotes(runs[u])
    /\ \A p \in Payment : CoverTells(p)

\* A run that is to pay has not seen a timely job, and there is none.
RunJudges(run) ==
    run.pc = "decide" /\ run.rec.state = "payout_due" /\ run.observed.kind # "timely" =>
        ~timely(run.rec.paymentId)

TimelyInv ==
    /\ \A u \in Run : RunJudges(runs[u])
    /\ \A p \in Payment :
          cover[p] \in {"Paid", "RecoveredWithoutPayout"} => Judged(p) /\ ~timely(p)

-------------------------------------------------------------------------------
(* Records of bonded cover *)

(* The fields of a labelled record. *)
LEMMA LabelledShape ==
  ASSUME NEW rec, Labelled(rec)
  PROVE  /\ rec.request \in Request /\ rec.paymentId \in Payment
         /\ rec.request = RequestOf[rec.paymentId]
         /\ rec.state \in Unfinished \cup Issued /\ rec.state # "missing"
         /\ rec # NoRecord /\ rec \in Snapshot
BY DEF Labelled, LedgerRecord, Unfinished, Issued, NoRecord, Snapshot

(* A record whose state is rewritten names the same job and payment. *)
LEMMA StateLabelled ==
  ASSUME NEW rec, Labelled(rec), NEW s \in Unfinished \cup Issued
  PROVE  /\ Labelled([rec EXCEPT !.state = s])
         /\ [rec EXCEPT !.state = s].request = rec.request
         /\ [rec EXCEPT !.state = s].paymentId = rec.paymentId
         /\ [rec EXCEPT !.state = s].state = s
BY DEF Labelled, LedgerRecord

(* So does one whose settlement is. *)
LEMMA SettlementLabelled ==
  ASSUME NEW rec, Labelled(rec), NEW s \in {"submitting", "unknown"}
  PROVE  /\ Labelled([rec EXCEPT !.settlement = s])
         /\ [rec EXCEPT !.settlement = s].request = rec.request
         /\ [rec EXCEPT !.settlement = s].state = rec.state
BY DEF Labelled, LedgerRecord

(* So does a receipt, and no payout of it is due. *)
LEMMA FinalLabelled ==
  ASSUME NEW rec, Labelled(rec)
  PROVE  Labelled(finalRecord(rec)) /\ Due(finalRecord(rec))
<1>1. Labelled(finalRecord(rec)) /\ finalRecord(rec).state \in {"pending_start", "active"}
  BY DEF Labelled, LedgerRecord, finalRecord, Issued
<1> QED
  BY <1>1 DEF Due

(* A reservation names the job of its payment. *)
LEMMA PendingLabelled ==
  ASSUME ServiceAssumption, NEW p \in Payment
  PROVE  Labelled(pendingRecord(p)) /\ pendingRecord(p).request = RequestOf[p]
BY PendingFaithful DEF Faithful, Labelled

(* What is found under a job's key. *)
LEMMA LabelledFound ==
  ASSUME RecordsLabelled, NEW r \in Request
  PROVE  \/ records[r] = NoRecord /\ records[r].state = "missing"
         \/ Labelled(records[r]) /\ records[r].request = r /\ records[r].state # "missing"
BY LabelledShape DEF RecordsLabelled, NoRecord

-------------------------------------------------------------------------------
(* What the steps write to the records *)

Written(rec) == Labelled(rec) /\ Due(rec) /\ records' = [records EXCEPT ![rec.request] = rec]
Deleted(rec) == Labelled(rec) /\ records' = [records EXCEPT ![rec.request] = NoRecord]

RecordsMove ==
    \/ UNCHANGED records
    \/ \E rec : Written(rec) \/ Deleted(rec)

(* However the records are written, they stay labelled. *)
LEMMA RecordsStayLabelled ==
  ASSUME RecordsLabelled, RecordsMove
  PROVE  RecordsLabelled'
<1>1. ASSUME NEW rec, Labelled(rec), NEW new \in {rec, NoRecord},
             records' = [records EXCEPT ![rec.request] = new]
      PROVE  RecordsLabelled'
  <2>1. rec.request \in Request /\ rec \in LedgerRecord
    BY <1>1, LabelledShape DEF Labelled
  <2>2. /\ records'[rec.request] = new
        /\ \A x \in Request \ {rec.request} : records'[x] = records[x]
        /\ records' \in [Request -> LedgerRecord \cup {NoRecord}]
    BY <1>1, <2>1 DEF RecordsLabelled
  <2> QED
    BY <1>1, <2>2 DEF RecordsLabelled
<1>2. ASSUME UNCHANGED records
      PROVE  RecordsLabelled'
  BY <1>2 DEF RecordsLabelled
<1>3. ASSUME NEW rec, Written(rec) \/ Deleted(rec)
      PROVE  RecordsLabelled'
  BY <1>1, <1>3 DEF Written, Deleted
<1> QED
  BY <1>2, <1>3 DEF RecordsMove

JudgementsStand == \A p \in Payment : Judged(p) => Judged(p)'

(* While what was judged stays so, the records that say a payout is due say it of *)
(* judged jobs.                                                                    *)
LEMMA RecordsStayDue ==
  ASSUME RecordsLabelled, RecordsDue, RecordsMove, JudgementsStand
  PROVE  RecordsDue'
<1>1. ASSUME NEW r \in Request, records'[r] = records[r]
      PROVE  Due(records[r])'
  <2>1. records[r].state = "payout_due" => records[r].paymentId \in Payment
    BY LabelledFound, LabelledShape
  <2> QED
    BY <1>1, <2>1 DEF RecordsDue, Due, JudgementsStand
<1>2. CASE UNCHANGED records
  BY <1>1, <1>2 DEF RecordsDue
<1>3. ASSUME NEW rec, Written(rec)
      PROVE  RecordsDue'
  <2>1. rec.request \in Request /\ rec.paymentId \in Payment
    BY <1>3, LabelledShape DEF Written
  <2>2. /\ records'[rec.request] = rec
        /\ \A r \in Request \ {rec.request} : records'[r] = records[r]
    BY <1>3, <2>1 DEF Written, RecordsLabelled
  <2>3. Due(records[rec.request])'
    BY <1>3, <2>1, <2>2 DEF Written, Due, JudgementsStand
  <2> QED
    BY <1>1, <2>2, <2>3 DEF RecordsDue
<1>4. ASSUME NEW rec, Deleted(rec)
      PROVE  RecordsDue'
  <2>1. rec.request \in Request
    BY <1>4, LabelledShape DEF Deleted
  <2>2. /\ records'[rec.request] = NoRecord
        /\ \A r \in Request \ {rec.request} : records'[r] = records[r]
    BY <1>4, <2>1 DEF Deleted, RecordsLabelled
  <2>3. Due(records[rec.request])'
    BY <2>2 DEF Due, NoRecord
  <2> QED
    BY <1>1, <2>2, <2>3 DEF RecordsDue
<1> QED
  BY <1>2, <1>3, <1>4 DEF RecordsMove

(* The service's own steps write labelled records, or delete what they release.     *)
LEMMA ServiceRecords ==
  ASSUME ServiceAssumption, BondInv, [ServiceNext]_allServiceVars
  PROVE  RecordsMove
<1> USE DEF RecordsMove
<1>0. LedgerMoves /\ RecordsLabelled
  BY ServiceWrites DEF BondInv
<1>1. UNCHANGED ledgerVars => UNCHANGED records
  BY DEF ledgerVars
<1>2. ASSUME NEW c \in Call, CallWrites(c)
      PROVE  RecordsMove
  <2> DEFINE rec == calls[c].rec
  <2>1. CallNotes(calls[c])
    BY DEF BondInv
  <2>2. calls[c].pc \in Reserved \cup Replaying => Labelled(rec) /\ rec.state \in Unfinished
    BY <2>1 DEF CallNotes, WithRecord
  <2>3. CASE calls[c].pc = "reserve"
             /\ LedgerReserve(pendingRecord(calls[c].payment), calls[c].balance)
    <3>1. calls[c].payment \in Payment
      BY <2>1, <2>3 DEF CallNotes
    <3>2. Written(pendingRecord(calls[c].payment))
      BY <2>3, <3>1, PendingLabelled DEF LedgerReserve, Written, Due, pendingRecord
    <3> QED
      BY <3>2
  <2>4. CASE calls[c].pc \in {"release", "undo"} /\ LedgerRelease(rec)
    <3>1. Labelled(rec)
      BY <2>2, <2>4 DEF Reserved, Replaying
    <3>2. UNCHANGED records \/ Deleted(rec)
      BY <2>4, <3>1 DEF LedgerRelease, Deleted, ledgerVars
    <3> QED
      BY <3>2
  <2>5. CASE calls[c].pc \in {"recover", "finalize"} /\ LedgerFinalize(finalRecord(rec))
    <3>1. Labelled(finalRecord(rec)) /\ Due(finalRecord(rec))
      BY <2>2, <2>5, FinalLabelled DEF Reserved, Replaying
    <3>2. UNCHANGED records \/ Written(finalRecord(rec))
      BY <2>5, <3>1 DEF LedgerFinalize, Written, ledgerVars
    <3> QED
      BY <3>2
  <2>6. ASSUME calls[c].pc \in {"journal", "markUnknown"}, NEW s \in {"submitting", "unknown"},
               LedgerMarkSettlement([rec EXCEPT !.settlement = s])
        PROVE  RecordsMove
    <3>1. Labelled(rec) /\ rec.state \in Unfinished
      BY <2>2, <2>6 DEF Reserved, Replaying
    <3> HIDE DEF rec
    <3> DEFINE new == [rec EXCEPT !.settlement = s]
    <3>2. Labelled(new) /\ Due(new)
      BY <3>1, SettlementLabelled DEF Due, Unfinished
    <3>3. LedgerMarkSettlement(new)
      BY <2>6
    <3> HIDE DEF new
    <3>4. UNCHANGED records \/ Written(new)
      BY <3>2, <3>3 DEF LedgerMarkSettlement, Written
    <3> QED
      BY <3>4
  <2> QED
    BY <1>2, <2>3, <2>4, <2>5, <2>6 DEF CallWrites
<1>3. ASSUME NEW k \in Reconciler, ReconcilerWrites(k)
      PROVE  RecordsMove
  <2> DEFINE rec == reconcilers[k].rec
  <2>1. Labelled(rec)
    BY <1>3 DEF BondInv, ReconcilerNotes, ReconcilerWrites
  <2> HIDE DEF rec
  <2>2. PICK s \in {"payout_due", "released"} :
           /\ \/ LedgerMarkPayoutDue([rec EXCEPT !.state = s])
              \/ LedgerMarkReleased([rec EXCEPT !.state = s])
           /\ s = "payout_due" => rec.request \in overdue \ Relayed
    BY <1>3 DEF ReconcilerWrites, rec
  <2> DEFINE new == [rec EXCEPT !.state = s]
  <2>a. Labelled(new) /\ new.paymentId = rec.paymentId /\ new.state = s
    BY <2>1, StateLabelled DEF Issued
  <2>3. Labelled(new) /\ Due(new)
    BY <2>1, <2>2, <2>a, LabelledShape DEF Due, Judged
  <2>4. LedgerMarkPayoutDue(new) \/ LedgerMarkReleased(new)
    BY <2>2
  <2> HIDE DEF new
  <2>5. UNCHANGED records \/ Written(new)
    BY <2>3, <2>4 DEF LedgerMarkPayoutDue, LedgerMarkReleased, ledgerVars, Written
  <2> QED
    BY <2>5
<1>4. ASSUME NEW k \in Recorder
      PROVE  ~RecorderWrites(k)
  BY DEF BondInv, RecorderWrites
<1> QED
  BY <1>0, <1>1, <1>2, <1>3, <1>4 DEF LedgerMoves

(* A transition writes the record it is given. *)
LEMMA TransitionWrites ==
  ASSUME NEW rec, Labelled(rec), Due(rec), NEW from, LedgerTransition(rec, from)
  PROVE  RecordsMove
<1>1. UNCHANGED records \/ Written(rec)
  BY DEF LedgerTransition, Written
<1> QED
  BY <1>1 DEF RecordsMove

-------------------------------------------------------------------------------
(* What the steps do to the covenants *)

CoverCalls == {"startClock", "expireUnstarted", "release", "markPayoutDue",
               "settleNetLoss", "cancelUnpaid"}

\* A run settles what it judged; a clock is started for a job that was relayed.
Justified(p, call) ==
    /\ call = "startClock" => relayed[p] # "none"
    /\ call = "settleNetLoss" =>
          \E u \in Run : runAt(u, "decide") /\ settleable(u) /\ paymentOf(u) = p

Called(p, call) ==
    Accepts(p, call) /\ Justified(p, call) /\ cover' = [cover EXCEPT ![p] = CoverAfter(p, call)]

CoverMoves ==
    \/ UNCHANGED cover
    \/ \E p \in Payment : Issuable(p) /\ cover' = issuedCover(p)
    \/ \E p \in Payment, call \in CoverCalls : Called(p, call)

(* A run that calls the manager moves its own covenant or none. *)
LEMMA CoverCallMoves ==
  ASSUME NEW u \in Run, NEW call \in CoverCalls, NEW to, CoverCall(u, call, to),
         paymentOf(u) \in Payment, Justified(paymentOf(u), call)
  PROVE  CoverMoves
<1>1. cover' = cover \/ Called(paymentOf(u), call)
  BY DEF CoverCall, Called
<1> QED
  BY <1>1 DEF CoverMoves

(* A run's step, as far as the covenants can tell. *)
LEMMA RunCoverMoves ==
  ASSUME BondInv, NEW u \in Run, RunNext(u)
  PROVE  CoverMoves
<1> USE DEF CoverMoves
<1>1. ~runAt(u, "idle") => paymentOf(u) \in Payment
  BY LabelledShape DEF BondInv, RunNotes, runAt, paymentOf
<1>2. ASSUME NEW r \in Request, ListCover(u, r)
      PROVE  UNCHANGED cover
  BY <1>2 DEF ListCover, runOnly, chainVars
<1>3. CASE ReadCover(u) \/ DropReservation(u) \/ HoldCompensation(u) \/ SyncOnchain(u)
           \/ AwaitClock(u) \/ ObserveJob(u) \/ WriteRecord(u)
  BY <1>3 DEF ReadCover, DropReservation, HoldCompensation, SyncOnchain, AwaitClock,
     ObserveJob, WriteRecord, runOnly, chainVars
<1>4. CASE CancelCover(u)
  BY <1>1, <1>4, CoverCallMoves DEF CancelCover, runAt, Justified, CoverCalls
<1>5. CASE ExpireUnstarted(u)
  BY <1>1, <1>5, CoverCallMoves DEF ExpireUnstarted, runAt, Justified, CoverCalls
<1>6. CASE StartClock(u)
  BY <1>1, <1>6, CoverCallMoves DEF StartClock, runAt, Justified, CoverCalls
<1>7. CASE ReleaseStarted(u)
  BY <1>1, <1>7, CoverCallMoves DEF ReleaseStarted, runAt, Justified, CoverCalls
<1>8. CASE DecideCover(u)
  <2>1. runAt(u, "decide") /\ paymentOf(u) \in Payment
    BY <1>1, <1>8 DEF DecideCover, runAt
  <2>2. CASE CoverCall(u, "release", "released")
    BY <2>1, <2>2, CoverCallMoves DEF Justified, CoverCalls
  <2>3. CASE CoverCall(u, "markPayoutDue", "payout_due")
    BY <2>1, <2>3, CoverCallMoves DEF Justified, CoverCalls
  <2>4. ASSUME settleable(u), NEW to, CoverCall(u, "settleNetLoss", to)
        PROVE  CoverMoves
    <3>1. Justified(paymentOf(u), "settleNetLoss")
      BY <2>1, <2>4 DEF Justified
    <3> QED
      BY <2>1, <2>4, <3>1, CoverCallMoves DEF CoverCalls
  <2>5. CASE runOnly
    BY <2>5 DEF runOnly, chainVars
  <2> QED
    BY <1>8, <2>2, <2>3, <2>4, <2>5 DEF DecideCover
<1> QED
  BY <1>2, <1>3, <1>4, <1>5, <1>6, <1>7, <1>8 DEF RunNext, RunStepNext

\* Steps of the service beside which no covenant, fact or run moves.
ServiceAlone ==
    /\ \/ \E c \in Call, p \in Payment : Lookup(c, p)
       \/ \E c \in Call : CallStepNext(c) \/ Crash(c)
       \/ \E p \in Payment : Mine(p)
       \/ ReconcilerNext
    /\ UNCHANGED <<chainVars, factVars, runs>>

Issuing == \E c \in Call : IssueCover(c)
Attaching == \E c \in Call : AttachCover(c) \/ LeaveToCompensation(c)
Running == \E u \in Run : RunNext(u)

\* Steps of the outside world, which write no record and are none of an invocation's.
Outside ==
    \/ \E p \in Payment :
          \/ LateIssue(p) \/ AuthorizationCloses(p) \/ RecoveryCloses(p)
          \/ ChallengeCloses(p) \/ ExpiredByAnyone(p) \/ \E o \in {"timely", "late"} : RelayJob(p, o)
    \/ \E r \in Request : (\E s \in JobStatus : TaskMoves(r, s)) \/ SlaElapses(r)

(* Every step is of one of these kinds. *)
LEMMA StepKinds ==
  ASSUME UniversalNext
  PROVE  ServiceAlone \/ Issuing \/ Attaching \/ Running \/ Outside
BY DEF UniversalNext, BuyersNext, CallNext, SharedReconcilerNext, TimeNext, ServiceAlone,
   Issuing, Attaching, Running, Outside

(* The service's own steps are steps of ServiceNext. *)
LEMMA AloneIsService ==
  ASSUME ServiceAlone
  PROVE  ServiceNext
BY DEF ServiceAlone, ServiceNext, BuyerNext

(* The outside world leaves records, invocations and runs as they are. *)
LEMMA OutsideOnly ==
  ASSUME Outside
  PROVE  UNCHANGED <<ledgerVars, calls, reconcilers, recorders, runs, submitted, settled, reserve>>
<1>1. ASSUME NEW p \in Payment, LateIssue(p) \/ RecoveryCloses(p) \/ ChallengeCloses(p)
                \/ ExpiredByAnyone(p) \/ \E o \in {"timely", "late"} : RelayJob(p, o)
      PROVE  UNCHANGED <<ledgerVars, calls, reconcilers, recorders, runs, submitted, settled, reserve>>
  BY <1>1 DEF LateIssue, RecoveryCloses, ChallengeCloses, ExpiredByAnyone, RelayJob,
     universalOnly, allServiceVars, serviceVars, worldVars
<1>2. ASSUME NEW p \in Payment, AuthorizationCloses(p)
      PROVE  UNCHANGED <<ledgerVars, calls, reconcilers, recorders, runs, submitted, settled, reserve>>
  BY <1>2 DEF AuthorizationCloses, ExpireAuthorization, universalOnly
<1>3. ASSUME NEW r \in Request, (\E s \in JobStatus : TaskMoves(r, s)) \/ SlaElapses(r)
      PROVE  UNCHANGED <<ledgerVars, calls, reconcilers, recorders, runs, submitted, settled, reserve>>
  BY <1>3 DEF TaskMoves, SlaElapses, JobMoves, DeadlinePasses, universalOnly
<1> QED
  BY <1>1, <1>2, <1>3 DEF Outside

(* Every step moves covenants in one of these ways. *)
LEMMA StepCoverMoves ==
  ASSUME BondInv, UniversalNext
  PROVE  CoverMoves
<1>1. CASE ServiceAlone \/ Attaching
  BY <1>1 DEF ServiceAlone, Attaching, AttachCover, LeaveToCompensation, chainVars, CoverMoves
<1>2. CASE Issuing
  <2>1. PICK c \in Call : IssueCover(c)
    BY <1>2 DEF Issuing
  <2>2. calls[c].payment \in Payment
    BY <2>1 DEF IssueCover, at, BondInv, CallNotes
  <2>3. UNCHANGED cover
        \/ (Issuable(calls[c].payment) /\ cover' = issuedCover(calls[c].payment))
    BY <2>1 DEF IssueCover, chainVars
  <2> QED
    BY <2>2, <2>3 DEF CoverMoves
<1>3. CASE Running
  BY <1>3, RunCoverMoves DEF Running
<1>4. ASSUME NEW p \in Payment, LateIssue(p) \/ ExpiredByAnyone(p)
      PROVE  CoverMoves
  <2>1. CASE LateIssue(p)
    BY <2>1 DEF LateIssue, CoverMoves
  <2>2. CASE ExpiredByAnyone(p)
    BY <2>2 DEF ExpiredByAnyone, CoverMoves, Called, Justified, CoverCalls
  <2> QED
    BY <1>4, <2>1, <2>2
<1>5. ASSUME NEW p \in Payment, AuthorizationCloses(p) \/ RecoveryCloses(p) \/ ChallengeCloses(p)
                \/ \E o \in {"timely", "late"} : RelayJob(p, o)
      PROVE  CoverMoves
  BY <1>5 DEF AuthorizationCloses, RecoveryCloses, ChallengeCloses, RelayJob, universalOnly,
     chainVars, CoverMoves
<1>6. ASSUME NEW r \in Request, (\E s \in JobStatus : TaskMoves(r, s)) \/ SlaElapses(r)
      PROVE  CoverMoves
  BY <1>6 DEF TaskMoves, SlaElapses, universalOnly, chainVars, CoverMoves
<1> QED
  BY <1>1, <1>2, <1>3, <1>4, <1>5, <1>6, StepKinds DEF Outside

(* A covenant is never undone, and one that has ended, or that its authorization is *)
(* too old for, stays what it is.                                                   *)
LEMMA CoverLasts ==
  ASSUME BondTypes, CoverMoves
  PROVE  /\ cover' \in [Payment -> {"None"} \cup DOMAIN LedgerState]
         /\ \A p \in Payment :
              /\ cover[p] # "None" => cover'[p] # "None"
              /\ cover[p] = "None" /\ p \in expired => cover'[p] = "None"
              /\ cover[p] \notin {"None"} \cup Standing => cover'[p] = cover[p]
<1>0. cover \in [Payment -> {"None"} \cup DOMAIN LedgerState]
  BY DEF BondTypes, UniversalTypeOK
<1>1. CASE UNCHANGED cover
  BY <1>0, <1>1
<1>2. ASSUME NEW q \in Payment, Issuable(q), cover' = issuedCover(q)
      PROVE  /\ cover' \in [Payment -> {"None"} \cup DOMAIN LedgerState]
             /\ cover[q] = "None" /\ q \notin expired /\ cover'[q] # "None"
             /\ \A p \in Payment \ {q} : cover'[p] = cover[p]
  BY <1>0, <1>2 DEF Issuable, issuedCover, LedgerState
<1>3. ASSUME NEW q \in Payment, NEW call \in CoverCalls, Called(q, call)
      PROVE  /\ cover' \in [Payment -> {"None"} \cup DOMAIN LedgerState]
             /\ cover[q] \in Standing /\ cover'[q] # "None"
             /\ \A p \in Payment \ {q} : cover'[p] = cover[p]
  <2>1. cover[q] \in Standing
    BY <1>3 DEF Called, Accepts, Cancellable, CoverCalls, Standing
  <2>2. CoverAfter(q, call) \in DOMAIN LedgerState \ {"None"}
    BY DEF CoverAfter, LedgerState, CoverCalls
  <2> QED
    BY <1>0, <1>3, <2>1, <2>2 DEF Called
<1> QED
  BY <1>1, <1>2, <1>3 DEF CoverMoves, Standing
-------------------------------------------------------------------------------
(* How a run of the reconciler moves *)

RunRecord == [pc : RunStep, rec : Snapshot, early : BOOLEAN,
              seen : {"None"} \cup DOMAIN LedgerState,
              observed : Observation, to : {"none"} \cup Issued]

OtherRunsStay(u) ==
    runs' \in [Run -> RunRecord] /\ \A v \in Run \ {u} : runs'[v] = runs[v]

\* The run goes to pc with the record it has.
GoesOn(u, pc) == runs'[u].pc = pc /\ runs'[u].rec = runs[u].rec

\* It takes up another record.
Takes(rec) == Labelled(rec) /\ Due(rec)

RunMoves(u) ==
    \/ runs'[u] = NoRun
    \/ runAt(u, "idle") /\ runs'[u].pc = "chain" /\ Takes(runs'[u].rec)
    \/ /\ runAt(u, "chain") /\ (GoesOn(u, "compensate") \/ GoesOn(u, "sync"))
       /\ runs'[u].seen = cover[paymentOf(u)]
    \/ /\ ~runAt(u, "idle") /\ GoesOn(u, "drop") /\ cover'[paymentOf(u)] = "CancelledUnpaid"
    \/ /\ ~runAt(u, "idle") /\ GoesOn(u, "write")
       /\ runs'[u].to # "none"
       /\ runs'[u].to = "payout_due" => Judged(paymentOf(u))
    \/ runAt(u, "sync") /\ runs'[u].pc \in {"clock", "job"} /\ Takes(runs'[u].rec)
    \/ /\ runAt(u, "job") /\ GoesOn(u, "decide")
       /\ runs'[u].observed = observation(paymentOf(u))
    \/ runAt(u, "write") /\ runs'[u].pc = "release" /\ Takes(runs'[u].rec)

(* A run that is over. *)
LEMMA RunEnds ==
  ASSUME BondTypes, NEW u \in Run, done(u)
  PROVE  OtherRunsStay(u) /\ runs'[u] = NoRun
<1>1. runs \in [Run -> RunRecord] /\ runs' = [runs EXCEPT ![u] = NoRun]
  BY DEF BondTypes, UniversalTypeOK, RunRecord, done
<1>2. NoRun \in RunRecord
  BY DEF NoRun, RunRecord, RunStep, Snapshot, Unobserved, Observation
<1> QED
  BY <1>1, <1>2 DEF OtherRunsStay

(* A run that goes on. *)
LEMMA RunBecomes ==
  ASSUME BondTypes, NEW u \in Run, NEW new \in RunRecord, runs' = [runs EXCEPT ![u] = new]
  PROVE  OtherRunsStay(u) /\ runs'[u] = new
BY DEF BondTypes, UniversalTypeOK, RunRecord, OtherRunsStay

(* A run that has called the manager. *)
LEMMA CoverCallRuns ==
  ASSUME BondInv, NEW u \in Run, NEW call \in CoverCalls, NEW to \in {"none"} \cup Issued,
         call = "cancelUnpaid" \/ to # "none", call = "markPayoutDue" \/ to # "payout_due",
         ~runAt(u, "idle"), CoverCall(u, call, to)
  PROVE  OtherRunsStay(u) /\ RunMoves(u)
<1> DEFINE pc == IF call = "cancelUnpaid" THEN "drop" ELSE "write"
<1>0. BondTypes /\ runs \in [Run -> RunRecord] /\ paymentOf(u) \in Payment
      /\ cover \in [Payment -> {"None"} \cup DOMAIN LedgerState]
  BY LabelledShape DEF BondInv, BondTypes, UniversalTypeOK, RunRecord, RunNotes, runAt, paymentOf
<1>1. CASE done(u)
  BY <1>0, <1>1, RunEnds DEF RunMoves
<1>2. CASE runs' = [runs EXCEPT ![u].pc = pc, ![u].to = to]
           /\ cover' = [cover EXCEPT ![paymentOf(u)] = CoverAfter(paymentOf(u), call)]
           /\ Accepts(paymentOf(u), call)
  <2> DEFINE new == [runs[u] EXCEPT !.pc = pc, !.to = to]
  <2>1. new \in RunRecord /\ new.pc = pc /\ new.to = to /\ new.rec = runs[u].rec
        /\ new.seen = runs[u].seen /\ new.observed = runs[u].observed
    BY <1>0 DEF RunRecord, RunStep
  <2>2. runs' = [runs EXCEPT ![u] = new]
    BY <1>0, <1>2
  <2> HIDE DEF new
  <2>3. OtherRunsStay(u) /\ runs'[u] = new
    BY <1>0, <2>1, <2>2, RunBecomes
  <2>4. call = "cancelUnpaid" => cover'[paymentOf(u)] = "CancelledUnpaid"
    BY <1>0, <1>2 DEF CoverAfter
  <2>5. to = "payout_due" => Judged(paymentOf(u))
    <3>1. call = "markPayoutDue" =>
            cover[paymentOf(u)] = "Active" /\ RequestOf[paymentOf(u)] \in overdue
      BY <1>2 DEF Accepts
    <3> QED
      BY <1>0, <3>1 DEF BondInv, CoverTells, Judged
  <2> QED
    BY <2>1, <2>3, <2>4, <2>5 DEF RunMoves, GoesOn
<1> QED
  BY <1>1, <1>2 DEF CoverCall

(* What the reading of the ledger and of the chain makes of a run. *)
LEMMA ReadingRuns ==
  ASSUME BondInv, NEW u \in Run,
         (\E r \in Request : ListCover(u, r)) \/ ReadCover(u) \/ ObserveJob(u)
  PROVE  OtherRunsStay(u) /\ RunMoves(u)
<1>0. /\ BondTypes /\ runs \in [Run -> RunRecord] /\ RecordsLabelled /\ RecordsDue /\ RunNotes(runs[u])
      /\ cover \in [Payment -> {"None"} \cup DOMAIN LedgerState]
  BY DEF BondInv, BondTypes, UniversalTypeOK, RunRecord
<1>1. ASSUME NEW r \in Request, ListCover(u, r)
      PROVE  OtherRunsStay(u) /\ RunMoves(u)
  <2> DEFINE early == records[r].paymentId \notin expired
             new == [runs[u] EXCEPT !.pc = "chain", !.rec = records[r], !.early = early]
  <2>1. Labelled(records[r]) /\ records[r] \in Snapshot /\ runAt(u, "idle")
    BY <1>0, <1>1, LabelledFound, LabelledShape DEF ListCover
  <2>2. runs' = [runs EXCEPT ![u] = new]
    BY <1>0, <1>1 DEF ListCover
  <2>3. early \in BOOLEAN
    OBVIOUS
  <2> HIDE DEF early
  <2>4. new \in RunRecord /\ new.pc = "chain" /\ new.rec = records[r] /\ new.seen = runs[u].seen
    BY <1>0, <2>1, <2>3 DEF RunRecord, RunStep
  <2> HIDE DEF new
  <2>5. OtherRunsStay(u) /\ runs'[u] = new
    BY <1>0, <2>2, <2>4, RunBecomes
  <2> QED
    BY <1>0, <2>1, <2>4, <2>5 DEF RunMoves, Takes, RecordsDue
<1>2. CASE ReadCover(u)
  <2> DEFINE pc == IF requiresCompensation(runs[u].rec) THEN "compensate" ELSE "sync"
             seen == cover[paymentOf(u)]
             new == [runs[u] EXCEPT !.seen = seen, !.pc = pc]
  <2>1. runAt(u, "chain") /\ seen \in {"None"} \cup DOMAIN LedgerState
    BY <1>0, <1>2, LabelledShape DEF ReadCover, runAt, RunNotes, paymentOf
  <2>2. runs' = [runs EXCEPT ![u] = new]
    BY <1>0, <1>2 DEF ReadCover
  <2>3. pc \in {"compensate", "sync"}
    OBVIOUS
  <2> HIDE DEF pc, seen
  <2>4. new \in RunRecord /\ new.pc = pc /\ new.rec = runs[u].rec /\ new.seen = seen
    BY <1>0, <2>1, <2>3 DEF RunRecord, RunStep
  <2> HIDE DEF new
  <2>5. OtherRunsStay(u) /\ runs'[u] = new
    BY <1>0, <2>2, <2>4, RunBecomes
  <2> QED
    BY <2>1, <2>3, <2>4, <2>5 DEF RunMoves, GoesOn, seen
<1>3. CASE ObserveJob(u)
  <2> DEFINE seen == observation(paymentOf(u))
             new == [runs[u] EXCEPT !.pc = "decide", !.observed = seen]
  <2>1. runAt(u, "job") /\ seen \in Observation
    BY <1>3 DEF ObserveJob, observation, Observation
  <2>2. runs' = [runs EXCEPT ![u] = new]
    BY <1>0, <1>3 DEF ObserveJob
  <2> HIDE DEF seen
  <2>3. new \in RunRecord /\ new.pc = "decide" /\ new.rec = runs[u].rec
        /\ new.seen = runs[u].seen /\ new.observed = seen
    BY <1>0, <2>1 DEF RunRecord, RunStep
  <2> HIDE DEF new
  <2>4. OtherRunsStay(u) /\ runs'[u] = new
    BY <1>0, <2>2, <2>3, RunBecomes
  <2> QED
    BY <2>1, <2>3, <2>4 DEF RunMoves, GoesOn, seen
<1> QED
  BY <1>1, <1>2, <1>3
(* The record takes the covenant's state, and the run goes on with what is stored. *)
LEMMA SyncingRuns ==
  ASSUME BondInv, NEW u \in Run, SyncOnchain(u)
  PROVE  OtherRunsStay(u) /\ RunMoves(u) /\ RecordsMove
<1> DEFINE rec == runs[u].rec
           synced == [rec EXCEPT !.state = onchainState(u)]
           kept == IF synced = rec \/ stored(rec) = rec.state THEN synced
                   ELSE records[rec.request]
           pc == IF kept.state = "pending_start" THEN "clock" ELSE "job"
           new == [runs[u] EXCEPT !.rec = kept, !.pc = pc]
<1>0. /\ BondTypes /\ runs \in [Run -> RunRecord] /\ RecordsLabelled /\ RecordsDue
      /\ runAt(u, "sync") /\ Labelled(rec)
      /\ runs[u].seen = "PayoutDue" => Judged(rec.paymentId)
  BY DEF BondInv, BondTypes, UniversalTypeOK, RunRecord, SyncOnchain, RunNotes, runAt
<1>1. CASE runs[u].seen = "None"
  <2>1. UNCHANGED records /\ done(u)
    BY <1>1 DEF SyncOnchain, ledgerVars
  <2> QED
    BY <1>0, <2>1, RunEnds DEF RunMoves, RecordsMove
<1>2. CASE runs[u].seen # "None"
  <2>1. onchainState(u) \in Issued
    BY <1>0, <1>2 DEF onchainState, LedgerState, RunRecord, Issued
  <2>2. /\ Labelled(synced) /\ synced.request = rec.request
        /\ synced.paymentId = rec.paymentId /\ synced.state = onchainState(u)
    BY <1>0, <2>1, StateLabelled
  <2>a. onchainState(u) = "payout_due" => runs[u].seen = "PayoutDue"
    BY <1>0, <1>2 DEF onchainState, LedgerState, RunRecord
  <2>b. Due(synced)
    BY <1>0, <2>2, <2>a DEF Due
  <2>3. RecordsMove
    <3>1. UNCHANGED ledgerVars \/ LedgerTransition(synced, {rec.state})
      BY <1>2 DEF SyncOnchain
    <3> HIDE DEF synced
    <3> QED
      BY <2>2, <2>b, <3>1, TransitionWrites DEF RecordsMove, ledgerVars
  <2>4. done(u) \/ (kept.state \in Outstanding /\ runs' = [runs EXCEPT ![u].rec = kept, ![u].pc = pc])
    BY <1>2 DEF SyncOnchain
  <2>5. ASSUME kept.state \in Outstanding, runs' = [runs EXCEPT ![u].rec = kept, ![u].pc = pc]
        PROVE  OtherRunsStay(u) /\ RunMoves(u)
    <3>1. kept.state # "missing"
      BY <2>5 DEF Outstanding
    <3>2. rec.request \in Request
      BY <1>0, LabelledShape
    <3>3. Labelled(kept) /\ Due(kept)
      BY <1>0, <2>2, <2>b, <3>1, <3>2, LabelledFound DEF RecordsDue
    <3>4. kept \in Snapshot
      BY <3>3, LabelledShape
    <3>5. runs' = [runs EXCEPT ![u] = new]
      BY <1>0, <2>5
    <3>6. pc \in {"clock", "job"}
      OBVIOUS
    <3> HIDE DEF kept, pc
    <3>7. new \in RunRecord /\ new.pc = pc /\ new.rec = kept /\ new.seen = runs[u].seen
      BY <1>0, <3>4, <3>6 DEF RunRecord, RunStep
    <3> HIDE DEF new
    <3>8. OtherRunsStay(u) /\ runs'[u] = new
      BY <1>0, <3>5, <3>7, RunBecomes
    <3> QED
      BY <1>0, <3>3, <3>6, <3>7, <3>8 DEF RunMoves, Takes
  <2>6. ASSUME done(u)
        PROVE  OtherRunsStay(u) /\ RunMoves(u)
    BY <1>0, <2>6, RunEnds DEF RunMoves
  <2> QED
    BY <2>3, <2>4, <2>5, <2>6
<1> QED
  BY <1>1, <1>2

(* What the chain has done is written. *)
LEMMA WritingRuns ==
  ASSUME BondInv, NEW u \in Run, WriteRecord(u)
  PROVE  OtherRunsStay(u) /\ RunMoves(u) /\ RecordsMove
<1> DEFINE rec == runs[u].rec
           written == [rec EXCEPT !.state = runs[u].to]
           new == [runs[u] EXCEPT !.rec = written, !.pc = "release"]
<1>0. /\ BondTypes /\ runs \in [Run -> RunRecord] /\ runAt(u, "write") /\ Labelled(rec)
      /\ runs[u].to \in Issued /\ (runs[u].to = "payout_due" => Judged(rec.paymentId))
  BY DEF BondInv, BondTypes, UniversalTypeOK, RunRecord, WriteRecord, RunNotes, runAt
<1>a. /\ Labelled(written) /\ written.paymentId = rec.paymentId
      /\ written.state = runs[u].to
  BY <1>0, StateLabelled
<1>1. Labelled(written) /\ Due(written)
  BY <1>0, <1>a DEF Due
<1>2. written \in Snapshot
  BY <1>1, LabelledShape
<1>3. LedgerTransition(written, {rec.state})
  BY DEF WriteRecord
<1>4. done(u) \/ runs' = [runs EXCEPT ![u].rec = written, ![u].pc = "release"]
  BY DEF WriteRecord
<1>5. ASSUME runs' = [runs EXCEPT ![u].rec = written, ![u].pc = "release"]
      PROVE  OtherRunsStay(u) /\ RunMoves(u)
  <2>1. runs' = [runs EXCEPT ![u] = new]
    BY <1>0, <1>5
  <2> HIDE DEF written
  <2>2. new \in RunRecord /\ new.pc = "release" /\ new.rec = written /\ new.seen = runs[u].seen
    BY <1>0, <1>2 DEF RunRecord, RunStep
  <2> HIDE DEF new
  <2>3. OtherRunsStay(u) /\ runs'[u] = new
    BY <1>0, <2>1, <2>2, RunBecomes
  <2> QED
    BY <1>0, <1>1, <2>2, <2>3 DEF RunMoves, Takes
<1>6. ASSUME done(u)
      PROVE  OtherRunsStay(u) /\ RunMoves(u)
  BY <1>0, <1>6, RunEnds DEF RunMoves
<1> HIDE DEF written
<1>7. RecordsMove
  BY <1>1, <1>3, TransitionWrites
<1> QED
  BY <1>4, <1>5, <1>6, <1>7

(* A run's step moves that run in one of these ways, and the records accordingly. *)
LEMMA RunStepMoves ==
  ASSUME BondInv, NEW u \in Run, RunNext(u)
  PROVE  OtherRunsStay(u) /\ RunMoves(u) /\ RecordsMove
<1>0. BondTypes
  BY DEF BondInv
<1>1. CASE (\E r \in Request : ListCover(u, r)) \/ ReadCover(u) \/ ObserveJob(u)
  <2>1. UNCHANGED records
    BY <1>1 DEF ListCover, ReadCover, ObserveJob, runOnly, allServiceVars, ledgerVars
  <2> QED
    BY <1>1, <2>1, ReadingRuns DEF RecordsMove
<1>2. CASE HoldCompensation(u) \/ AwaitClock(u)
  <2>1. UNCHANGED records /\ done(u)
    BY <1>2 DEF HoldCompensation, AwaitClock, runOnly, allServiceVars, ledgerVars
  <2> QED
    BY <1>0, <2>1, RunEnds DEF RunMoves, RecordsMove
<1>3. CASE DropReservation(u)
  <2>1. done(u) /\ runs[u].pc # "idle" /\ LedgerRelease(runs[u].rec)
    BY <1>3 DEF DropReservation, runAt
  <2>2. Labelled(runs[u].rec)
    BY <2>1 DEF BondInv, RunNotes
  <2>3. UNCHANGED records \/ Deleted(runs[u].rec)
    BY <2>1, <2>2 DEF LedgerRelease, Deleted, ledgerVars
  <2> QED
    BY <1>0, <2>1, <2>3, RunEnds DEF RunMoves, RecordsMove
<1>4. CASE SyncOnchain(u)
  BY <1>4, SyncingRuns
<1>5. CASE WriteRecord(u)
  BY <1>5, WritingRuns
<1>6. ASSUME NEW call \in CoverCalls, NEW to \in {"none"} \cup Issued,
             call = "cancelUnpaid" \/ to # "none", call = "markPayoutDue" \/ to # "payout_due",
             ~runAt(u, "idle"), CoverCall(u, call, to)
      PROVE  OtherRunsStay(u) /\ RunMoves(u) /\ RecordsMove
  <2>1. UNCHANGED records
    BY <1>6 DEF CoverCall, ledgerVars
  <2> QED
    BY <1>6, <2>1, CoverCallRuns DEF RecordsMove
<1>7. CASE CancelCover(u)
  BY <1>6, <1>7 DEF CancelCover, runAt, CoverCalls
<1>8. CASE ExpireUnstarted(u) \/ StartClock(u) \/ ReleaseStarted(u)
  <2>1. ~runAt(u, "idle")
        /\ \/ CoverCall(u, "expireUnstarted", "released") \/ CoverCall(u, "startClock", "active")
           \/ CoverCall(u, "release", "released")
    BY <1>8 DEF ExpireUnstarted, StartClock, ReleaseStarted, runAt
  <2> QED
    BY <1>6, <2>1 DEF CoverCalls, Issued
<1>9. CASE DecideCover(u)
  <2> DEFINE ended == LedgerState[CoverAfter(paymentOf(u), "settleNetLoss")]
  <2>1. ended \in Issued /\ ended # "payout_due"
    BY DEF LedgerState, CoverAfter, Issued
  <2>2. ~runAt(u, "idle")
        /\ \/ CoverCall(u, "release", "released") \/ CoverCall(u, "markPayoutDue", "payout_due")
           \/ CoverCall(u, "settleNetLoss", ended)
           \/ done(u) /\ UNCHANGED records
    BY <1>9 DEF DecideCover, runAt, runOnly, allServiceVars, ledgerVars
  <2> HIDE DEF ended
  <2>3. done(u) /\ UNCHANGED records => OtherRunsStay(u) /\ RunMoves(u) /\ RecordsMove
    BY <1>0, RunEnds DEF RunMoves, RecordsMove
  <2>4. ended # "none" /\ "released" \in Issued /\ "payout_due" \in Issued
    BY <2>1 DEF Issued
  <2> QED
    BY <1>6, <2>1, <2>2, <2>3, <2>4 DEF CoverCalls
<1> QED
  BY <1>1, <1>2, <1>3, <1>4, <1>5, <1>7, <1>8, <1>9 DEF RunNext, RunStepNext

(* The notes of the runs. *)
LEMMA RunNotesKeep ==
  ASSUME BondInv, JudgementsStand, NEW u \in Run, OtherRunsStay(u), RunMoves(u)
  PROVE  runs' \in [Run -> RunRecord] /\ \A v \in Run : RunNotes(runs[v])'
<1>1. \A v \in Run : RunNotes(runs[v]) /\ (runs[v].pc # "idle" => runs[v].rec.paymentId \in Payment)
  BY LabelledShape DEF BondInv, RunNotes
<1>2. RunNotes(runs[u])'
  <2>1. CASE runs'[u] = NoRun
    BY <2>1 DEF RunNotes, NoRun
  <2>2. ASSUME NEW rec, Takes(rec)
        PROVE  Labelled(rec) /\ Due(rec)'
    BY <2>2, LabelledShape DEF Takes, Due, JudgementsStand
  <2>3. ASSUME ~runAt(u, "idle"), runs'[u].rec = runs[u].rec
        PROVE  /\ Labelled(runs[u].rec) /\ Labelled(runs'[u].rec) /\ Due(runs[u].rec)'
               /\ runs[u].rec.paymentId \in Payment
    BY <1>1, <2>3 DEF RunNotes, runAt, Due, JudgementsStand
  <2>4. CASE runs'[u].pc \in {"chain", "clock", "job", "release"} /\ Takes(runs'[u].rec)
    BY <2>2, <2>4 DEF RunNotes
  <2>5. CASE /\ runAt(u, "chain") /\ (GoesOn(u, "compensate") \/ GoesOn(u, "sync"))
             /\ runs'[u].seen = cover[paymentOf(u)]
    <3>1. /\ Labelled(runs'[u].rec) /\ Due(runs[u].rec)'
          /\ runs'[u].rec.paymentId = paymentOf(u) /\ paymentOf(u) \in Payment
      BY <2>3, <2>5 DEF GoesOn, runAt, paymentOf
    <3>2. \A p \in Payment : cover[p] = "PayoutDue" => Judged(p)'
      BY DEF BondInv, CoverTells, JudgementsStand
    <3> QED
      BY <2>5, <3>1, <3>2 DEF RunNotes, GoesOn
  <2>6. CASE ~runAt(u, "idle") /\ (GoesOn(u, "drop") \/ GoesOn(u, "decide"))
    BY <2>3, <2>6 DEF GoesOn, RunNotes
  <2>7. CASE /\ ~runAt(u, "idle") /\ GoesOn(u, "write") /\ runs'[u].to # "none"
             /\ runs'[u].to = "payout_due" => Judged(paymentOf(u))
    <3>1. /\ Labelled(runs'[u].rec) /\ Due(runs[u].rec)'
          /\ runs'[u].rec.paymentId = paymentOf(u) /\ paymentOf(u) \in Payment
      BY <2>3, <2>7 DEF GoesOn, paymentOf
    <3> QED
      BY <2>7, <3>1 DEF RunNotes, GoesOn, JudgementsStand
  <2> QED
    BY <2>1, <2>4, <2>5, <2>6, <2>7 DEF RunMoves, runAt
<1>3. ASSUME NEW v \in Run \ {u}
      PROVE  RunNotes(runs[v])'
  <2>1. runs'[v] = runs[v]
    BY DEF OtherRunsStay
  <2> QED
    BY <1>1, <2>1 DEF RunNotes, Due, JudgementsStand
<1> QED
  BY <1>2, <1>3 DEF OtherRunsStay
-------------------------------------------------------------------------------
(* How the invocations move beside the covenants *)

(* The notes of the invocations that stay where they are. *)
LEMMA OthersNote ==
  ASSUME BondInv, CoverMoves, NEW c \in Call, OthersStay(c), CallNotes(calls[c])'
  PROVE  calls' \in [Call -> CallRecord] /\ \A d \in Call : CallNotes(calls[d])'
<1>1. ASSUME NEW d \in Call \ {c}
      PROVE  CallNotes(calls[d])'
  <2>1. CallNotes(calls[d]) /\ calls'[d] = calls[d]
    BY DEF BondInv, OthersStay
  <2>2. \A p \in Payment : cover[p] # "None" => cover'[p] # "None"
    BY CoverLasts DEF BondInv
  <2>3. calls[d].pc # "idle" => calls[d].payment \in Payment
    BY <2>1 DEF CallNotes
  <2> QED
    BY <2>1, <2>2, <2>3 DEF CallNotes, WithRecord
<1> QED
  BY <1>1 DEF OthersStay

(* An invocation's own steps, but for those with the covenant. *)
LEMMA CallStepNotes ==
  ASSUME ServiceAssumption, BondInv, NEW c \in Call, CallStepNext(c), UNCHANGED cover
  PROVE  OthersStay(c) /\ CallNotes(calls[c])'
<1> DEFINE rec == calls[c].rec
           p == calls[c].payment
<1>0. /\ InvocationTypes /\ RecordsLabelled /\ reserve \in Nat /\ CallNotes(calls[c])
      /\ calls \in [Call -> CallRecord]
  BY DEF BondInv, BondTypes, InvocationTypes
<1>1. ASSUME reply(c)
      PROVE  OthersStay(c) /\ CallNotes(calls[c])'
  BY <1>0, <1>1, CallReplies DEF CallNotes, WithRecord, Reserved, Replaying
<1>2. ASSUME NEW pc \in {"verify", "order", "balance", "reserve"}, goto(c, pc), p \in Payment
      PROVE  OthersStay(c) /\ CallNotes(calls[c])'
  <2>1. Becomes(c, pc, rec)
    BY <1>0, <1>2, CallGoes DEF CallStep
  <2> QED
    BY <1>2, <2>1 DEF Becomes, CallNotes, WithRecord, Reserved, Replaying
<1>3. ASSUME NEW pc \in {"recover", "release", "compensate", "undo", "outcome", "markUnknown", "finalize"},
             goto(c, pc), calls[c].pc \in WithRecord,
             pc \in {"release", "undo"} => RequestOf[p] \notin Bonded
      PROVE  OthersStay(c) /\ CallNotes(calls[c])'
  <2>1. Becomes(c, pc, rec)
    BY <1>0, <1>3, CallGoes DEF CallStep
  <2>2. /\ p \in Payment /\ Labelled(rec) /\ rec.request = RequestOf[p]
        /\ rec.state \in Unfinished
    BY <1>0, <1>3 DEF CallNotes, WithRecord, Reserved, Replaying
  <2> QED
    BY <1>3, <2>1, <2>2 DEF Becomes, CallNotes
<1>4. ASSUME NEW pc \in {"reconcile", "issue", "journal", "settle"}, NEW new,
             gotoWith(c, pc, new), Labelled(new), new.request = RequestOf[p], p \in Payment,
             new.state \in Unfinished,
             pc \in {"journal", "settle"} /\ RequestOf[p] \in Bonded => cover[p] # "None"
      PROVE  OthersStay(c) /\ CallNotes(calls[c])'
  <2>1. new \in Snapshot
    BY <1>4, LabelledShape
  <2>2. Becomes(c, pc, new)
    BY <1>0, <1>4, <2>1, CallGoesWith DEF CallStep
  <2> QED
    BY <1>4, <2>2 DEF Becomes, CallNotes
<1>5. CASE ReadRecord(c)
  <2> DEFINE found == records[RequestOf[p]]
  <2>1. p \in Payment /\ RequestOf[p] \in Request
    BY <1>0, <1>5 DEF ReadRecord, at, CallNotes, ServiceAssumption
  <2>2. \/ reply(c) \/ goto(c, "verify")
        \/ found.state \in Unfinished /\ gotoWith(c, "reconcile", found)
    BY <1>5 DEF ReadRecord
  <2>3. found.state \in Unfinished => Labelled(found) /\ found.request = RequestOf[p]
    BY <1>0, <2>1, LabelledFound DEF Unfinished
  <2> HIDE DEF found
  <2> QED
    BY <1>1, <1>2, <1>4, <2>1, <2>2, <2>3
<1>6. CASE ReconcileSettled(c) \/ ReconcileNotFound(c) \/ Submit(c) \/ Outcome(c)
  <2>1. calls[c].pc \in {"reconcile", "settle", "outcome"}
    BY <1>6 DEF ReconcileSettled, ReconcileNotFound, Submit, Outcome, at
  <2>2. \/ goto(c, "recover") \/ goto(c, "compensate") \/ goto(c, "outcome")
        \/ goto(c, "finalize") \/ goto(c, "markUnknown")
        \/ goto(c, "release") /\ RequestOf[p] \notin Bonded
    BY <1>6 DEF ReconcileSettled, ReconcileNotFound, Submit, Outcome, bonded
  <2> QED
    BY <1>3, <2>1, <2>2 DEF WithRecord, Reserved, Replaying
<1>7. CASE ReconcilePending(c) \/ ReleaseUnsettled(c) \/ Recover(c) \/ Undo(c)
           \/ MarkUnknown(c) \/ Finalize(c)
  BY <1>1, <1>7 DEF ReconcilePending, ReleaseUnsettled, Recover, Undo, MarkUnknown, Finalize
<1>8. CASE Verify(c) \/ VerifyOrder(c)
  <2>1. p \in Payment
    BY <1>0, <1>8 DEF Verify, VerifyOrder, at, CallNotes
  <2>2. reply(c) \/ goto(c, "order") \/ goto(c, "balance") \/ goto(c, "reserve")
    BY <1>8 DEF Verify, VerifyOrder
  <2> QED
    BY <1>1, <1>2, <2>1, <2>2
<1>9. CASE ReadBalance(c)
  <2> DEFINE new == [calls[c] EXCEPT !.pc = "order", !.balance = reserve]
  <2>1. p \in Payment
    BY <1>0, <1>9 DEF ReadBalance, at, CallNotes
  <2>2. calls' = [calls EXCEPT ![c] = new]
    BY <1>0, <1>9 DEF ReadBalance
  <2>3. new \in CallRecord /\ new.pc = "order" /\ new.payment = p
    BY <1>0 DEF CallRecord, CallStep
  <2> HIDE DEF new
  <2>4. OthersStay(c) /\ calls'[c] = new
    BY <1>0, <2>2, <2>3 DEF OthersStay
  <2> QED
    BY <2>1, <2>3, <2>4 DEF CallNotes, WithRecord, Reserved, Replaying
<1>10. CASE Reserve(c)
  <2>1. p \in Payment
    BY <1>0, <1>10 DEF Reserve, at, CallNotes
  <2>2. /\ Labelled(pendingRecord(p)) /\ pendingRecord(p).request = RequestOf[p]
        /\ pendingRecord(p).state \in Unfinished
    BY <2>1, PendingLabelled DEF pendingRecord, Unfinished
  <2>3. \/ reply(c)
        \/ gotoWith(c, "issue", pendingRecord(p))
        \/ gotoWith(c, "journal", pendingRecord(p)) /\ RequestOf[p] \notin Bonded
    BY <1>10 DEF Reserve, bonded
  <2> QED
    BY <1>1, <1>4, <2>1, <2>2, <2>3
<1>11. CASE Journal(c)
  <2>1. calls[c].pc = "journal"
    BY <1>11 DEF Journal, at
  <2>2. /\ p \in Payment /\ Labelled(rec) /\ rec.request = RequestOf[p]
        /\ rec.state \in Unfinished
        /\ RequestOf[p] \in Bonded => cover[p] # "None"
    BY <1>0, <2>1 DEF CallNotes, WithRecord, Reserved
  <2>3. \/ gotoWith(c, "settle", submitting(rec)) \/ goto(c, "compensate")
        \/ goto(c, "undo") /\ RequestOf[p] \notin Bonded
    BY <1>11 DEF Journal, bonded
  <2>4. /\ Labelled(submitting(rec)) /\ submitting(rec).request = RequestOf[p]
        /\ submitting(rec).state \in Unfinished
    BY <2>2, SettlementLabelled DEF submitting
  <2> QED
    BY <1>3, <1>4, <2>1, <2>2, <2>3, <2>4 DEF WithRecord, Reserved
<1> QED
  BY <1>5, <1>6, <1>7, <1>8, <1>9, <1>10, <1>11 DEF CallStepNext

(* The steps with the covenant. *)
LEMMA CoveringNotes ==
  ASSUME BondInv, NEW c \in Call, IssueCover(c) \/ AttachCover(c) \/ LeaveToCompensation(c),
         CoverMoves
  PROVE  OthersStay(c) /\ CallNotes(calls[c])'
<1> DEFINE rec == calls[c].rec
           p == calls[c].payment
<1>0. InvocationTypes /\ CallNotes(calls[c]) /\ BondTypes
  BY DEF BondInv, BondTypes
<1>1. calls[c].pc \in {"issue", "attach", "compensate"}
  BY DEF IssueCover, AttachCover, LeaveToCompensation, at
<1>2. /\ p \in Payment /\ Labelled(rec) /\ rec.request = RequestOf[p]
      /\ rec.state \in Unfinished
  BY <1>0, <1>1 DEF CallNotes, WithRecord, Reserved
<1>3. CASE reply(c)
  BY <1>0, <1>3, CallReplies DEF CallNotes, WithRecord, Reserved, Replaying
<1>4. ASSUME NEW pc \in {"attach", "compensate", "journal"}, goto(c, pc),
             pc \in {"attach", "journal"} /\ RequestOf[p] \in Bonded => cover'[p] # "None"
      PROVE  OthersStay(c) /\ CallNotes(calls[c])'
  <2>1. Becomes(c, pc, rec)
    BY <1>0, <1>4, CallGoes DEF CallStep
  <2> QED
    BY <1>2, <1>4, <2>1 DEF Becomes, CallNotes
<1>5. CASE IssueCover(c)
  <2>1. goto(c, "compensate") \/ (goto(c, "attach") /\ cover' = issuedCover(p))
    BY <1>5 DEF IssueCover
  <2>2. cover' = issuedCover(p) => cover'[p] # "None"
    BY <1>0, <1>2 DEF issuedCover, BondTypes, UniversalTypeOK
  <2> QED
    BY <1>4, <2>1, <2>2
<1>6. CASE AttachCover(c)
  <2>1. calls[c].pc = "attach" /\ (goto(c, "compensate") \/ goto(c, "journal"))
    BY <1>6 DEF AttachCover, at
  <2>2. RequestOf[p] \in Bonded => cover'[p] # "None"
    BY <1>0, <1>2, <2>1, CoverLasts DEF CallNotes
  <2> QED
    BY <1>4, <2>1, <2>2
<1>7. LeaveToCompensation(c) => reply(c)
  BY DEF LeaveToCompensation
<1> QED
  BY <1>3, <1>5, <1>6, <1>7

(* The steps with the covenant write labelled records. *)
LEMMA CoveringRecords ==
  ASSUME BondInv, NEW c \in Call, IssueCover(c) \/ AttachCover(c) \/ LeaveToCompensation(c)
  PROVE  RecordsMove
<1> DEFINE rec == calls[c].rec
           left == [rec EXCEPT !.state = "compensation_required"]
<1>1. calls[c].pc \in {"issue", "attach", "compensate"}
  BY DEF IssueCover, AttachCover, LeaveToCompensation, at
<1>2. Labelled(rec) /\ Due(rec)
  BY <1>1 DEF BondInv, CallNotes, WithRecord, Reserved, Unfinished, Due
<1>3. Labelled(left) /\ Due(left)
  BY <1>2, StateLabelled DEF Unfinished, Due
<1>4. \/ UNCHANGED ledgerVars \/ LedgerTransition(rec, {"pending"})
      \/ LedgerTransition(left, {"pending"})
  BY DEF IssueCover, AttachCover, LeaveToCompensation
<1> HIDE DEF rec, left
<1> QED
  BY <1>2, <1>3, <1>4, TransitionWrites DEF RecordsMove, ledgerVars
(* Every step writes labelled records, or deletes one. *)
LEMMA StepRecords ==
  ASSUME ServiceAssumption, BondInv, UniversalNext
  PROVE  RecordsMove
<1>1. CASE ServiceAlone
  BY <1>1, AloneIsService, ServiceRecords
<1>2. CASE Issuing \/ Attaching
  BY <1>2, CoveringRecords DEF Issuing, Attaching
<1>3. CASE Running
  BY <1>3, RunStepMoves DEF Running
<1>4. CASE Outside
  BY <1>4, OutsideOnly DEF ledgerVars, RecordsMove
<1> QED
  BY <1>1, <1>2, <1>3, <1>4, StepKinds

(* A run's step is none of an invocation's, and moves no payment, job or fact. *)
LEMMA RunningOnly ==
  ASSUME Running
  PROVE  UNCHANGED <<calls, reconcilers, recorders, worldVars, sent, factVars>>
<1> PICK u \in Run : RunNext(u)
  BY DEF Running
<1>1. ASSUME NEW r \in Request, ListCover(u, r)
      PROVE  UNCHANGED <<calls, reconcilers, recorders, worldVars, sent, factVars>>
  BY <1>1 DEF ListCover, runOnly, allServiceVars, serviceVars, chainVars
<1>2. CASE ReadCover(u) \/ HoldCompensation(u) \/ AwaitClock(u) \/ ObserveJob(u)
  BY <1>2 DEF ReadCover, HoldCompensation, AwaitClock, ObserveJob, runOnly, allServiceVars,
     serviceVars, chainVars
<1>3. CASE DropReservation(u) \/ SyncOnchain(u) \/ WriteRecord(u)
  BY <1>3 DEF DropReservation, SyncOnchain, WriteRecord, serviceVars, chainVars
<1>4. CASE CancelCover(u) \/ ExpireUnstarted(u) \/ StartClock(u) \/ ReleaseStarted(u)
  BY <1>4 DEF CancelCover, ExpireUnstarted, StartClock, ReleaseStarted, CoverCall
<1>5. CASE DecideCover(u)
  BY <1>5 DEF DecideCover, CoverCall, runOnly, allServiceVars, serviceVars, chainVars
<1> QED
  BY <1>1, <1>2, <1>3, <1>4, <1>5 DEF RunNext, RunStepNext

(* Every invocation knows after a step what it has to. *)
LEMMA CallsNote ==
  ASSUME ServiceAssumption, BondInv, UniversalNext, CoverMoves
  PROVE  calls' \in [Call -> CallRecord] /\ \A c \in Call : CallNotes(calls[c])'
<1>0. InvocationTypes /\ calls \in [Call -> CallRecord]
  BY DEF BondInv, BondTypes, InvocationTypes
<1>1. CASE UNCHANGED calls
  <2>1. \A p \in Payment : cover[p] # "None" => cover'[p] # "None"
    BY CoverLasts DEF BondInv
  <2>2. ASSUME NEW c \in Call
        PROVE  CallNotes(calls[c])'
    <3>1. CallNotes(calls[c])
      BY DEF BondInv
    <3>2. calls[c].pc # "idle" => calls[c].payment \in Payment
      BY <3>1 DEF CallNotes
    <3> QED
      BY <1>1, <2>1, <3>1, <3>2 DEF CallNotes, WithRecord
  <2> QED
    BY <1>0, <1>1, <2>2
<1>2. ASSUME NEW c \in Call, OthersStay(c) /\ CallNotes(calls[c])'
      PROVE  calls' \in [Call -> CallRecord] /\ \A d \in Call : CallNotes(calls[d])'
  BY <1>2, OthersNote
<1>3. ASSUME NEW c \in Call, NEW p \in Payment, Lookup(c, p)
      PROVE  OthersStay(c) /\ CallNotes(calls[c])'
  <2> DEFINE pc == IF payments[p] = NoRequest THEN "verify" ELSE "found"
             new == [calls[c] EXCEPT !.payment = p, !.pc = pc]
  <2>1. calls' = [calls EXCEPT ![c] = new]
    BY <1>0, <1>3 DEF Lookup
  <2>2. pc \in {"verify", "found"}
    OBVIOUS
  <2> HIDE DEF pc
  <2>3. new \in CallRecord /\ new.pc = pc /\ new.payment = p
    BY <1>0, <2>2 DEF CallRecord, CallStep
  <2> HIDE DEF new
  <2>4. OthersStay(c) /\ calls'[c] = new
    BY <1>0, <2>1, <2>3 DEF OthersStay
  <2> QED
    BY <2>2, <2>3, <2>4 DEF CallNotes, WithRecord, Reserved, Replaying
<1>4. ASSUME NEW c \in Call, Crash(c)
      PROVE  OthersStay(c) /\ CallNotes(calls[c])'
  <2>1. reply(c)
    BY <1>4 DEF Crash
  <2> QED
    BY <1>0, <2>1, CallReplies DEF CallNotes, WithRecord, Reserved, Replaying
<1>5. CASE ServiceAlone
  <2>1. UNCHANGED cover
    BY <1>5 DEF ServiceAlone, chainVars
  <2>2. ASSUME NEW c \in Call, CallStepNext(c)
        PROVE  OthersStay(c) /\ CallNotes(calls[c])'
    BY <2>1, <2>2, CallStepNotes
  <2>3. (\E p \in Payment : Mine(p)) \/ ReconcilerNext => UNCHANGED calls
    BY DEF Mine, ReconcilerNext, ListRecord, ReadJobStatus, Decide
  <2> QED
    BY <1>1, <1>2, <1>3, <1>4, <1>5, <2>2, <2>3 DEF ServiceAlone
<1>6. CASE Issuing \/ Attaching
  BY <1>2, <1>6, CoveringNotes DEF Issuing, Attaching
<1>7. CASE Running \/ Outside
  BY <1>1, <1>7, RunningOnly, OutsideOnly
<1> QED
  BY <1>5, <1>6, <1>7, StepKinds

(* The shared reserve's reconcilers know after a step what they have to. *)
LEMMA ReconcilersNote ==
  ASSUME BondInv, UniversalNext
  PROVE  /\ reconcilers' \in [Reconciler -> ReconcilerRecord]
         /\ \A k \in Reconciler : ReconcilerNotes(reconcilers[k])'
         /\ UNCHANGED recorders
<1>0. /\ reconcilers \in [Reconciler -> ReconcilerRecord] /\ RecordsLabelled
      /\ jobStatus \in [Request -> JobStatus]
      /\ \A k \in Reconciler : ReconcilerNotes(reconcilers[k])
  BY DEF BondInv, BondTypes, InvocationTypes
<1>1. ASSUME UNCHANGED <<reconcilers, recorders>>
      PROVE  /\ reconcilers' \in [Reconciler -> ReconcilerRecord]
             /\ \A k \in Reconciler : ReconcilerNotes(reconcilers[k])'
             /\ UNCHANGED recorders
  BY <1>0, <1>1 DEF ReconcilerNotes
<1>2. ASSUME NEW k \in Reconciler, NEW new \in ReconcilerRecord,
             reconcilers' = [reconcilers EXCEPT ![k] = new], UNCHANGED recorders,
             IF new.rec = NoRecord THEN new.status = "unread" ELSE Labelled(new.rec)
      PROVE  /\ reconcilers' \in [Reconciler -> ReconcilerRecord]
             /\ \A j \in Reconciler : ReconcilerNotes(reconcilers[j])'
             /\ UNCHANGED recorders
  <2>1. reconcilers'[k] = new /\ \A j \in Reconciler \ {k} : reconcilers'[j] = reconcilers[j]
    BY <1>0, <1>2
  <2>2. ReconcilerNotes(reconcilers[k])'
    BY <1>2, <2>1 DEF ReconcilerNotes
  <2>3. \A j \in Reconciler \ {k} : ReconcilerNotes(reconcilers[j])'
    BY <1>0, <2>1 DEF ReconcilerNotes
  <2> QED
    BY <1>0, <1>2, <2>2, <2>3
<1>3. ASSUME NEW k \in Reconciler, NEW r \in Request, ListRecord(k, r)
      PROVE  /\ reconcilers' \in [Reconciler -> ReconcilerRecord]
             /\ \A j \in Reconciler : ReconcilerNotes(reconcilers[j])'
             /\ UNCHANGED recorders
  <2> DEFINE new == [reconcilers[k] EXCEPT !.rec = records[r]]
  <2>1. Labelled(records[r]) /\ records[r] \in Snapshot /\ records[r] # NoRecord
    BY <1>0, <1>3, LabelledFound, LabelledShape DEF ListRecord
  <2>2. reconcilers' = [reconcilers EXCEPT ![k] = new] /\ UNCHANGED recorders
    BY <1>0, <1>3 DEF ListRecord
  <2>3. new \in ReconcilerRecord /\ new.rec = records[r]
    BY <1>0, <2>1 DEF ReconcilerRecord
  <2> HIDE DEF new
  <2> QED
    BY <1>2, <2>1, <2>2, <2>3
<1>4. ASSUME NEW k \in Reconciler, ReadJobStatus(k)
      PROVE  /\ reconcilers' \in [Reconciler -> ReconcilerRecord]
             /\ \A j \in Reconciler : ReconcilerNotes(reconcilers[j])'
             /\ UNCHANGED recorders
  <2> DEFINE rec == reconcilers[k].rec
             st == jobStatus[rec.request]
             new == [reconcilers[k] EXCEPT !.status = st]
  <2>1. Labelled(rec) /\ rec # NoRecord
    BY <1>0, <1>4 DEF ReadJobStatus, ReconcilerNotes
  <2>2. st \in JobStatus
    BY <1>0, <2>1, LabelledShape
  <2>3. reconcilers' = [reconcilers EXCEPT ![k] = new] /\ UNCHANGED recorders
    BY <1>0, <1>4 DEF ReadJobStatus
  <2> HIDE DEF st
  <2>4. new \in ReconcilerRecord /\ new.rec = rec
    BY <1>0, <2>2 DEF ReconcilerRecord
  <2> HIDE DEF new
  <2> QED
    BY <1>2, <2>1, <2>3, <2>4
<1>5. ASSUME NEW k \in Reconciler, Decide(k)
      PROVE  /\ reconcilers' \in [Reconciler -> ReconcilerRecord]
             /\ \A j \in Reconciler : ReconcilerNotes(reconcilers[j])'
             /\ UNCHANGED recorders
  <2>1. reconcilers' = [reconcilers EXCEPT ![k] = NoReconciler] /\ UNCHANGED recorders
    BY <1>5 DEF Decide
  <2>2. NoReconciler \in ReconcilerRecord
        /\ NoReconciler.rec = NoRecord /\ NoReconciler.status = "unread"
    BY DEF NoReconciler, ReconcilerRecord, Snapshot
  <2> QED
    BY <1>2, <2>1, <2>2
<1>6. CASE ServiceAlone
  <2>1. ASSUME NEW c \in Call, CallStepNext(c) \/ Crash(c) \/ (\E p \in Payment : Lookup(c, p))
        PROVE  UNCHANGED <<reconcilers, recorders>>
    BY <2>1 DEF CallStepNext, ReadRecord, ReconcileSettled, ReconcileNotFound, ReconcilePending,
       ReleaseUnsettled, Recover, Verify, ReadBalance, VerifyOrder, Reserve, Journal, Undo,
       Submit, Outcome, MarkUnknown, Finalize, callOnly, othersUnchanged, Crash, Lookup
  <2>2. (\E p \in Payment : Mine(p)) => UNCHANGED <<reconcilers, recorders>>
    BY DEF Mine
  <2> QED
    BY <1>1, <1>3, <1>4, <1>5, <1>6, <2>1, <2>2 DEF ServiceAlone, ReconcilerNext
<1>7. CASE Issuing \/ Attaching
  <2>1. UNCHANGED <<reconcilers, recorders>>
    BY <1>7 DEF Issuing, Attaching, IssueCover, AttachCover, LeaveToCompensation, othersUnchanged
  <2> QED
    BY <1>1, <2>1
<1>8. CASE Running \/ Outside
  BY <1>1, <1>8, RunningOnly, OutsideOnly
<1> QED
  BY <1>6, <1>7, <1>8, StepKinds
-------------------------------------------------------------------------------
(* What the steps do to payments, jobs and times *)

(* Payments are submitted by invocations that settle, and charged before their *)
(* authorizations are over.                                                    *)
LEMMA PaymentsMove ==
  ASSUME BondInv, UniversalNext
  PROVE  /\ submitted' \subseteq Payment /\ expired \subseteq expired' /\ ExpiredTogether'
         /\ \A p \in Payment :
              /\ p \in settled' => p \in settled \/ p \notin expired
              /\ p \in submitted' => p \in submitted \/ \E c \in Call : Settling(c, p)
<1>0. submitted \subseteq Payment /\ ExpiredTogether
  BY DEF BondInv, BondTypes
<1>a. UNCHANGED expired => ExpiredTogether'
  BY <1>0 DEF ExpiredTogether, sameAuthorization
<1>1. CASE UNCHANGED worldVars
  BY <1>0, <1>1, <1>a DEF worldVars
<1>2. CASE ServiceAlone
  <2>1. ASSUME NEW c \in Call, Submit(c)
        PROVE  /\ calls[c].payment \in Payment /\ Settling(c, calls[c].payment)
               /\ submitted' = submitted \cup {calls[c].payment} /\ UNCHANGED <<settled, expired>>
    BY <2>1 DEF Submit, at, Settling, BondInv, CallNotes
  <2>2. ASSUME NEW c \in Call, ~Submit(c),
               CallStepNext(c) \/ Crash(c) \/ (\E p \in Payment : Lookup(c, p))
        PROVE  UNCHANGED worldVars
    BY <2>2 DEF CallStepNext, ReadRecord, ReconcileSettled, ReconcileNotFound, ReconcilePending,
       ReleaseUnsettled, Recover, Verify, ReadBalance, VerifyOrder, Reserve, Journal, Undo,
       Outcome, MarkUnknown, Finalize, callOnly, othersUnchanged, Crash, Lookup
  <2>3. ASSUME NEW p \in Payment, Mine(p)
        PROVE  /\ \A q \in settled' : q \in settled \/ q \notin expired
               /\ UNCHANGED <<submitted, expired>>
    BY <1>0, <2>3 DEF Mine, ExpiredTogether, sameAuthorization
  <2>4. ReconcilerNext => UNCHANGED worldVars
    BY DEF ReconcilerNext, ListRecord, ReadJobStatus, Decide
  <2> QED
    BY <1>0, <1>1, <1>2, <1>a, <2>1, <2>2, <2>3, <2>4 DEF ServiceAlone
<1>3. CASE Issuing \/ Attaching
  <2>1. UNCHANGED worldVars
    BY <1>3 DEF Issuing, Attaching, IssueCover, AttachCover, LeaveToCompensation, othersUnchanged
  <2> QED
    BY <1>1, <2>1
<1>4. CASE Running
  BY <1>1, <1>4, RunningOnly
<1>5. CASE Outside
  <2>1. UNCHANGED <<submitted, settled>>
    BY <1>5, OutsideOnly
  <2>2. ASSUME NEW p \in Payment, AuthorizationCloses(p)
        PROVE  expired \subseteq expired' /\ ExpiredTogether'
    BY <1>0, <2>2 DEF AuthorizationCloses, ExpireAuthorization, ExpiredTogether, sameAuthorization
  <2>3. ASSUME NEW p \in Payment, LateIssue(p) \/ RecoveryCloses(p) \/ ChallengeCloses(p)
                  \/ ExpiredByAnyone(p) \/ \E o \in {"timely", "late"} : RelayJob(p, o)
        PROVE  UNCHANGED expired
    BY <2>3 DEF LateIssue, RecoveryCloses, ChallengeCloses, ExpiredByAnyone, RelayJob,
       allServiceVars, serviceVars, worldVars
  <2>4. ASSUME NEW r \in Request, (\E s \in JobStatus : TaskMoves(r, s)) \/ SlaElapses(r)
        PROVE  UNCHANGED expired
    BY <2>4 DEF TaskMoves, SlaElapses, JobMoves, DeadlinePasses
  <2> QED
    BY <1>0, <1>5, <1>a, <2>1, <2>2, <2>3, <2>4 DEF Outside
<1> QED
  BY <1>2, <1>3, <1>4, <1>5, StepKinds

\* The facts about the jobs and their times, and their types.
jobVars == <<jobStatus, overdue, relayed, late>>

FactTypes ==
    /\ jobStatus \in [Request -> JobStatus] /\ overdue \subseteq Request
    /\ sent \subseteq Payment
    /\ relayed \in [Payment -> {"none", "timely", "late"}]
    /\ late \subseteq Request
    /\ recoveryOver \subseteq expired /\ challengeOver \subseteq Payment

(* Beside the outside world, no step but an issuance moves a fact. *)
LEMMA InsideFacts ==
  ASSUME BondInv, ServiceAlone \/ Issuing \/ Attaching \/ Running
  PROVE  /\ UNCHANGED <<jobStatus, overdue, factVars, expired, reserve>>
         /\ sent' \subseteq Payment
<1>0. sent \subseteq Payment
  BY DEF BondInv, BondTypes, UniversalTypeOK
<1>1. CASE ServiceAlone
  <2>1. ASSUME NEW c \in Call, CallStepNext(c) \/ Crash(c) \/ (\E p \in Payment : Lookup(c, p))
        PROVE  UNCHANGED <<jobStatus, overdue, expired, reserve>>
    BY <2>1 DEF CallStepNext, ReadRecord, ReconcileSettled, ReconcileNotFound, ReconcilePending,
       ReleaseUnsettled, Recover, Verify, ReadBalance, VerifyOrder, Reserve, Journal, Undo,
       Submit, Outcome, MarkUnknown, Finalize, callOnly, othersUnchanged, worldVars, Crash, Lookup
  <2>2. (\E p \in Payment : Mine(p)) => UNCHANGED <<jobStatus, overdue, expired, reserve>>
    BY DEF Mine
  <2>3. ReconcilerNext => UNCHANGED <<jobStatus, overdue, expired, reserve>>
    BY DEF ReconcilerNext, ListRecord, ReadJobStatus, Decide, worldVars
  <2> QED
    BY <1>0, <1>1, <2>1, <2>2, <2>3 DEF ServiceAlone, chainVars
<1>2. CASE Issuing
  <2>1. PICK c \in Call : IssueCover(c)
    BY <1>2 DEF Issuing
  <2>2. calls[c].payment \in Payment
    BY <2>1 DEF IssueCover, at, BondInv, CallNotes
  <2> QED
    BY <1>0, <2>1, <2>2 DEF IssueCover, worldVars, chainVars
<1>3. CASE Attaching
  BY <1>0, <1>3 DEF Attaching, AttachCover, LeaveToCompensation, othersUnchanged, worldVars, chainVars
<1>4. CASE Running
  BY <1>0, <1>4, RunningOnly DEF worldVars
<1> QED
  BY <1>1, <1>2, <1>3, <1>4

(* What was judged stays so, and what was not timely then never is. *)
LEMMA FactsMove ==
  ASSUME ServiceAssumption, BondInv, UniversalNext
  PROVE  /\ FactTypes'
         /\ \A p \in Payment : Judged(p) => Judged(p)' /\ (timely(p)' => timely(p))
<1>0. FactTypes /\ RequestOf \in [Payment -> Request]
  BY DEF BondInv, BondTypes, UniversalTypeOK, FactTypes, ServiceAssumption
<1>1. ASSUME UNCHANGED <<jobVars, recoveryOver, challengeOver>>, sent' \subseteq Payment,
             expired \subseteq expired'
      PROVE  /\ FactTypes'
             /\ \A p \in Payment : Judged(p) => Judged(p)' /\ (timely(p)' => timely(p))
  BY <1>0, <1>1 DEF FactTypes, Judged, timely, jobVars
<1>2. expired \subseteq expired'
  BY PaymentsMove
<1>3. CASE ServiceAlone \/ Issuing \/ Attaching \/ Running
  BY <1>1, <1>2, <1>3, InsideFacts DEF factVars, jobVars
<1>4. ASSUME NEW p \in Payment, LateIssue(p) \/ AuthorizationCloses(p) \/ ExpiredByAnyone(p)
      PROVE  /\ FactTypes'
             /\ \A q \in Payment : Judged(q) => Judged(q)' /\ (timely(q)' => timely(q))
  <2>1. UNCHANGED <<jobVars, recoveryOver, challengeOver>> /\ sent' \subseteq Payment
    BY <1>0, <1>4 DEF LateIssue, AuthorizationCloses, ExpireAuthorization, ExpiredByAnyone,
       universalOnly, chainVars, factVars, allServiceVars, serviceVars, worldVars, jobVars, FactTypes
  <2> QED
    BY <1>1, <1>2, <2>1
<1>5. ASSUME NEW p \in Payment, RecoveryCloses(p) \/ ChallengeCloses(p)
      PROVE  /\ FactTypes'
             /\ \A q \in Payment : Judged(q) => Judged(q)' /\ (timely(q)' => timely(q))
  <2>1. /\ UNCHANGED <<jobVars, sent>>
        /\ recoveryOver' \subseteq expired /\ challengeOver' \subseteq Payment
    BY <1>0, <1>5 DEF RecoveryCloses, ChallengeCloses, universalOnly, chainVars,
       allServiceVars, serviceVars, worldVars, jobVars, FactTypes
  <2> QED
    BY <1>0, <1>2, <2>1 DEF FactTypes, Judged, timely, jobVars
<1>6. ASSUME NEW p \in Payment, NEW o \in {"timely", "late"}, RelayJob(p, o)
      PROVE  /\ FactTypes'
             /\ \A q \in Payment : Judged(q) => Judged(q)' /\ (timely(q)' => timely(q))
  <2>1. /\ relayed[p] = "none" /\ RequestOf[p] \in Relayed
        /\ relayed' = [relayed EXCEPT ![p] = o]
        /\ UNCHANGED <<jobStatus, overdue, sent, late, recoveryOver, challengeOver, expired>>
    BY <1>6 DEF RelayJob, universalOnly, chainVars, allServiceVars, serviceVars, worldVars
  <2>2. FactTypes'
    BY <1>0, <2>1 DEF FactTypes
  <2>3. \A q \in Payment \ {p} : relayed'[q] = relayed[q]
    BY <1>0, <2>1 DEF FactTypes
  <2>4. ~Judged(p)
    BY <2>1 DEF Judged
  <2> QED
    BY <2>1, <2>2, <2>3, <2>4 DEF Judged, timely
<1>7. ASSUME NEW r \in Request, SlaElapses(r)
      PROVE  /\ FactTypes'
             /\ \A q \in Payment : Judged(q) => Judged(q)' /\ (timely(q)' => timely(q))
  <2>1. overdue' = overdue \cup {r}
        /\ UNCHANGED <<jobStatus, sent, relayed, late, recoveryOver, challengeOver, expired>>
    BY <1>7 DEF SlaElapses, DeadlinePasses, factVars, universalOnly, chainVars
  <2> QED
    BY <1>0, <2>1 DEF FactTypes, Judged, timely
<1>8. ASSUME NEW r \in Request, NEW s \in JobStatus, TaskMoves(r, s)
      PROVE  /\ FactTypes'
             /\ \A q \in Payment : Judged(q) => Judged(q)' /\ (timely(q)' => timely(q))
  <2>1. /\ r \notin Relayed /\ s \in JobSteps[jobStatus[r]]
        /\ jobStatus' = [jobStatus EXCEPT ![r] = s]
        /\ late' = IF s # "disputed" /\ r \in overdue THEN late \cup {r} ELSE late
        /\ UNCHANGED <<overdue, sent, relayed, recoveryOver, challengeOver, expired>>
    BY <1>8 DEF TaskMoves, JobMoves, universalOnly, chainVars
  <2>2. FactTypes'
    BY <1>0, <2>1 DEF FactTypes
  <2>3. /\ jobStatus'[r] = s
        /\ \A x \in Request \ {r} : jobStatus'[x] = jobStatus[x]
    BY <1>0, <2>1 DEF FactTypes
  <2>4. jobStatus[r] = "accepted" => s # "disputed"
    BY <2>1 DEF JobSteps
  <2>5. ASSUME NEW q \in Payment, Judged(q)
        PROVE  Judged(q)' /\ (timely(q)' => timely(q))
    <3>1. Judged(q)'
      BY <2>1, <2>5 DEF Judged
    <3>2. CASE RequestOf[q] \in Relayed
      BY <2>1, <3>1, <3>2 DEF timely
    <3>3. CASE RequestOf[q] \notin Relayed /\ RequestOf[q] = r
      BY <2>1, <2>3, <2>4, <2>5, <3>3 DEF timely, Judged
    <3>4. CASE RequestOf[q] \notin Relayed /\ RequestOf[q] # r
      BY <1>0, <2>1, <2>3, <3>1, <3>4 DEF timely
    <3> QED
      BY <3>1, <3>2, <3>3, <3>4
  <2> QED
    BY <2>2, <2>5
<1> QED
  BY <1>3, <1>4, <1>5, <1>6, <1>7, <1>8, StepKinds DEF Outside
(* A relay receipt that is kept stays. *)
LEMMA RelaysLast ==
  ASSUME BondInv, UniversalNext
  PROVE  \A p \in Payment : relayed[p] # "none" => relayed'[p] # "none"
<1>0. relayed \in [Payment -> {"none", "timely", "late"}]
  BY DEF BondInv, BondTypes, UniversalTypeOK
<1>1. CASE ServiceAlone \/ Issuing \/ Attaching \/ Running
  BY <1>1, InsideFacts DEF factVars
<1>2. ASSUME NEW p \in Payment, NEW o \in {"timely", "late"}, RelayJob(p, o)
      PROVE  \A q \in Payment : relayed[q] # "none" => relayed'[q] # "none"
  <2>1. relayed' = [relayed EXCEPT ![p] = o]
    BY <1>2 DEF RelayJob
  <2> QED
    BY <1>0, <1>2, <2>1
<1>3. ASSUME NEW p \in Payment, LateIssue(p) \/ AuthorizationCloses(p) \/ RecoveryCloses(p)
                \/ ChallengeCloses(p) \/ ExpiredByAnyone(p)
      PROVE  UNCHANGED relayed
  BY <1>3 DEF LateIssue, AuthorizationCloses, RecoveryCloses, ChallengeCloses, ExpiredByAnyone,
     factVars
<1>4. ASSUME NEW r \in Request, (\E s \in JobStatus : TaskMoves(r, s)) \/ SlaElapses(r)
      PROVE  UNCHANGED relayed
  BY <1>4 DEF TaskMoves, SlaElapses, factVars
<1> QED
  BY <1>1, <1>2, <1>3, <1>4, StepKinds DEF Outside

(* One covenant, as the steps move it. *)
LEMMA CoverBecomes ==
  ASSUME BondInv, CoverMoves, NEW p \in Payment
  PROVE  \/ cover'[p] = cover[p]
         \/ cover'[p] = "PendingStart" \/ (cover'[p] = "Active" /\ RequestOf[p] \notin Relayed)
         \/ \E call \in CoverCalls :
               Accepts(p, call) /\ Justified(p, call) /\ cover'[p] = CoverAfter(p, call)
<1>0. cover \in [Payment -> {"None"} \cup DOMAIN LedgerState]
  BY DEF BondInv, BondTypes, UniversalTypeOK
<1>1. ASSUME NEW q \in Payment, cover' = issuedCover(q), cover'[p] # cover[p]
      PROVE  cover'[p] = "PendingStart" \/ (cover'[p] = "Active" /\ RequestOf[p] \notin Relayed)
  BY <1>0, <1>1 DEF issuedCover
<1>2. ASSUME NEW q \in Payment, NEW call \in CoverCalls, Called(q, call), cover'[p] # cover[p]
      PROVE  Accepts(p, call) /\ Justified(p, call) /\ cover'[p] = CoverAfter(p, call)
  <2>1. cover' = [cover EXCEPT ![q] = CoverAfter(q, call)]
        /\ Accepts(q, call) /\ Justified(q, call)
    BY <1>2 DEF Called
  <2>2. p = q
    BY <1>0, <1>2, <2>1
  <2> QED
    BY <1>0, <2>1, <2>2
<1> QED
  BY <1>1, <1>2 DEF CoverMoves

(* What a covenant tells of its payment and its job stays true. *)
LEMMA CoverTellsKeep ==
  ASSUME ServiceAssumption, BondInv, UniversalNext, CoverMoves, NEW p \in Payment
  PROVE  CoverTells(p)'
<1>0. CoverTells(p) /\ BondTypes
  BY DEF BondInv
<1>1. ASSUME p \in submitted', RequestOf[p] \in Bonded
      PROVE  cover'[p] # "None"
  <2>1. cover[p] # "None"
    <3>1. CASE p \in submitted
      BY <1>0, <1>1, <3>1 DEF CoverTells
    <3>2. ASSUME NEW c \in Call, Settling(c, p)
          PROVE  cover[p] # "None"
      BY <1>1, <3>2 DEF Settling, BondInv, CallNotes
    <3> QED
      BY <1>1, <3>1, <3>2, PaymentsMove
  <2> QED
    BY <1>0, <2>1, CoverLasts
<1>2. ASSUME cover'[p] = "CancelledUnpaid"
      PROVE  p \in expired' \ settled'
  <2>1. p \in expired \ settled
    <3>1. CASE cover[p] = "CancelledUnpaid"
      BY <1>0, <3>1 DEF CoverTells
    <3>2. ASSUME NEW call \in CoverCalls, Accepts(p, call), cover'[p] = CoverAfter(p, call)
          PROVE  p \in expired \ settled
      <4>1. call = "cancelUnpaid"
        BY <1>2, <3>2 DEF CoverAfter, CoverCalls
      <4> QED
        BY <3>2, <4>1 DEF Accepts, Cancellable, used
    <3> QED
      BY <1>2, <3>1, <3>2, CoverBecomes
  <2> QED
    BY <2>1, PaymentsMove
<1>3. ASSUME cover'[p] = "Active", RequestOf[p] \in Relayed
      PROVE  relayed'[p] # "none"
  <2>1. relayed[p] # "none"
    <3>1. CASE cover[p] = "Active"
      BY <1>0, <1>3, <3>1 DEF CoverTells
    <3>2. ASSUME NEW call \in CoverCalls, Justified(p, call), cover'[p] = CoverAfter(p, call)
          PROVE  relayed[p] # "none"
      <4>1. call = "startClock"
        BY <1>3, <3>2 DEF CoverAfter, CoverCalls
      <4> QED
        BY <3>2, <4>1 DEF Justified
    <3> QED
      BY <1>3, <3>1, <3>2, CoverBecomes
  <2> QED
    BY <2>1, RelaysLast
<1>4. ASSUME cover'[p] = "PayoutDue"
      PROVE  Judged(p)'
  <2>1. Judged(p)
    <3>1. CASE cover[p] = "PayoutDue"
      BY <1>0, <3>1 DEF CoverTells
    <3>2. ASSUME NEW call \in CoverCalls, Accepts(p, call), cover'[p] = CoverAfter(p, call)
          PROVE  Judged(p)
      <4>1. call = "markPayoutDue"
        BY <1>4, <3>2 DEF CoverAfter, CoverCalls
      <4>2. cover[p] = "Active" /\ RequestOf[p] \in overdue
        BY <3>2, <4>1 DEF Accepts
      <4> QED
        BY <1>0, <4>2 DEF CoverTells, Judged
    <3> QED
      BY <1>4, <3>1, <3>2, CoverBecomes
  <2> QED
    BY <2>1, FactsMove
<1> QED
  BY <1>1, <1>2, <1>3, <1>4 DEF CoverTells

(* Every step moves one run of the reconciler, or none. *)
LEMMA RunsMove ==
  ASSUME BondInv, UniversalNext
  PROVE  UNCHANGED runs \/ \E u \in Run : RunNext(u) /\ OtherRunsStay(u) /\ RunMoves(u)
<1>1. CASE Running
  BY <1>1, RunStepMoves DEF Running
<1>2. CASE ServiceAlone \/ Issuing \/ Attaching
  BY <1>2 DEF ServiceAlone, Issuing, Attaching, IssueCover, AttachCover, LeaveToCompensation
<1> QED
  BY <1>1, <1>2, OutsideOnly, StepKinds

(* The invariant of bonded cover is inductive. *)
LEMMA BondStepKeeps ==
  ASSUME ServiceAssumption, BondInv, UniversalNext
  PROVE  BondInv'
<1>0. BondTypes /\ CoverMoves
  BY StepCoverMoves DEF BondInv
<1>a. JudgementsStand
  BY FactsMove DEF JudgementsStand
<1>1. runs' \in [Run -> RunRecord] /\ \A u \in Run : RunNotes(runs[u])'
  <2>1. CASE UNCHANGED runs
    <3>1. runs' \in [Run -> RunRecord]
      BY <1>0, <2>1 DEF BondTypes, UniversalTypeOK, RunRecord
    <3>2. ASSUME NEW u \in Run
          PROVE  RunNotes(runs[u])'
      <4>1. RunNotes(runs[u])
        BY DEF BondInv
      <4>2. runs[u].pc # "idle" => runs[u].rec.paymentId \in Payment
        BY <4>1, LabelledShape DEF RunNotes
      <4> QED
        BY <1>a, <2>1, <4>1, <4>2 DEF RunNotes, Due, JudgementsStand
    <3> QED
      BY <3>1, <3>2
  <2> QED
    BY <1>a, <2>1, RunsMove, RunNotesKeep
<1>2. reserve' \in Nat
  BY <1>0, InsideFacts, OutsideOnly, StepKinds DEF BondTypes
<1>3. InvocationTypes' /\ UNCHANGED recorders
  BY <1>0, CallsNote, ReconcilersNote DEF BondTypes, InvocationTypes
<1>4. BondTypes'
  BY <1>0, <1>1, <1>2, <1>3, PaymentsMove, FactsMove, CoverLasts
     DEF BondTypes, FactTypes, UniversalTypeOK, RunRecord
<1>5. RecordsLabelled' /\ RecordsDue'
  BY <1>a, StepRecords, RecordsStayLabelled, RecordsStayDue DEF BondInv
<1>6. \A c \in Call : CallNotes(calls[c])'
  BY <1>0, CallsNote
<1>7. \A k \in Reconciler : ReconcilerNotes(reconcilers[k])'
  BY ReconcilersNote
<1>8. \A k \in Recorder : recorders'[k] = NoRecord
  BY <1>3 DEF BondInv
<1>9. \A p \in Payment : CoverTells(p)'
  BY <1>0, CoverTellsKeep
<1> QED
  BY <1>1, <1>4, <1>5, <1>6, <1>7, <1>8, <1>9 DEF BondInv

(* A stuttering step keeps every part of it. *)
LEMMA BondStill ==
  ASSUME BondInv, UNCHANGED universalVars
  PROVE  BondInv'
<1>1. /\ UNCHANGED <<calls, reconcilers, recorders, submitted, settled, expired, jobStatus>>
      /\ UNCHANGED <<overdue, reserve, cover, sent, relayed, late, recoveryOver, challengeOver>>
      /\ UNCHANGED <<runs, records>>
  BY DEF universalVars, allServiceVars, ledgerVars, serviceVars, worldVars, chainVars, factVars
<1>2. BondTypes'
  BY <1>1 DEF BondInv, BondTypes, InvocationTypes, UniversalTypeOK, ExpiredTogether,
     sameAuthorization
<1>3. RecordsLabelled' /\ RecordsDue'
  BY <1>1 DEF BondInv, RecordsLabelled, RecordsDue, Due, Judged
<1>4. \A c \in Call : CallNotes(calls[c])'
  BY <1>1 DEF BondInv, CallNotes
<1>5. /\ \A k \in Reconciler : ReconcilerNotes(reconcilers[k])'
      /\ \A k \in Recorder : recorders'[k] = NoRecord
      /\ \A u \in Run : RunNotes(runs[u])'
  BY <1>1 DEF BondInv, ReconcilerNotes, RunNotes, Due, Judged
<1>6. \A p \in Payment : CoverTells(p)'
  BY <1>1 DEF BondInv, CoverTells, Judged
<1> QED
  BY <1>2, <1>3, <1>4, <1>5, <1>6 DEF BondInv

(* Before the first step nothing is known. *)
LEMMA BondInit ==
  ASSUME LedgerAssumption, ServiceAssumption, UniversalInit
  PROVE  BondInv
<1>1. /\ records = [r \in Request |-> NoRecord]
      /\ calls = [c \in Call |-> NoCall]
      /\ reconcilers = [k \in Reconciler |-> NoReconciler]
      /\ recorders = [k \in Recorder |-> NoRecord]
      /\ submitted = {} /\ settled = {} /\ expired = {} /\ overdue = {}
      /\ jobStatus = [r \in Request |-> "accepted"] /\ reserve = InitialReserve
      /\ cover = [p \in Payment |-> "None"] /\ sent = {}
      /\ relayed = [p \in Payment |-> "none"]
      /\ late = {} /\ recoveryOver = {} /\ challengeOver = {}
      /\ runs = [u \in Run |-> NoRun]
  BY DEF UniversalInit, ServiceInit, LedgerInit, CoverInit
<1>2. /\ NoRun \in RunRecord /\ NoCall \in CallRecord /\ NoReconciler \in ReconcilerRecord
      /\ NoRecord \in Snapshot
  BY DEF NoRun, RunRecord, RunStep, Snapshot, Unobserved, Observation, NoCall, CallRecord,
     CallStep, NoReconciler, ReconcilerRecord
<1>3. InvocationTypes
  BY <1>1, <1>2 DEF InvocationTypes
<1>4. /\ runs \in [Run -> RunRecord]
      /\ cover \in [Payment -> {"None"} \cup DOMAIN LedgerState]
      /\ relayed \in [Payment -> {"none", "timely", "late"}]
  BY <1>1, <1>2
<1>5. BondTypes
  BY <1>1, <1>3, <1>4 DEF BondTypes, UniversalTypeOK, RunRecord, JobStatus, ServiceAssumption,
     ExpiredTogether
<1>6. RecordsLabelled /\ RecordsDue
  BY <1>1 DEF RecordsLabelled, RecordsDue, Due, NoRecord
<1>7. \A c \in Call : CallNotes(calls[c])
  BY <1>1 DEF CallNotes, NoCall, WithRecord, Reserved, Replaying
<1>8. /\ \A k \in Reconciler : ReconcilerNotes(reconcilers[k])
      /\ \A k \in Recorder : recorders[k] = NoRecord
      /\ \A u \in Run : RunNotes(runs[u])
  BY <1>1 DEF ReconcilerNotes, NoReconciler, RunNotes, NoRun
<1>9. \A p \in Payment : CoverTells(p)
  BY <1>1 DEF CoverTells
<1> QED
  BY <1>5, <1>6, <1>7, <1>8, <1>9 DEF BondInv

(* It is an invariant of the service with bonded cover. *)
LEMMA BondInvariant == UniversalSpec => []BondInv
<1>1. UniversalInit => BondInv
  BY LedgerAssumption, ServiceAssumption, BondInit
<1>2. BondInv /\ [UniversalNext]_universalVars => BondInv'
  BY ServiceAssumption, BondStepKeeps, BondStill
<1> QED
  BY <1>1, <1>2, PTL DEF UniversalSpec

(* Covenants, waiting transactions and runs keep their types: every program counter *)
(* of a run is one of the modelled awaits.                                          *)
THEOREM UniversalTypes == UniversalSpec => []UniversalTypeOK
<1>1. BondInv => UniversalTypeOK
  BY DEF BondInv, BondTypes
<1> QED
  BY <1>1, BondInvariant, PTL

(* ChargedKeepsCover (a charged buyer's covenant is neither missing nor cancelled) *)
(* holds for any jobs, payments, invocations and runs, several payments of one job  *)
(* and slow reads included.                                                         *)
THEOREM ChargedBuyersKeepCover == UniversalSpec => []ChargedKeepsCover
<1>1. BondInv => ChargedKeepsCover
  <2> SUFFICES ASSUME BondInv, NEW p \in submitted \cap settled, RequestOf[p] \in Bonded
               PROVE  cover[p] \notin {"None", "CancelledUnpaid"}
    BY DEF ChargedKeepsCover
  <2>1. p \in submitted /\ p \in Payment
    BY DEF BondInv, BondTypes
  <2> QED
    BY <2>1 DEF BondInv, CoverTells
<1> QED
  BY <1>1, BondInvariant, PTL

-------------------------------------------------------------------------------
(* What the runs have seen *)

(* A run that is to pay for an untimely job pays for an untimely one. *)
LEMMA JudgesKeep ==
  ASSUME ServiceAssumption, BondInv, TimelyInv, UniversalNext
  PROVE  \A u \in Run : RunJudges(runs[u])'
<1>0. \A p \in Payment : Judged(p) => (timely(p)' => timely(p))
  BY FactsMove
<1>1. ASSUME NEW u \in Run, runs'[u] = runs[u]
      PROVE  RunJudges(runs[u])'
  <2>1. RunJudges(runs[u]) /\ RunNotes(runs[u])
    BY DEF TimelyInv, BondInv
  <2>2. runs[u].pc # "idle" => runs[u].rec.paymentId \in Payment /\ Due(runs[u].rec)
    BY <2>1, LabelledShape DEF RunNotes
  <2> QED
    BY <1>0, <1>1, <2>1, <2>2 DEF RunJudges, Due
<1>2. ASSUME NEW u \in Run, RunMoves(u)
      PROVE  RunJudges(runs[u])'
  <2>1. CASE /\ runAt(u, "job") /\ GoesOn(u, "decide")
             /\ runs'[u].observed = observation(paymentOf(u))
    <3>1. /\ paymentOf(u) \in Payment /\ Due(runs[u].rec)
          /\ runs'[u].rec = runs[u].rec
      BY <2>1, LabelledShape DEF BondInv, RunNotes, runAt, paymentOf, GoesOn
    <3>2. runs'[u].observed.kind # "timely" => ~timely(paymentOf(u))
      BY <2>1 DEF observation
    <3> QED
      BY <1>0, <3>1, <3>2 DEF RunJudges, Due, paymentOf
  <2>2. CASE runs'[u].pc # "decide"
    BY <2>2 DEF RunJudges
  <2> QED
    BY <1>2, <2>1, <2>2 DEF RunMoves, GoesOn, NoRun
<1> QED
  BY <1>1, <1>2, RunsMove DEF OtherRunsStay

(* A covenant is paid out for a job that was judged and not timely. *)
LEMMA TimelyStepKeeps ==
  ASSUME ServiceAssumption, BondInv, TimelyInv, UniversalNext
  PROVE  TimelyInv'
<1>1. ASSUME NEW p \in Payment, cover'[p] \in {"Paid", "RecoveredWithoutPayout"}
      PROVE  Judged(p)' /\ ~timely(p)'
  <2>1. Judged(p) /\ ~timely(p)
    <3>1. CASE cover[p] \in {"Paid", "RecoveredWithoutPayout"}
      BY <3>1 DEF TimelyInv
    <3>2. ASSUME NEW call \in CoverCalls, Justified(p, call), cover'[p] = CoverAfter(p, call)
          PROVE  Judged(p) /\ ~timely(p)
      <4>1. call = "settleNetLoss"
        BY <1>1, <3>2 DEF CoverAfter, CoverCalls
      <4>2. PICK u \in Run : runAt(u, "decide") /\ settleable(u) /\ paymentOf(u) = p
        BY <3>2, <4>1 DEF Justified
      <4>3. RunJudges(runs[u]) /\ RunNotes(runs[u])
        BY DEF TimelyInv, BondInv
      <4> QED
        BY <4>2, <4>3 DEF RunJudges, RunNotes, Due, settleable, runAt, paymentOf
    <3> QED
      BY <1>1, <3>1, <3>2, CoverBecomes, StepCoverMoves
  <2> QED
    BY <2>1, FactsMove
<1> QED
  BY <1>1, JudgesKeep DEF TimelyInv

(* TimelyNeverPays (a provider that delivered in time never pays) holds for any *)
(* jobs, invocations and runs, for several payments of one job, and however long *)
(* a run takes from one read to the next.                                        *)
THEOREM TimelyProvidersNeverPay == UniversalSpec => []TimelyNeverPays
<1>1. UniversalInit => TimelyInv
  BY DEF UniversalInit, CoverInit, TimelyInv, RunJudges, NoRun
<1>2. BondInv /\ TimelyInv /\ UniversalNext => TimelyInv'
  BY ServiceAssumption, TimelyStepKeeps
<1>3. TimelyInv /\ UNCHANGED universalVars => TimelyInv'
  BY DEF TimelyInv, RunJudges, Judged, timely, universalVars, allServiceVars, serviceVars,
     worldVars, chainVars, factVars
<1>4. TimelyInv => TimelyNeverPays
  BY DEF TimelyInv, TimelyNeverPays
<1> QED
  BY <1>1, <1>2, <1>3, <1>4, BondInvariant, PTL DEF UniversalSpec

-------------------------------------------------------------------------------
(* The abstract deal *)

(* A covenant that a step moves is moved as its manager would. *)
LEMMA CoverMoveIsDealMove ==
  ASSUME BondTypes, CoverMoves
  PROVE  UNCHANGED cover \/ \E p \in Payment : Deals!MoveCoverage(p)
<1>0. DOMAIN Deals!CoverageStep = {"None"} \cup Standing
  BY DEF Deals!CoverageStep, Standing
<1>1. ASSUME NEW p \in Payment, Issuable(p), cover' = issuedCover(p)
      PROVE  Deals!MoveCoverage(p)
  <2> DEFINE next == IF RequestOf[p] \in Relayed THEN "PendingStart" ELSE "Active"
  <2>1. cover[p] = "None" /\ cover' = [cover EXCEPT ![p] = next]
    BY <1>1 DEF Issuable, issuedCover
  <2>2. next \in Deals!CoverageStep["None"]
    BY DEF Deals!CoverageStep
  <2> QED
    BY <1>0, <2>1, <2>2 DEF Deals!MoveCoverage
<1>2. ASSUME NEW p \in Payment, NEW call \in CoverCalls, Called(p, call)
      PROVE  Deals!MoveCoverage(p)
  <2>1. Accepts(p, call) /\ cover' = [cover EXCEPT ![p] = CoverAfter(p, call)]
    BY <1>2 DEF Called
  <2>2. cover[p] \in Standing
    BY <2>1 DEF Accepts, Cancellable, CoverCalls, Standing
  <2>3. CoverAfter(p, call) \in Deals!CoverageStep[cover[p]]
    <3> USE <2>1 DEF Accepts, CoverAfter, Deals!CoverageStep
    <3>1. CASE call = "startClock"
      BY <3>1
    <3>2. CASE call = "expireUnstarted"
      BY <3>2
    <3>3. CASE call = "release"
      BY <3>3
    <3>4. CASE call = "markPayoutDue"
      BY <3>4
    <3>5. CASE call = "settleNetLoss"
      BY <3>5
    <3>6. CASE call = "cancelUnpaid"
      BY <2>2, <3>6 DEF Standing
    <3> QED
      BY <3>1, <3>2, <3>3, <3>4, <3>5, <3>6 DEF CoverCalls
  <2> QED
    BY <1>0, <2>1, <2>2, <2>3 DEF Deals!MoveCoverage
<1> QED
  BY <1>1, <1>2 DEF CoverMoves

(* The paid endpoint, its late transactions and the reconciler implement the order   *)
(* in which the contracts let a covenant move, for any payments, jobs and runs.      *)
THEOREM UniversalFollowsDeals == UniversalSpec => CoversFollowDeals
<1>1. UniversalInit => Deals!DealInit
  BY DEF UniversalInit, CoverInit, Deals!DealInit
<1>2. BondInv /\ [UniversalNext]_universalVars => [Deals!DealNext]_(Deals!dealVars)
  <2> SUFFICES ASSUME BondInv, [UniversalNext]_universalVars
               PROVE  [Deals!DealNext]_(Deals!dealVars)
    OBVIOUS
  <2>1. CASE UNCHANGED universalVars
    BY <2>1 DEF universalVars, chainVars, Deals!dealVars
  <2>2. CASE UniversalNext
    <3>1. UNCHANGED cover \/ \E p \in Payment : Deals!MoveCoverage(p)
      BY <2>2, StepCoverMoves, CoverMoveIsDealMove DEF BondInv
    <3> QED
      BY <3>1 DEF Deals!DealNext, Deals!dealVars
  <2> QED
    BY <2>1, <2>2
<1> QED
  BY <1>1, <1>2, BondInvariant, PTL DEF UniversalSpec, CoversFollowDeals, Deals!DealSpec
===============================================================================
