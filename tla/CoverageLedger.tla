----------------------------- MODULE CoverageLedger -----------------------------
(***************************************************************************)
(* src/api/lib/ledger.js: the durable ledger of covered receipts.  Each    *)
(* operation is one Redis script, so one step.                             *)
(*                                                                         *)
(* A caller passes the whole record it wants stored: the scripts check the *)
(* state of the record they find and then overwrite it with the caller's.  *)
(* A receipt id is the hash of the request, so records are kept by         *)
(* request.  Three counters hold the liability of the records by state; a  *)
(* record whose cover is a provider's bond on chain (v0.4) carries none.   *)
(***************************************************************************)
EXTENDS Integers, FiniteSets, UnitSums

CONSTANTS
    Request,      \* covered jobs: agent, service and job
    Payment,      \* payment headers, by the fingerprint of their bytes
    Payout,       \* payout transactions
    NoRequest, NoPayment, NoPayout,
    Cap           \* the liabilities a record may carry

ASSUME LedgerAssumption ==
    /\ IsFiniteSet(Request)
    /\ NoRequest \notin Request /\ NoPayment \notin Payment /\ NoPayout \notin Payout
    /\ Cap \subseteq Nat \ {0}

VARIABLES
    requests,     \* request keys that are set
    payments,     \* payment key -> the request it was reserved for
    records,      \* receipt key -> the stored record
    liability,    \* the three liability counters
    payouts       \* payout key -> the request it paid

ledgerVars == <<requests, payments, records, liability, payouts>>

\* A record carries a receipt once its payment has settled.
Issued == {"pending_start", "active", "payout_due", "paid", "released",
           "recovered_without_payout", "cancelled_unpaid"}

\* A reservation whose payment has not settled, or never will.
Unfinished == {"pending", "compensation_required"}

LedgerRecord ==
    [request : Request, paymentId : Payment,
     state : Unfinished \cup Issued, liabilityAtomic : Cap \cup {0},
     settlement : {"none", "submitting", "unknown", "settled"},
     payout : Payout \cup {NoPayout}]

NoRecord == [request |-> NoRequest, paymentId |-> NoPayment, state |-> "missing"]

Counter == {"active", "pending", "payout_due"}

LedgerTypeOK ==
    /\ requests \subseteq Request
    /\ payments \in [Payment -> Request \cup {NoRequest}]
    /\ records \in [Request -> LedgerRecord \cup {NoRecord}]
    /\ liability \in [Counter -> Int]
    /\ payouts \in [Payout -> Request \cup {NoRequest}]

LedgerInit ==
    /\ requests = {}
    /\ payments = [p \in Payment |-> NoRequest]
    /\ records = [r \in Request |-> NoRecord]
    /\ liability = [k \in Counter |-> 0]
    /\ payouts = [t \in Payout |-> NoRequest]

Committed == liability["active"] + liability["pending"] + liability["payout_due"]

stored(rec) == records[rec.request].state

-------------------------------------------------------------------------------
(* The scripts, each for the caller's record rec *)

\* RESERVE_SCRIPT's answer.
reserveStatus(rec, reserveBalance) ==
    IF payments[rec.paymentId] # NoRequest THEN "payment_exists"
    ELSE IF rec.request \in requests THEN "request_exists"
    ELSE IF Committed + rec.liabilityAtomic > reserveBalance THEN "insufficient_reserve"
    ELSE "reserved"

LedgerReserve(rec, reserveBalance) ==
    /\ reserveStatus(rec, reserveBalance) = "reserved"
    /\ requests' = requests \cup {rec.request}
    /\ payments' = [payments EXCEPT ![rec.paymentId] = rec.request]
    /\ records' = [records EXCEPT ![rec.request] = rec]
    /\ liability' = [liability EXCEPT !["pending"] = @ + rec.liabilityAtomic]
    /\ UNCHANGED payouts

\* FINALIZE_SCRIPT; the reserve is liable for active records.
LedgerFinalize(rec) ==
    IF stored(rec) \in Unfinished
      THEN /\ records' = [records EXCEPT ![rec.request] = rec]
           /\ LET active == IF rec.state = "active" THEN rec.liabilityAtomic ELSE 0 IN
              liability' = [liability EXCEPT !["pending"] = @ - rec.liabilityAtomic,
                                             !["active"] = @ + active]
           /\ UNCHANGED <<requests, payments, payouts>>
      ELSE UNCHANGED ledgerVars

\* Mutant: a record left to compensation is not released.
releasablePending(rec) == stored(rec) = "pending"

\* Mutant: a release deletes whatever record it finds.
releasableAlways(rec) == TRUE

releasable(rec) == stored(rec) \in Unfinished

\* RELEASE_SCRIPT deletes the caller's keys and the record found under them.
LedgerRelease(rec) ==
    IF releasable(rec)
      THEN /\ requests' = requests \ {rec.request}
           /\ payments' = [payments EXCEPT ![rec.paymentId] = NoRequest]
           /\ records' = [records EXCEPT ![rec.request] = NoRecord]
           /\ liability' = [liability EXCEPT !["pending"] = @ - rec.liabilityAtomic]
           /\ UNCHANGED payouts
      ELSE UNCHANGED ledgerVars

\* MARK_SETTLEMENT_STATE_SCRIPT overwrites a pending record.
LedgerMarkSettlement(rec) ==
    /\ records' = IF stored(rec) = "pending" THEN [records EXCEPT ![rec.request] = rec]
                                              ELSE records
    /\ UNCHANGED <<requests, payments, liability, payouts>>

\* Mutant: a record may leave any issued state.
canLeaveActiveIssued(rec) == stored(rec) \in Issued

\* The check of PAYOUT_DUE_SCRIPT and RELEASE_ACTIVE_SCRIPT.
canLeaveActive(rec) == stored(rec) = "active"

\* PAYOUT_DUE_SCRIPT
LedgerMarkPayoutDue(rec) ==
    IF canLeaveActive(rec)
      THEN /\ records' = [records EXCEPT ![rec.request] = rec]
           /\ liability' = [liability EXCEPT !["active"] = @ - rec.liabilityAtomic,
                                             !["payout_due"] = @ + rec.liabilityAtomic]
           /\ UNCHANGED <<requests, payments, payouts>>
      ELSE UNCHANGED ledgerVars

\* RELEASE_ACTIVE_SCRIPT
LedgerMarkReleased(rec) ==
    IF canLeaveActive(rec)
      THEN /\ records' = [records EXCEPT ![rec.request] = rec]
           /\ liability' = [liability EXCEPT !["active"] = @ - rec.liabilityAtomic]
           /\ UNCHANGED <<requests, payments, payouts>>
      ELSE UNCHANGED ledgerVars

\* TRANSITION_UNIVERSAL_SCRIPT overwrites a record found in one of the states.
LedgerTransition(rec, from) ==
    /\ records' = IF stored(rec) \in from THEN [records EXCEPT ![rec.request] = rec]
                                           ELSE records
    /\ UNCHANGED <<requests, payments, liability, payouts>>

\* Mutant: the payout key is set but not read.
payoutUnusedUnchecked(rec) == TRUE

payoutUnused(rec) == payouts[rec.payout] \in {NoRequest, rec.request}

\* PAID_SCRIPT
LedgerMarkPaid(rec) ==
    IF payoutUnused(rec) /\ stored(rec) = "payout_due"
      THEN /\ records' = [records EXCEPT ![rec.request] = rec]
           /\ liability' = [liability EXCEPT !["payout_due"] = @ - rec.liabilityAtomic]
           /\ payouts' = [payouts EXCEPT ![rec.payout] = rec.request]
           /\ UNCHANGED <<requests, payments>>
      ELSE UNCHANGED ledgerVars

-------------------------------------------------------------------------------
(* Properties *)

LiabilityIn(s) ==
    [r \in Request |-> IF records[r].state = s THEN records[r].liabilityAtomic ELSE 0]

\* What the reserve owes for issued receipts is counted: of the active and of the
\* due ones, each counter is the sum of the records' liabilities, through stale
\* snapshots, replays and payments of one job with unequal caps.  (Of reservations
\* it is not: a stale release takes its own cap off the counter, whatever it deletes.)
IssuedLiabilityCounted ==
    \A k \in {"active", "payout_due"} :
        liability[k] = SumOver(Request, LiabilityIn(k))

\* A receipt once issued is never taken back or re-issued, whatever snapshot a
\* replay or a reconciler writes: it goes from active to released, or to
\* payout_due and then paid, and keeps its payment.
StepsFrom(s) ==
    CASE s = "active"     -> {"active", "payout_due", "released"}
      [] s = "payout_due" -> {"payout_due", "paid"}
      [] OTHER            -> {s}
ReceiptsOnlyAdvance ==
    [][ \A r \in Request : records[r].state \in Issued =>
          /\ records'[r].state \in StepsFrom(records[r].state)
          /\ records'[r].paymentId = records[r].paymentId ]_ledgerVars

\* One payout transaction pays one receipt, though two recorders verify it at
\* once for two receipts of one buyer and one amount.
PayoutPaysOneReceipt ==
    \A r1, r2 \in Request :
        records[r1].state = "paid" /\ records[r2].state = "paid" /\ r1 # r2
            => records[r1].payout # records[r2].payout
===============================================================================
