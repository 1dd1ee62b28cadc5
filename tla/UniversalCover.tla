----------------------------- MODULE UniversalCover -----------------------------
(***************************************************************************)
(* Coverage backed by a provider's bond (v0.4): the covenant that          *)
(* src/api/covered-job-receipt.js has issued beside its ledger record,     *)
(* and src/api/lib/universal-reconciler.js, the cron handler that follows  *)
(* the covenant, compensates reservations whose payment did not settle,    *)
(* and keeps the record in step with the chain.                            *)
(*                                                                         *)
(* A covenant's id hashes job, buyer and the payment's fingerprint, so     *)
(* covenants are kept by payment.  Its transitions are the manager's; the  *)
(* attesters are taken to sign all a reconciler asks for, except that a    *)
(* cancellation waits for the proof that the fee's authorization was never *)
(* used.  Times are facts that become true.  The reconciler of the shared  *)
(* reserve lists these records too and runs beside this one.               *)
(***************************************************************************)
EXTENDS CoveredJobReceipt

CONSTANTS
    Run,           \* concurrent runs of the universal reconciler
    Credit,        \* jobs whose policies promise a fixed credit, not the net loss
    SlowRead       \* whether an authorization may close between two reads of a run

ASSUME UniversalAssumption == Credit \subseteq Bonded /\ SlowRead \in BOOLEAN

VARIABLES
    cover,         \* each payment's covenant on the manager
    sent,          \* issue transactions their sender gave up on
    relayed,       \* the relay receipt of a relayed job
    late,          \* task jobs delivered or ended after their deadline
    recoveryOver,  \* payments whose authorization is over for the clock's recovery period
    challengeOver, \* covenants whose challenge period is over
    runs           \* the reconciler's runs

chainVars == <<cover, sent>>
factVars == <<relayed, late, recoveryOver, challengeOver>>
universalVars == <<allServiceVars, chainVars, factVars, runs>>

\* ONCHAIN_STATES
LedgerState ==
    [PendingStart |-> "pending_start", Active |-> "active", Released |-> "released",
     PayoutDue |-> "payout_due", Paid |-> "paid",
     RecoveredWithoutPayout |-> "recovered_without_payout",
     CancelledUnpaid |-> "cancelled_unpaid"]

Standing == {"PendingStart", "Active", "PayoutDue"}
Outstanding == {"pending_start", "active", "payout_due"}

RunStep == {"idle", "chain", "compensate", "drop", "sync", "clock", "job", "decide",
            "release", "write"}
Observation == [kind : {"undelivered", "timely", "late"}, final : BOOLEAN]
Unobserved == [kind |-> "undelivered", final |-> FALSE]

UniversalTypeOK ==
    /\ cover \in [Payment -> {"None"} \cup DOMAIN LedgerState]
    /\ sent \subseteq Payment
    /\ relayed \in [Payment -> {"none", "timely", "late"}]
    /\ late \subseteq Request
    /\ recoveryOver \subseteq expired /\ challengeOver \subseteq Payment
    /\ runs \in [Run -> [pc : RunStep, rec : Snapshot, early : BOOLEAN,
                         seen : {"None"} \cup DOMAIN LedgerState,
                         observed : Observation, to : {"none"} \cup Issued]]

NoRun == [pc |-> "idle", rec |-> NoRecord, early |-> FALSE, seen |-> "None",
          observed |-> Unobserved, to |-> "none"]

CoverInit ==
    /\ cover = [p \in Payment |-> "None"]
    /\ sent = {}
    /\ relayed = [p \in Payment |-> "none"]
    /\ late = {} /\ recoveryOver = {} /\ challengeOver = {}
    /\ runs = [u \in Run |-> NoRun]

UniversalInit == ServiceInit /\ CoverInit

\* A failure that need not have happened, counted with the crashes.
Fault == crashes < MaxCrashes /\ crashes' = crashes + 1

\* Delivered, or ended by the marketplace, before the deadline.
timely(p) ==
    IF RequestOf[p] \in Relayed THEN relayed[p] = "timely"
    ELSE jobStatus[RequestOf[p]] # "accepted" /\ RequestOf[p] \notin late

-------------------------------------------------------------------------------
(* The manager, as far as one covenant can tell *)

Issuable(p) ==
    /\ cover[p] = "None" /\ p \notin expired
    /\ RequestOf[p] \notin Relayed => RequestOf[p] \notin overdue
    /\ \A q \in Payment : RequestOf[q] = RequestOf[p] => cover[q] \in {"None", "CancelledUnpaid"}

issuedCover(p) ==
    [cover EXCEPT ![p] = IF RequestOf[p] \in Relayed THEN "PendingStart" ELSE "Active"]

\* Mutant: a cancellation is attested without looking for the payment.
CancellableUnsearched(p) == cover[p] \in Standing /\ p \in expired

\* cancelUnpaid, and the requiredChecks of its compensation evidence.
Cancellable(p) == cover[p] \in Standing /\ p \in expired /\ ~used(p)

Accepts(p, call) ==
    CASE call = "startClock"      -> cover[p] = "PendingStart" /\ p \notin recoveryOver
      [] call = "expireUnstarted" -> cover[p] = "PendingStart" /\ p \in recoveryOver
      [] call = "release"         -> cover[p] \in {"Active", "PayoutDue"} /\ timely(p)
      [] call = "markPayoutDue"   -> cover[p] = "Active" /\ RequestOf[p] \in overdue
      [] call = "settleNetLoss"   -> cover[p] = "PayoutDue" /\ p \in challengeOver
      [] call = "cancelUnpaid"    -> Cancellable(p)

\* A net loss is settled once the marketplace has refunded the buyer in full.
CoverAfter(p, call) ==
    CASE call = "startClock"      -> "Active"
      [] call = "markPayoutDue"   -> "PayoutDue"
      [] call = "cancelUnpaid"    -> "CancelledUnpaid"
      [] call = "settleNetLoss"   -> IF RequestOf[p] \in Credit THEN "Paid"
                                     ELSE "RecoveredWithoutPayout"
      [] OTHER                    -> "Released"

-------------------------------------------------------------------------------
(* The paid endpoint, between reservation and journal *)

\* issuer.issue: attested, sent, and waited for half a minute.  It may be refused,
\* or mined without the answer arriving, or mined later.
IssueCover(c) ==
    LET p == calls[c].payment IN
    /\ at(c, "issue")
    /\ \/ Issuable(p) /\ cover' = issuedCover(p) /\ goto(c, "attach") /\ UNCHANGED <<sent, crashes>>
       \/ goto(c, "compensate") /\ UNCHANGED <<chainVars, crashes>>
       \/ /\ Issuable(p) /\ Fault /\ goto(c, "compensate")
          /\ \/ cover' = issuedCover(p) /\ UNCHANGED sent
             \/ sent' = sent \cup {p} /\ UNCHANGED cover
    /\ UNCHANGED <<ledgerVars, reconcilers, recorders, worldVars, factVars, runs>>

\* The covenant, and a relayed job's grant, are attached to the reservation.
AttachCover(c) ==
    /\ at(c, "attach")
    /\ LedgerTransition(calls[c].rec, {"pending"})
    /\ goto(c, IF stored(calls[c].rec) = "pending" THEN "journal" ELSE "compensate")
    /\ othersUnchanged /\ UNCHANGED <<chainVars, factVars, runs>>

\* The reservation is left to the reconciler, whoever wrote it last.
LeaveToCompensation(c) ==
    /\ at(c, "compensate")
    /\ LedgerTransition([calls[c].rec EXCEPT !.state = "compensation_required"], {"pending"})
    /\ reply(c)
    /\ othersUnchanged /\ UNCHANGED <<chainVars, factVars, runs>>

LateIssue(p) ==
    /\ p \in sent
    /\ cover' = IF Issuable(p) THEN issuedCover(p) ELSE cover
    /\ sent' = sent \ {p}
    /\ UNCHANGED <<allServiceVars, factVars, runs>>

-------------------------------------------------------------------------------
(* The universal reconciler: one record of the list per run *)

paymentOf(u) == runs[u].rec.paymentId
runAt(u, pc) == runs[u].pc = pc
done(u) == runs' = [runs EXCEPT ![u] = NoRun]
onward(u, pc) == runs' = [runs EXCEPT ![u].pc = pc]
runOnly == UNCHANGED <<allServiceVars, chainVars, factVars>>

requiresCompensation(rec) ==
    \/ rec.state = "compensation_required"
    \/ rec.state = "pending" /\ rec.settlement = "none"

\* A record whose payment may still settle is held back.
ListCover(u, r) ==
    /\ runAt(u, "idle")
    /\ r \in Bonded /\ records[r].state # "missing"
    /\ records[r].state = "pending" => records[r].settlement = "none"
    /\ runs' = [runs EXCEPT ![u].pc = "chain", ![u].rec = records[r],
                            ![u].early = records[r].paymentId \notin expired]
    /\ runOnly

ReadCover(u) ==
    /\ runAt(u, "chain")
    /\ runs' = [runs EXCEPT ![u].seen = cover[paymentOf(u)],
                            ![u].pc = IF requiresCompensation(runs[u].rec) THEN "compensate"
                                                                           ELSE "sync"]
    /\ runOnly

\* attestedWrite: a call is mined and reported; or refused, or fails on the way; or
\* is mined and its answer lost.
CoverCall(u, call, to) ==
    LET p == paymentOf(u)
        moved == [cover EXCEPT ![p] = CoverAfter(p, call)] IN
    /\ \/ /\ Accepts(p, call) /\ cover' = moved
          /\ runs' = [runs EXCEPT ![u].pc = IF call = "cancelUnpaid" THEN "drop" ELSE "write",
                                  ![u].to = to]
          /\ UNCHANGED crashes
       \/ ~Accepts(p, call) /\ done(u) /\ UNCHANGED <<cover, crashes>>
       \/ Fault /\ done(u) /\ cover' \in {cover} \cup {m \in {moved} : Accepts(p, call)}
    /\ UNCHANGED <<ledgerVars, calls, reconcilers, recorders, worldVars, sent, factVars>>

\* Mutant: the reservation is compensated while its authorization can be used.
authorizationNeverActive(p) == FALSE

authorizationActive(p) == p \notin expired

\* A reservation without a covenant, or with one that has ended, is dropped.
DropReservation(u) ==
    /\ \/ runAt(u, "drop")
       \/ /\ runAt(u, "compensate")
          /\ \/ runs[u].seen = "None" /\ ~authorizationActive(paymentOf(u))
             \/ runs[u].seen \in {"Released", "CancelledUnpaid"}
    /\ LedgerRelease(runs[u].rec)
    /\ done(u)
    /\ UNCHANGED <<serviceVars, chainVars, factVars>>

CancelCover(u) ==
    /\ runAt(u, "compensate") /\ runs[u].seen \in Standing
    /\ ~authorizationActive(paymentOf(u))
    /\ CoverCall(u, "cancelUnpaid", "none")

HoldCompensation(u) ==
    /\ runAt(u, "compensate")
    /\ runs[u].seen \notin {"Released", "CancelledUnpaid"}
    /\ runs[u].seen \in {"None"} \cup Standing => authorizationActive(paymentOf(u))
    /\ done(u) /\ runOnly

\* Mutant: the record is left as it is found.
onchainStateUnread(u) == runs[u].rec.state

onchainState(u) == LedgerState[runs[u].seen]

\* syncOnchain: the record takes the chain's state, and the run goes on with
\* whatever record the ledger then holds.
SyncOnchain(u) ==
    LET rec == runs[u].rec
        synced == [rec EXCEPT !.state = onchainState(u)]
        kept == IF synced = rec \/ stored(rec) = rec.state THEN synced
                ELSE records[rec.request] IN
    /\ runAt(u, "sync")
    /\ IF runs[u].seen = "None" THEN UNCHANGED ledgerVars /\ done(u)
       ELSE /\ IF synced = rec THEN UNCHANGED ledgerVars ELSE LedgerTransition(synced, {rec.state})
            /\ IF kept.state \in Outstanding
                 THEN runs' = [runs EXCEPT ![u].rec = kept,
                                  ![u].pc = IF kept.state = "pending_start" THEN "clock" ELSE "job"]
                 ELSE done(u)
    /\ UNCHANGED <<serviceVars, chainVars, factVars>>

\* A covenant that waits for its clock: expired, started, or still waiting.
ExpireUnstarted(u) ==
    /\ runAt(u, "clock") /\ paymentOf(u) \in recoveryOver
    /\ CoverCall(u, "expireUnstarted", "released")

StartClock(u) ==
    /\ runAt(u, "clock") /\ paymentOf(u) \notin recoveryOver /\ relayed[paymentOf(u)] # "none"
    /\ CoverCall(u, "startClock", "active")

AwaitClock(u) ==
    /\ runAt(u, "clock") /\ paymentOf(u) \notin recoveryOver /\ relayed[paymentOf(u)] = "none"
    /\ done(u) /\ runOnly

\* a2aObservation reads the task's page, relayReceiptForCovenant the receipt.
observation(p) ==
    LET r == RequestOf[p]
        isLate == IF r \in Relayed THEN relayed[p] = "late" ELSE r \in late IN
    [kind |-> IF timely(p) THEN "timely" ELSE IF isLate THEN "late" ELSE "undelivered",
     final |-> jobStatus[r] = "closed"]

ObserveJob(u) ==
    /\ runAt(u, "job")
    /\ runs' = [runs EXCEPT ![u].pc = "decide", ![u].observed = observation(paymentOf(u))]
    /\ runOnly

breached(u) == runs[u].observed.kind # "timely" /\ runs[u].rec.request \in overdue

challengeElapsed(u) == runs[u].seen = "PayoutDue" /\ paymentOf(u) \in challengeOver

\* terminalRecovery
recoveryReady(u) ==
    IF runs[u].rec.request \in Credit
      THEN runs[u].rec.request \in Relayed \/ breached(u)
      ELSE runs[u].rec.request \notin Relayed /\ runs[u].observed.final

\* Mutant: a record that is due is settled without looking at the job again.
dueSettled(u) == runs[u].rec.state = "payout_due" /\ challengeElapsed(u)

settleable(u) ==
    /\ runs[u].rec.state = "payout_due" /\ challengeElapsed(u)
    /\ runs[u].observed.kind # "timely" /\ recoveryReady(u)

\* The decision, with the clock of now and a job read one await ago.
DecideCover(u) ==
    /\ runAt(u, "decide")
    /\ \/ runs[u].observed.kind = "timely" /\ CoverCall(u, "release", "released")
       \/ /\ runs[u].rec.state = "active" /\ breached(u)
          /\ CoverCall(u, "markPayoutDue", "payout_due")
       \/ settleable(u) /\ CoverCall(u, "settleNetLoss",
             LedgerState[CoverAfter(paymentOf(u), "settleNetLoss")])
       \/ /\ runs[u].observed.kind # "timely"
          /\ IF runs[u].rec.state = "active" THEN ~breached(u) ELSE ~settleable(u)
          /\ done(u) /\ runOnly

\* What the chain has done is written; a timely job whose clock has only now been
\* started is released by the same run.
WriteRecord(u) ==
    LET rec == runs[u].rec
        written == [rec EXCEPT !.state = runs[u].to] IN
    /\ runAt(u, "write")
    /\ LedgerTransition(written, {rec.state})
    /\ IF rec.state = "pending_start" /\ written.state = "active" /\ relayed[paymentOf(u)] = "timely"
         THEN runs' = [runs EXCEPT ![u].rec = written, ![u].pc = "release"]
         ELSE done(u)
    /\ UNCHANGED <<serviceVars, chainVars, factVars>>

ReleaseStarted(u) ==
    /\ runAt(u, "release")
    /\ CoverCall(u, "release", "released")

RunStepNext(u) ==
    \/ ReadCover(u) \/ DropReservation(u) \/ CancelCover(u) \/ HoldCompensation(u)
    \/ SyncOnchain(u) \/ ExpireUnstarted(u) \/ StartClock(u) \/ AwaitClock(u)
    \/ ObserveJob(u) \/ DecideCover(u) \/ WriteRecord(u) \/ ReleaseStarted(u)

-------------------------------------------------------------------------------
(* The outside world *)

universalOnly == UNCHANGED <<chainVars, runs>>

\* A buyer spends the grant of its receipt: the provider is paid and answers, in
\* time or not, and the receipt is kept for the covenant.
RelayJob(p, outcome) ==
    /\ RequestOf[p] \in Relayed /\ relayed[p] = "none" /\ hasRecord(p)
    /\ records[RequestOf[p]].state \in Issued
    /\ relayed' = [relayed EXCEPT ![p] = outcome]
    /\ UNCHANGED <<allServiceVars, late, recoveryOver, challengeOver>> /\ universalOnly

\* A task job's own steps; a relayed job's deadline starts with the relay.
TaskMoves(r, s) ==
    /\ r \notin Relayed /\ JobMoves(r, s)
    /\ late' = IF s # "disputed" /\ r \in overdue THEN late \cup {r} ELSE late
    /\ UNCHANGED <<relayed, recoveryOver, challengeOver>> /\ universalOnly

SlaElapses(r) ==
    /\ r \in Relayed => \E p \in Payment : RequestOf[p] = r /\ relayed[p] # "none"
    /\ DeadlinePasses(r)
    /\ UNCHANGED factVars /\ universalOnly

AuthorizationCloses(p) ==
    /\ SlowRead \/ \A u \in Run :
          runs[u].rec.paymentId \in sameAuthorization(p) => runAt(u, "chain")
    /\ ExpireAuthorization(p)
    /\ UNCHANGED factVars /\ universalOnly

\* A run lasts minutes, and lists its records at its start: none outlasts the ten
\* minutes of the recovery period with a record from before it.
RecoveryCloses(p) ==
    /\ p \in expired \ recoveryOver
    /\ \A u \in Run : runs[u].rec # NoRecord /\ paymentOf(u) = p => ~runs[u].early
    /\ recoveryOver' = recoveryOver \cup {p}
    /\ UNCHANGED <<allServiceVars, relayed, late, challengeOver>> /\ universalOnly

ChallengeCloses(p) ==
    /\ cover[p] = "PayoutDue" /\ p \notin challengeOver
    /\ challengeOver' = challengeOver \cup {p}
    /\ UNCHANGED <<allServiceVars, relayed, late, recoveryOver>> /\ universalOnly

\* Anybody expires a covenant whose clock was not started.
ExpiredByAnyone(p) ==
    /\ Accepts(p, "expireUnstarted")
    /\ cover' = [cover EXCEPT ![p] = CoverAfter(p, "expireUnstarted")]
    /\ UNCHANGED <<allServiceVars, sent, factVars, runs>>

-------------------------------------------------------------------------------
CallNext(c) ==
    \/ CallStepNext(c) /\ UNCHANGED <<chainVars, factVars, runs>>
    \/ IssueCover(c) \/ AttachCover(c) \/ LeaveToCompensation(c)

BuyersNext ==
    \/ \E c \in Call, p \in Payment : Lookup(c, p) /\ UNCHANGED <<chainVars, factVars, runs>>
    \/ \E c \in Call : CallNext(c)
    \/ \E c \in Call : Crash(c) /\ UNCHANGED <<chainVars, factVars, runs>>
    \/ \E p \in Payment : \/ Mine(p) /\ UNCHANGED <<chainVars, factVars, runs>>
                          \/ LateIssue(p)
                          \/ \E o \in {"timely", "late"} : RelayJob(p, o)

RunNext(u) == (\E r \in Request : ListCover(u, r)) \/ RunStepNext(u)

\* The reconciler of the shared reserve takes these records for its own.
SharedReconcilerNext == ReconcilerNext /\ UNCHANGED <<chainVars, factVars, runs>>

TimeNext ==
    \/ \E r \in Request : (\E s \in JobStatus : TaskMoves(r, s)) \/ SlaElapses(r)
    \/ \E p \in Payment : \/ AuthorizationCloses(p) \/ RecoveryCloses(p)
                          \/ ChallengeCloses(p) \/ ExpiredByAnyone(p)

UniversalNext ==
    BuyersNext \/ (\E u \in Run : RunNext(u)) \/ SharedReconcilerNext \/ TimeNext

\* Invocations go on, cron starts runs forever, and time passes, though without
\* SlowRead not within a run.
UniversalFairness ==
    /\ \A c \in Call : WF_universalVars(CallNext(c))
    /\ \A u \in Run : WF_universalVars(RunNext(u))
    /\ SF_universalVars(\E p \in Payment : AuthorizationCloses(p) \/ RecoveryCloses(p))

UniversalSpec == UniversalInit /\ [][UniversalNext]_universalVars /\ UniversalFairness

-------------------------------------------------------------------------------
(* Properties *)

\* A buyer whose fee was taken has its covenant: none is cancelled as unpaid,
\* however late the payment was mined and however old the record was that the
\* reconciler decided from, and none was missing when it was paid for.
ChargedKeepsCover ==
    \A p \in submitted \cap settled :
        RequestOf[p] \in Bonded => cover[p] \notin {"None", "CancelledUnpaid"}

\* A provider that delivered in time never pays: a job read before its deadline and
\* judged after it may be marked due, and is then read again.
TimelyNeverPays ==
    \A p \in Payment : cover[p] \in {"Paid", "RecoveredWithoutPayout"} => ~timely(p)

\* A reservation is forgotten only when no covenant stands for it, however its
\* issuance went: the record is what makes the reconciler free the bond.
RecordOutlivesCover ==
    [][ \A p \in Payment :
          /\ hasRecord(p) /\ records'[RequestOf[p]].state = "missing"
          /\ RequestOf[p] \in Bonded
          => cover'[p] \notin Standing ]_universalVars

\* A reservation left to compensation ends, and so does its covenant, unless another
\* header's submission has used the authorization: nothing cancels the covenant then.
CompensationEnds ==
    \A p \in Payment :
        hasRecord(p) /\ records[RequestOf[p]].state = "compensation_required"
            ~> \/ ~hasRecord(p) /\ cover[p] \notin Standing
               \/ used(p) /\ p \notin settled

\* Whatever the ledger came to say of a covenant (the other reconciler writes it
\* too), once the covenant has ended the record says how.
RecordCatchesUp ==
    \A p \in Payment :
        /\ hasRecord(p) /\ records[RequestOf[p]].state \in Issued
        /\ cover[p] \in DOMAIN LedgerState \ Standing
        ~> /\ cover[p] # "None"
           /\ records[RequestOf[p]].state = LedgerState[cover[p]]

\* No fee of these covenants is escrowed: it is paid past the contracts.
Deals == INSTANCE CoverageDeal
           WITH Deal <- Payment, coverage <- cover, fee <- [p \in Payment |-> "None"]

\* The paid endpoint, whatever it sends late, and the reconciler move covenants only
\* as the contracts promise: what this module says of a manager it does not compose
\* is within what the manager does.
CoversFollowDeals == Deals!DealSpec
===============================================================================
