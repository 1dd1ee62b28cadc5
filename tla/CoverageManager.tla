---------------------------- MODULE CoverageManager ----------------------------
(***************************************************************************)
(* src/CoverageManager.sol: the life of a covenant, composed with the      *)
(* registry whose terms it is issued under and the vault whose bond backs  *)
(* it.                                                                     *)
(*                                                                         *)
(* A covenant is issued under attested evidence and locks bond; its clock  *)
(* starts (at once for clock mode 0, on relay evidence for mode 1); it is  *)
(* released on timely completion, or marked payout-due after its deadline  *)
(* and, once the challenge period has passed, settled from the bond.       *)
(* Anybody may send any of these calls: only the evidence is attested, by  *)
(* the primary quorum or, after a long delay, by the recovery quorum.      *)
(* What a quorum attests is arbitrary here: the contract must hold up      *)
(* whatever its attesters sign.                                            *)
(*                                                                         *)
(* A covenant's id is the hash of its policy, job, buyer and fee           *)
(* authorization, so an id is modelled as the record of the four.          *)
(***************************************************************************)
EXTENDS AgentPolicyRegistry

CONSTANTS
    ManagerAddress,       \* the manager's own address
    Job,                  \* marketplace jobs
    FeeAuthorization,     \* hashes of policy-fee authorizations
    NoCovenant,           \* bytes32(0) as a covenant id
    MaxFeeWindow,         \* MAX_FEE_AUTHORIZATION_WINDOW
    ClockStartRecovery,   \* CLOCK_START_RECOVERY_PERIOD
    SettlementMaxAge,     \* SETTLEMENT_EVIDENCE_MAX_AGE
    CancellationMaxAge,   \* CANCELLATION_EVIDENCE_MAX_AGE
    SettlementChallenge,  \* SETTLEMENT_CHALLENGE_PERIOD
    EmergencyDelay,       \* EMERGENCY_EVIDENCE_DELAY
    LastIssueTime,        \* bound of the model: no issue after this time
    LastBreachTime        \* bound of the model: no breach marked after this time

ASSUME ManagerAssumption ==
    /\ ManagerAddress \in External
    /\ Covenant \subseteq [policyId : Policy, jobId : Job, buyer : External,
                           feeAuthorizationHash : FeeAuthorization]
    /\ NoCovenant \notin Covenant
    /\ MaxFeeWindow \in Nat /\ ClockStartRecovery \in Nat
    /\ SettlementMaxAge \in Nat /\ CancellationMaxAge \in Nat
    /\ SettlementChallenge \in Nat /\ EmergencyDelay \in Nat
    /\ LastIssueTime \in Nat /\ LastBreachTime \in Nat

VARIABLES
    covenants,            \* covenants: id -> Covenant
    coveredJobCovenant,   \* coveredJobCovenant: job -> id
    consumedEvidence      \* consumedEvidenceDigest: the evidence used so far

managerVars == <<covenants, coveredJobCovenant, consumedEvidence>>
allManagerVars == <<vaultVars, registryVars, managerVars>>

Live == {"PendingStart", "Active", "PayoutDue"}
Final == {"Released", "Paid", "RecoveredWithoutPayout", "CancelledUnpaid"}
CovenantState == Live \cup Final \cup {"None"}

CovenantRecord ==
    [state : CovenantState, provider : Address \cup {NoAddress},
     coverageCapAtomic : Nat, buyerPaidAtomic : Nat, payoutAtomic : Nat,
     issuedAt : Nat, startAt : Nat, deadline : Nat, enrollmentExpiresAt : Nat,
     payoutDueAt : Nat, completedAt : Nat, feeAuthorizationValidBefore : Nat,
     slaSeconds : Nat, payoutBasis : {0, 1}]

EmptyCovenant ==
    [state |-> "None", provider |-> NoAddress,
     coverageCapAtomic |-> 0, buyerPaidAtomic |-> 0, payoutAtomic |-> 0,
     issuedAt |-> 0, startAt |-> 0, deadline |-> 0, enrollmentExpiresAt |-> 0,
     payoutDueAt |-> 0, completedAt |-> 0, feeAuthorizationValidBefore |-> 0,
     slaSeconds |-> 0, payoutBasis |-> 0]

\* The two verifiers, of disjoint signers.
Quorum == {"primary", "recovery"}
EvidenceAction == {"ISSUE", "START_CLOCK", "RELEASE", "BREACH", "SETTLEMENT", "CANCEL_UNPAID"}

ManagerTypeOK ==
    /\ covenants \in [Covenant -> CovenantRecord]
    /\ \A c \in Covenant : covenants[c].startAt # 0 =>
          covenants[c].deadline = covenants[c].startAt + covenants[c].slaSeconds
    /\ coveredJobCovenant \in [Job -> Covenant \cup {NoCovenant}]
    /\ consumedEvidence \subseteq Quorum \X EvidenceAction \X Covenant

ManagerInit ==
    /\ consumedEvidence = {}
    /\ covenants = [c \in Covenant |-> EmptyCovenant]
    /\ coveredJobCovenant = [j \in Job |-> NoCovenant]

state(c) == covenants[c].state

\* _consumeEvidence.  A digest binds the verifier, the action and a payload that
\* names the covenant; the model tells digests apart by these three alone, and
\* so refuses a second payload for the same action (see StateOutlivesEvidence).
ConsumeEvidence(quorum, action, c) ==
    /\ <<quorum, action, c>> \notin consumedEvidence
    /\ consumedEvidence' = consumedEvidence \cup {<<quorum, action, c>>}

-------------------------------------------------------------------------------
(* Issue *)

\* _validateIssueInput
validateIssueInput(cap, paid, acceptedAt, enrollmentExpiresAt, validBefore) ==
    /\ cap > 0 /\ cap <= paid
    /\ acceptedAt > 0 /\ acceptedAt <= now
    /\ enrollmentExpiresAt > now
    /\ validBefore > now /\ validBefore <= now + MaxFeeWindow

\* _validatePolicyLimits, for the policy's terms t; the enrollment window is the
\* signed one exactly (see Issue).
validatePolicyLimits(c, t, cap, enrollmentExpiresAt, validBefore) ==
    /\ \E observed \in Fingerprint : isCoverable(c.policyId, observed)
    /\ cap <= t.maxCapAtomic
    /\ t.slaSeconds > 0 /\ t.enrollmentWindowSeconds > 0
    /\ t.clockMode = 1 => validBefore >= enrollmentExpiresAt

\* Mutant: only the covenant id is checked, not its job.
NotYetCoveredById(c) == state(c) = "None"

\* CovenantAlreadyExists and JobAlreadyCovered
NotYetCovered(c) == state(c) = "None" /\ coveredJobCovenant[c.jobId] = NoCovenant

\* _storeCovenant
NewCovenant(p, t, cap, paid, acceptedAt, enrollmentExpiresAt, validBefore) ==
    [EmptyCovenant EXCEPT
        !.state = IF t.clockMode = 0 THEN "Active" ELSE "PendingStart",
        !.provider = p,
        !.coverageCapAtomic = cap,
        !.buyerPaidAtomic = paid,
        !.issuedAt = now,
        !.startAt = IF t.clockMode = 0 THEN acceptedAt ELSE 0,
        !.deadline = IF t.clockMode = 0 THEN acceptedAt + t.slaSeconds ELSE 0,
        !.enrollmentExpiresAt = enrollmentExpiresAt,
        !.feeAuthorizationValidBefore = validBefore,
        !.slaSeconds = t.slaSeconds,
        !.payoutBasis = t.payoutBasis]

Issue(c, cap, paid, acceptedAt, validBefore) ==
    LET t == policies[c.policyId].terms
        p == policies[c.policyId].provider
        enrollmentExpiresAt == acceptedAt + t.enrollmentWindowSeconds IN
    /\ now <= LastIssueTime
    /\ registered(c.policyId)
    /\ validateIssueInput(cap, paid, acceptedAt, enrollmentExpiresAt, validBefore)
    /\ validatePolicyLimits(c, t, cap, enrollmentExpiresAt, validBefore)
    /\ t.clockMode = 0 => acceptedAt + t.slaSeconds > now
    /\ NotYetCovered(c)
    /\ ConsumeEvidence("primary", "ISSUE", c)
    /\ coveredJobCovenant' = [coveredJobCovenant EXCEPT ![c.jobId] = c]
    /\ covenants' = [covenants EXCEPT ![c] =
          NewCovenant(p, t, cap, paid, acceptedAt, enrollmentExpiresAt, validBefore)]
    /\ LockBond(ManagerAddress, c, p, cap)
    /\ UNCHANGED <<registryVars, now>>

-------------------------------------------------------------------------------
(* The clock of a relayed job *)

\* Mutant: the clock may start up to and including the next tick.
clockCutoffLate(c) == covenants[c].feeAuthorizationValidBefore + ClockStartRecovery + 1

clockCutoff(c) == covenants[c].feeAuthorizationValidBefore + ClockStartRecovery

\* Mutant: the covenant's state is not looked at.
CanStartClockAnyState(c, startedAt) ==
    /\ startedAt >= covenants[c].issuedAt /\ startedAt <= now
    /\ startedAt <= covenants[c].enrollmentExpiresAt
    /\ now <= clockCutoff(c)

CanStartClock(c, startedAt) ==
    /\ state(c) = "PendingStart"
    /\ startedAt >= covenants[c].issuedAt /\ startedAt <= now
    /\ startedAt <= covenants[c].enrollmentExpiresAt
    /\ now <= clockCutoff(c)

deadlineFrom(c, startedAt) == startedAt + covenants[c].slaSeconds

StartClock(c, startedAt) ==
    /\ CanStartClock(c, startedAt)
    /\ ConsumeEvidence("primary", "START_CLOCK", c)
    /\ covenants' = [covenants EXCEPT
          ![c].state = "Active",
          ![c].startAt = startedAt,
          ![c].deadline = deadlineFrom(c, startedAt)]
    /\ UNCHANGED <<vaultVars, registryVars, coveredJobCovenant>>

\* Mutant: expiry waits for a deadline an unstarted covenant never gets.
CanExpireAfterDeadline(c) ==
    state(c) = "PendingStart" /\ covenants[c].deadline # 0 /\ now > covenants[c].deadline

CanExpireUnstarted(c) ==
    /\ state(c) = "PendingStart"
    /\ now > covenants[c].feeAuthorizationValidBefore + ClockStartRecovery

\* expireUnstarted: no evidence, anybody may call it.
ExpireUnstarted(c) ==
    /\ CanExpireUnstarted(c)
    /\ covenants' = [covenants EXCEPT ![c].state = "Released"]
    /\ ReleaseBond(ManagerAddress, c)
    /\ UNCHANGED <<registryVars, coveredJobCovenant, consumedEvidence, now>>

-------------------------------------------------------------------------------
(* Release, breach, settlement and cancellation, by either quorum *)

\* The recovery quorum acts only long after the time it is anchored at.
EmergencyReady(anchor) == anchor # 0 /\ now > anchor + EmergencyDelay

\* Mutant: an unstarted covenant is held to a deadline it does not have yet.
releaseDeadlineUnstarted(c) == covenants[c].deadline

releaseDeadline(c) ==
    IF state(c) = "PendingStart" THEN covenants[c].enrollmentExpiresAt
                                 ELSE covenants[c].deadline

\* What _release asks of a completion at completedAt that was observed since.
CanRelease(c, completedAt) ==
    /\ state(c) \in Live
    /\ completedAt >= covenants[c].issuedAt /\ completedAt <= releaseDeadline(c)
    /\ completedAt <= now

release(quorum, c, completedAt) ==
    /\ CanRelease(c, completedAt)
    /\ ConsumeEvidence(quorum, "RELEASE", c)
    /\ covenants' = [covenants EXCEPT ![c].state = "Released", ![c].completedAt = completedAt]
    /\ ReleaseBond(ManagerAddress, c)
    /\ UNCHANGED <<registryVars, coveredJobCovenant, now>>

Release(c, completedAt) == release("primary", c, completedAt)

EmergencyRelease(c, completedAt) ==
    /\ state(c) \in {"Active", "PayoutDue"}
    /\ EmergencyReady(covenants[c].deadline)
    /\ release("recovery", c, completedAt)

\* Mutant: the challenge runs from the deadline instead of the mined breach.
PayoutDueSince(c) == covenants[c].deadline

\* payoutDueAt: the time the breach is committed on chain.
PayoutDueFrom(c) == now

\* _markPayoutDue, on a breach observed after the deadline.
markPayoutDue(quorum, c) ==
    /\ now <= LastBreachTime
    /\ state(c) = "Active"
    /\ now > covenants[c].deadline
    /\ ConsumeEvidence(quorum, "BREACH", c)
    /\ covenants' = [covenants EXCEPT ![c].state = "PayoutDue",
                                      ![c].payoutDueAt = PayoutDueFrom(c)]
    /\ UNCHANGED <<vaultVars, registryVars, coveredJobCovenant>>

MarkPayoutDue(c) == markPayoutDue("primary", c)

EmergencyMarkPayoutDue(c) ==
    /\ EmergencyReady(covenants[c].deadline)
    /\ markPayoutDue("recovery", c)

\* A fixed credit pays the cap (payout basis 1), net loss what was not recovered.
payoutFor(c, recovered) ==
    LET cov     == covenants[c]
        netLoss == IF cov.buyerPaidAtomic > recovered THEN cov.buyerPaidAtomic - recovered
                                                      ELSE 0 IN
    IF cov.payoutBasis = 1 \/ netLoss > cov.coverageCapAtomic
      THEN cov.coverageCapAtomic ELSE netLoss

ChallengeOver(c) == now > covenants[c].payoutDueAt + SettlementChallenge

\* _settleNetLoss, with what the buyer recovered by other means.
settleNetLoss(quorum, c, recovered, observedAt) ==
    LET payout == payoutFor(c, recovered) IN
    /\ state(c) = "PayoutDue"
    /\ observedAt >= covenants[c].payoutDueAt /\ observedAt <= now
    /\ now <= observedAt + SettlementMaxAge
    /\ ChallengeOver(c)
    /\ ConsumeEvidence(quorum, "SETTLEMENT", c)
    /\ covenants' = [covenants EXCEPT
          ![c].payoutAtomic = payout,
          ![c].state = IF payout = 0 THEN "RecoveredWithoutPayout" ELSE "Paid"]
    /\ \/ payout = 0 /\ ReleaseBond(ManagerAddress, c)
       \/ payout > 0 /\ SlashBond(ManagerAddress, c, c.buyer, payout)
    /\ UNCHANGED <<registryVars, coveredJobCovenant, now>>

SettleNetLoss(c, recovered, observedAt) == settleNetLoss("primary", c, recovered, observedAt)

EmergencySettleNetLoss(c, recovered, observedAt) ==
    /\ EmergencyReady(covenants[c].deadline)
    /\ settleNetLoss("recovery", c, recovered, observedAt)

\* A cancelled covenant frees its job for another.
JobFreed(c) ==
    IF coveredJobCovenant[c.jobId] = c
      THEN [coveredJobCovenant EXCEPT ![c.jobId] = NoCovenant]
      ELSE coveredJobCovenant

\* _cancelUnpaid: the fee authorization expired unused.
cancelUnpaid(quorum, c, observedAt) ==
    /\ state(c) \in Live
    /\ observedAt > covenants[c].feeAuthorizationValidBefore /\ observedAt <= now
    /\ now <= observedAt + CancellationMaxAge
    /\ ConsumeEvidence(quorum, "CANCEL_UNPAID", c)
    /\ covenants' = [covenants EXCEPT ![c].state = "CancelledUnpaid"]
    /\ coveredJobCovenant' = JobFreed(c)
    /\ ReleaseBond(ManagerAddress, c)
    /\ UNCHANGED <<registryVars, now>>

CancelUnpaid(c, observedAt) == cancelUnpaid("primary", c, observedAt)

EmergencyCancelUnpaid(c, observedAt) ==
    /\ EmergencyReady(covenants[c].feeAuthorizationValidBefore)
    /\ cancelUnpaid("recovery", c, observedAt)

-------------------------------------------------------------------------------
PrimaryNext ==
    \/ \E c \in Covenant, cap, paid \in Amount, a \in 1 .. now,
          v \in now + 1 .. now + MaxFeeWindow : Issue(c, cap, paid, a, v)
    \/ \E c \in Covenant, t \in 0 .. now : StartClock(c, t)
    \/ \E c \in Covenant, t \in 0 .. now : Release(c, t)
    \/ \E c \in Covenant : MarkPayoutDue(c)
    \/ \E c \in Covenant, t \in 0 .. now :
          \E r \in 0 .. covenants[c].buyerPaidAtomic : SettleNetLoss(c, r, t)
    \/ \E c \in Covenant, t \in 0 .. now : CancelUnpaid(c, t)

RecoveryActs(c) ==
    \/ \E t \in 0 .. now : EmergencyRelease(c, t)
    \/ EmergencyMarkPayoutDue(c)
    \/ \E t \in 0 .. now, r \in 0 .. covenants[c].buyerPaidAtomic :
          EmergencySettleNetLoss(c, r, t)
    \/ \E t \in 0 .. now : EmergencyCancelUnpaid(c, t)

RecoveryNext == \E c \in Covenant : RecoveryActs(c)

ManagerActions == PrimaryNext \/ RecoveryNext \/ \E c \in Covenant : ExpireUnstarted(c)

\* The vault's owner makes the manager contract its manager.
ManagerNext ==
    \/ ManagerActions
    \/ RegistryActions /\ UNCHANGED <<vaultVars, managerVars>>
    \/ (VaultUsersNext(External, {ManagerAddress}) \/ Tick) /\ UNCHANGED <<registryVars, managerVars>>

ManagerSpec ==
    VaultInit /\ RegistryInit /\ ManagerInit /\ [][ManagerNext]_allManagerVars

\* Time passes; while some covenant may be expired, which is permissionless, or has
\* started and is open past the recovery quorum's delay, one of them is resolved.
ManagerFairness ==
    /\ WF_now(Tick)
    /\ WF_covenants(\E c \in Covenant :
          \/ ExpireUnstarted(c)
          \/ /\ state(c) \in {"Active", "PayoutDue"}
             /\ EmergencyReady(covenants[c].deadline)
             /\ RecoveryActs(c))

-------------------------------------------------------------------------------
(* Properties *)

\* The two contracts agree on every covenant: bond is locked exactly while the
\* covenant is live, from its provider and up to its cap, on every path that
\* issues, starts, expires, releases, settles or cancels it.
LockFollowsCovenant ==
    \A c \in Covenant :
        /\ covenantLocks[c].active <=> state(c) \in Live
        /\ covenantLocks[c].provider = covenants[c].provider
        /\ covenantLocks[c].amount = covenants[c].coverageCapAtomic

\* A job has at most one covenant that was not cancelled, across policies and fee
\* authorizations, and coveredJobCovenant names exactly that one.
JobCoveredOnce ==
    \A c \in Covenant :
        state(c) \notin {"None", "CancelledUnpaid"} <=> coveredJobCovenant[c.jobId] = c

\* Replay protection does not rest on the digests: once evidence of an action has
\* been used on a covenant, by either quorum, the covenant's state refuses that
\* action for good, whatever other payload a quorum signs.
StateAfter ==
    [ISSUE |-> CovenantState \ {"None"},
     START_CLOCK |-> CovenantState \ {"None", "PendingStart"},
     RELEASE |-> {"Released"},
     BREACH |-> CovenantState \ {"None", "PendingStart", "Active"},
     SETTLEMENT |-> {"Paid", "RecoveredWithoutPayout"},
     CANCEL_UNPAID |-> {"CancelledUnpaid"}]
StateOutlivesEvidence ==
    \A e \in consumedEvidence : state(e[3]) \in StateAfter[e[2]]

\* While a covenant is live an attested timely completion can still release it:
\* in the clock's recovery period, past the deadline and during the challenge of
\* a provisional breach, nothing in manager or vault makes the call revert.
TimelyCompletionAlwaysAccepted ==
    \A c \in Covenant : state(c) \in Live /\ <<"primary", "RELEASE", c>> \notin consumedEvidence
        => ENABLED \E t \in 0 .. now : Release(c, t)

\* A pending covenant's clock can be started or it can be expired, never both and
\* never neither: the recovery period and permissionless expiry do not overlap.
StartsOrExpires ==
    \A c \in Covenant : state(c) = "PendingStart" =>
        ~((\E t \in 0 .. now : CanStartClock(c, t)) <=> CanExpireUnstarted(c))

\* A settlement pays the buyer out of this covenant's lock and nothing else: at
\* most the cap and at most what the buyer paid, all of it to the buyer, and no
\* other provider's bond moves.
PaidFromTheLock ==
    [][ \A c \in Covenant :
          (state(c) # "Paid" /\ state(c)' = "Paid") =>
            LET payout == covenants'[c].payoutAtomic
                p      == covenants[c].provider IN
            /\ payout > 0 /\ payout <= covenants[c].coverageCapAtomic
            /\ payout <= covenants[c].buyerPaidAtomic
            /\ tokenBalance'[c.buyer] = tokenBalance[c.buyer] + payout
            /\ accounts'[p].balance = accounts[p].balance - payout
            /\ \A q \in Address \ {p} : accounts'[q] = accounts[q] ]_allManagerVars

\* No covenant keeps bond locked forever: the clock of a pending one starts or
\* anybody expires it, and the recovery quorum settles what the primary leaves.
EveryCovenantResolves ==
    \A c \in Covenant : (state(c) \in Live) ~> (state(c) \in Final)
===============================================================================
