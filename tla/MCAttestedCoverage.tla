--------------------------- MODULE MCAttestedCoverage ---------------------------
(* Model checking of AttestedCoverage, and of the escrow under it, on a        *)
(* deployment that has been set up: one bonded provider with a relay-clock     *)
(* policy, and one buyer with enough tokens for the fees of two jobs.  The     *)
(* first fee authorization closes before the provider's, the second after it.  *)
(*                                                                             *)
(* At first keys leak.  With Most of them the contracts must hold up whatever  *)
(* is signed: two fees, no attesters.  With Few of them the attesters' word    *)
(* counts: one fee, and attesters that work on one request at a time.          *)
EXTENDS AttestedCoverage

CONSTANTS contract, provider, buyer, vault, escrow, treasury, relay, f1, j1, j2,
          Bond, LateClose,   \* when the provider authorization of the first fee closes
          MCRecoveryFrom     \* bound of the model: when the recovery quorum is first asked

MCPolicy == [service : {relay}, version : {1}]

TermsOf ==
    [slaSeconds |-> 1, enrollmentWindowSeconds |-> 1, maxCapAtomic |-> 1,
     payoutBasis |-> 1, clockMode |-> 1, expiresAt |-> 100, serviceFingerprint |-> f1]
MCTerms == {TermsOf}

thePolicy == [service |-> relay, version |-> 1]
feeA == [policyId |-> thePolicy, jobId |-> j1, buyer |-> buyer,
         validAfter |-> 0, validBefore |-> 2, providerValidBefore |-> LateClose]
feeB == [policyId |-> thePolicy, jobId |-> j2, buyer |-> buyer,
         validAfter |-> 0, validBefore |-> 3, providerValidBefore |-> 2]
MCTwoFees == {feeA, feeB}
MCTwoCovenants == {covenantOf(feeA), covenantOf(feeB)}
theCovenant == covenantOf(feeA)

MCSigners == [quorum \in Quorum |-> IF quorum = "primary" THEN 1 .. 5 ELSE 6 .. 10]
MCThreshold == [quorum \in Quorum |-> 3]

priceOf(f, nonce) == [from |-> buyer, amountAtomic |-> 1, validBefore |-> f.providerValidBefore,
                      nonce |-> nonce]
MCPayment == {priceOf(feeA, 1), priceOf(feeB, 2)}
MCPurchase == [j \in {j1, j2} |->
    [policyId |-> thePolicy, payment |-> IF j = j1 THEN priceOf(feeA, 1) ELSE priceOf(feeB, 2)]]

Most == {1, 2, 3}
Few == {1, 2, 11}

MCInit ==
    /\ ManagerInit /\ EscrowInit /\ AttestedInit
    /\ accounts = [a \in Address |-> [EmptyAccount EXCEPT !.balance =
                                        IF a = provider THEN Bond ELSE 0]]
    /\ covenantLocks = [c \in Covenant |-> NoLock]
    /\ vaultOwner = provider /\ vaultPendingOwner = NoAddress /\ manager = ManagerAddress
    /\ tokenBalance = [a \in Address |-> IF a = vault THEN Bond
                                         ELSE IF a = buyer THEN 2 * FeeAmount ELSE 0]
    /\ now = 1
    /\ policies = [id \in Policy |-> [provider |-> provider, terms |-> TermsOf,
                                      active |-> TRUE]]
    /\ latestVersion = [s \in Service |-> 1]
    /\ nonces = [a \in Address |-> 0]
    /\ registryOwner = provider /\ registryPendingOwner = NoAddress /\ monitor = provider
    /\ agentOwner = [s \in Service |-> provider]
    /\ enrollments = {} /\ enrolledBy = [id \in Policy |-> NoEnrollment]

MCLeak == othersKeys = {} /\ (Leak(Most) \/ Leak(Few)) /\ UNCHANGED <<allEscrowVars, serviceVars>>

-------------------------------------------------------------------------------
(* Most keys leaked *)

\* Issue, which for the second job may name another closing time than the fee
\* authorization's.  A covenant then starts, expires, is cancelled or breached; the rest
\* of its life is left to the manager's own runs.
MCClosing(c) == IF c = theCovenant THEN {feeA.validBefore} ELSE now + 1 .. now + MaxFeeWindow

MCManagerNext ==
    \/ \E c \in Covenant : \E v \in MCClosing(c) :
          /\ Issue(c, 1, 1, now, v)
          /\ Attested("primary", Evidence("ISSUE", c, <<1, 1, now, v>>))
    \/ \E c \in Covenant :
          \/ StartClock(c, now) /\ Attested("primary", Evidence("START_CLOCK", c, <<now>>))
          \/ ExpireUnstarted(c)
          \/ CancelUnpaid(c, now) /\ Attested("primary", Evidence("CANCEL_UNPAID", c, <<now>>))
          \/ MarkPayoutDue(c) /\ Attested("primary", Evidence("BREACH", c, <<>>))

MCFeeNext == AttestedFeeActions /\ UNCHANGED <<vaultBooks, registryVars, managerVars>>
MCTick == Tick /\ UNCHANGED <<registryVars, managerVars, escrowVars>>

MCMostNext ==
    /\ \/ MCFeeNext
       \/ MCManagerNext /\ UNCHANGED escrowVars
       \/ MCTick
    /\ UNCHANGED <<attesterVars, serviceVars>>

-------------------------------------------------------------------------------
(* Few keys leaked *)

\* The attesters are asked about now and about what the relay saw; of a late clock
\* and a recovery that is none too.
MCAskable ==
    LET receipt == receiptOf(theCovenant)
        Timed == {<<"START_CLOCK", now>>, <<"START_CLOCK", receipt.startedAt>>,
                  <<"RELEASE", receipt.completedAt>>, <<"CANCEL_UNPAID", now>>,
                  <<"CAPTURE", now>>, <<"ORPHANED_REFUND", now>>} IN
    {Evidence("ISSUE", theCovenant, <<1, 1, now, v>>) : v \in now + 1 .. now + MaxFeeWindow}
    \cup {Evidence(timed[1], theCovenant, <<timed[2]>>) : timed \in Timed}
    \cup {Evidence("BREACH", theCovenant, <<>>)}
    \cup {Evidence("SETTLEMENT", theCovenant, <<x, now>>) : x \in {0, 1}}

\* Evidence that was signed and that no contract took yet.
Unused ==
    {s \in signed : /\ <<s[1], s[2].action, s[2].covenant>> \notin consumedEvidence
                    /\ <<s[2].action, feeOf(s[2].covenant)>> \notin escrowEvidence}

\* The refund of the orphan there is, once it is time.
MCOrphan == Evidence("ORPHANED_REFUND", theCovenant, <<now>>)
OrphanWaits == Orphan(feeA) /\ now >= refundAvailableAt(feeA)

\* Each action is signed once, by the recovery quorum only when it is late, and none
\* before a refund that waits.
MCAsk(q, e) ==
    /\ requests = {}
    /\ OrphanWaits => e = MCOrphan
    /\ q = "recovery" => now >= MCRecoveryFrom
    /\ e.action = "ISSUE" => now < feeA.validBefore
    /\ state(theCovenant) \in Final => e.action \in {"CAPTURE", "ORPHANED_REFUND"}
    /\ e.action = "ORPHANED_REFUND" \/ Cardinality(Unused) <= 1
    /\ \A s \in signed : s[1] = q => s[2].action # e.action
    /\ Ask(q, e)

Answers(r) == ReadFee(r) \/ Sign(r)

\* A request that may yet be answered is not given up: that is as if it was never made.
MCRefuse(r) ==
    /\ ~(r.fee = "Unread" /\ r.evidence.action # "ISSUE" /\ FeeAllows(r.evidence, r.covenant))
    /\ ~(r.fee # "Unread" /\ Vouched(r))
    /\ Refuse(r)

MCAttesterNext ==
    /\ \/ \E q \in Quorum, e \in MCAskable : MCAsk(q, e)
       \/ \E r \in requests : Answers(r) \/ MCRefuse(r)
    /\ UNCHANGED <<allEscrowVars, serviceVars>>

\* Whatever has been signed, contracts take; covenant and fee of the first job only,
\* and an asset that delivers in full.  When the first fee's authorization was used up
\* elsewhere the second fee may be paid past the books: an orphan's tokens, which a
\* false refund of the first would take.
MCContractsNext ==
    /\ \/ MCFeeNext
       \/ /\ AttestedPrimaryNext \/ AttestedRecoveryNext \/ \E c \in Covenant : ExpireUnstarted(c)
          /\ UNCHANGED escrowVars
       \/ MCTick
    /\ feeB \in authorizationState' =>
          /\ Orphan(feeB)'
          /\ feeA \in authorizationState \ paidIn
    /\ AllDelivered'
    /\ UNCHANGED <<attesterVars, serviceVars>>

\* The relay answers at once, or asked a second ago.  A late delivery and a failure that
\* was asked then are one to everybody who reads the receipt.
MCServiceNext ==
    /\ \/ ProviderCollects(paymentOf(theCovenant))
       \/ BuyerVoids(paymentOf(theCovenant))
       \/ RelayAnswers(theCovenant, now, FALSE, FALSE)
       \/ \E t \in {now, now - 1} \ {0}, timely \in BOOLEAN :
             RelayAnswers(theCovenant, t, TRUE, timely)
       \/ RelayRecovers(theCovenant)
    /\ UNCHANGED <<allEscrowVars, attesterVars>>

MCFewNext == MCContractsNext \/ MCAttesterNext \/ MCServiceNext

-------------------------------------------------------------------------------
MCNext ==
    \/ MCLeak
    \/ othersKeys = Most /\ MCMostNext
    \/ othersKeys = Few /\ MCFewNext

MCSpec == MCInit /\ [][MCNext]_allAttestedVars

\* The buyer of an orphan asks for it when it is time, and the attesters answer.
MCAttesterFairness ==
    /\ WF_requests(\E r \in requests : Answers(r) \/ MCRefuse(r))
    /\ WF_requests(othersKeys = Few /\ OrphanWaits /\ MCAsk("primary", MCOrphan))
MCLiveSpec == MCSpec /\ AttestedFairness /\ MCAttesterFairness
===============================================================================
