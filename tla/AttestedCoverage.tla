---------------------------- MODULE AttestedCoverage ----------------------------
(***************************************************************************)
(* The contracts with the quorums they listen to: escrow and manager take  *)
(* evidence only with signatures that src/CoverageEvidenceVerifier.sol     *)
(* accepts, and the attesters (api/lib/evidence-attester.js) sign only     *)
(* what they find true.                                                    *)
(*                                                                         *)
(* The attester service of a quorum holds all its keys and answers         *)
(* requests.  A request may say anything; the service reads the covenant,  *)
(* then the fee, then what became of the two payment authorizations, each  *)
(* read an await of its own beside everything that happens on chain, and   *)
(* signs with the first keys that make a quorum or refuses.  Other people  *)
(* hold keys too: their own, and signers' keys that leaked.  They can sign *)
(* anything, and everybody can send what anybody signed.                   *)
(*                                                                         *)
(* A direct job's id is the hash of its policy, its buyer and the payment  *)
(* authorization the buyer signed for the provider, so it is modelled as   *)
(* naming them.  The price that authorization moves is left out: it is     *)
(* told by when it was executed.                                           *)
(***************************************************************************)
EXTENDS PolicyFeeEscrow, CoverageEvidenceVerifier

CONSTANTS
    Signers,          \* the signers of either verifier
    Threshold,        \* threshold of either verifier
    Key,              \* the keys there are, by address
    Payment,          \* authorizations of a provider's price
    Purchase,         \* what the id of a direct job is the hash of
    MaxSignatures     \* bound of the model: signatures sent with one call

ASSUME AttestationAssumption ==
    /\ DOMAIN Signers = Quorum /\ DOMAIN Threshold = Quorum
    /\ \A q \in Quorum : ValidConfiguration(Signers[q], Threshold[q]) /\ Signers[q] \subseteq Key
    /\ Signers["primary"] \cap Signers["recovery"] = {}
    /\ Payment \subseteq [from : External, amountAtomic : Nat, validBefore : Nat, nonce : Nat]
    /\ Purchase \in [Job -> [policyId : Policy, payment : Payment]]
    /\ MaxSignatures \in Nat

VARIABLES
    othersKeys,       \* the keys in other hands than the attesters'
    requests,         \* the requests the attester services work on
    signed,           \* the evidence either service has signed
    settledAt,        \* when a payment was executed, 0 while it was not
    voided,           \* payments whose authorization was used up without paying the provider
    receipts          \* the relay's signed receipt of a payment

attesterVars == <<othersKeys, requests, signed>>
serviceVars == <<settledAt, voided, receipts>>
allAttestedVars == <<allEscrowVars, attesterVars, serviceVars>>

\* What evidence says: an action, the covenant it is for, and its times and amounts.
Evidence(action, c, payload) == [action |-> action, covenant |-> c, payload |-> payload]

EvidenceRecord == [action : EvidenceAction \cup {"CAPTURE", "ORPHANED_REFUND"},
                   covenant : Covenant, payload : Seq(Nat)]

\* A request, with what has been read for it.
Request == [quorum : Quorum, evidence : EvidenceRecord, covenant : CovenantRecord,
            fee : {"Unread", "Coverable", "None", "Funded", "Captured", "Refunded"}]

RelayReceipt == [covenant : Covenant, startedAt : Nat, completedAt : Nat,
                 delivered : BOOLEAN, timely : BOOLEAN]
NoReceipt == [covenant |-> NoCovenant, startedAt |-> 0, completedAt |-> 0,
              delivered |-> FALSE, timely |-> FALSE]

AttestedTypeOK ==
    /\ othersKeys \subseteq Key
    /\ requests \subseteq Request
    /\ signed \subseteq Quorum \X EvidenceRecord
    /\ settledAt \in [Payment -> Nat] /\ voided \subseteq Payment
    /\ receipts \in [Payment -> RelayReceipt \cup {NoReceipt}]

AttestedInit ==
    /\ othersKeys = {}
    /\ requests = {}
    /\ signed = {}
    /\ settledAt = [p \in Payment |-> 0] /\ voided = {}
    /\ receipts = [p \in Payment |-> NoReceipt]

paymentOf(c) == Purchase[c.jobId].payment
receiptOf(c) == receipts[paymentOf(c)]
feeOf(c) == c.feeAuthorizationHash
Collected(c) == settledAt[paymentOf(c)] # 0

-------------------------------------------------------------------------------
(* The provider and its relay *)

\* transferWithAuthorization to the provider (external), once and inside its window.
ProviderCollects(p) ==
    /\ settledAt[p] = 0 /\ p \notin voided
    /\ now > 0 /\ now < p.validBefore
    /\ settledAt' = [settledAt EXCEPT ![p] = now]
    /\ UNCHANGED <<voided, receipts>>

\* cancelAuthorization (external), or the nonce spent on another payee.
BuyerVoids(p) ==
    /\ settledAt[p] = 0 /\ p \notin voided
    /\ voided' = voided \cup {p}
    /\ UNCHANGED <<settledAt, receipts>>

\* commitRelayExecutionReceipt: a paid payment has one receipt, for the covenant of
\* the relay's grant.
CommitReceipt(c, receipt) ==
    /\ state(c) # "None"
    /\ Collected(c) /\ receiptOf(c) = NoReceipt
    /\ receipts' = [receipts EXCEPT ![paymentOf(c)] = receipt]
    /\ UNCHANGED <<settledAt, voided>>

\* execute: forwarded at startedAt and answered now.  The relay compares with the SLA
\* in milliseconds, so in seconds a delivery at the deadline may be timely or late.
RelayAnswers(c, startedAt, delivered, timely) ==
    /\ timely => delivered /\ now <= startedAt + covenants[c].slaSeconds
    /\ delivered /\ ~timely => now >= startedAt + covenants[c].slaSeconds
    /\ CommitReceipt(c, [covenant |-> c, startedAt |-> startedAt, completedAt |-> now,
                         delivered |-> delivered, timely |-> timely])

\* recover: the payment is found on chain, its answer lost.
RelayRecovers(c) ==
    CommitReceipt(c, [covenant |-> c, startedAt |-> settledAt[paymentOf(c)],
                      completedAt |-> 0, delivered |-> FALSE, timely |-> FALSE])

-------------------------------------------------------------------------------
(* The attesters *)

\* PRIMARY_DIGESTS and RECOVERY_DIGESTS
AttestedBy(quorum) ==
    IF quorum = "primary" THEN EvidenceAction \cup {"CAPTURE", "ORPHANED_REFUND"}
                          ELSE {"RELEASE", "BREACH", "SETTLEMENT", "CANCEL_UNPAID"}

\* verifyIssue, of the policy's terms: a relayed job, the whole cap, and an acceptance
\* whose enrollment is open.
IssuableTerms(e) ==
    LET c == e.covenant
        t == policies[c.policyId].terms IN
    /\ registered(c.policyId) /\ policies[c.policyId].active
    /\ t.clockMode = 1
    /\ e.payload[1] = t.maxCapAtomic /\ e.payload[1] <= e.payload[2]
    /\ e.payload[3] <= now /\ now <= e.payload[3] + t.enrollmentWindowSeconds

\* verifyIssue, of the bond behind the policy.
IssuableBond(e) ==
    LET p == policies[e.covenant.policyId] IN
    /\ isCoverable(e.covenant.policyId, p.terms.serviceFingerprint)
    /\ availableBond(p.provider) >= e.payload[1]

\* attest, to its first await but one: the policy's terms, or the covenant there is.
Ask(quorum, e) ==
    LET issue == e.action = "ISSUE" IN
    /\ e.action \in AttestedBy(quorum)
    /\ IF issue THEN IssuableTerms(e) ELSE state(e.covenant) # "None"
    /\ requests' = requests \cup
          {[quorum |-> quorum, evidence |-> e, fee |-> "Unread",
            covenant |-> IF issue THEN EmptyCovenant ELSE covenants[e.covenant]]}
    /\ UNCHANGED <<othersKeys, signed>>

\* What verifyLifecycle asks of the fee it reads.
FeeAllows(e, cov) ==
    LET fee == fees[feeOf(e.covenant)].state IN
    CASE e.action = "CANCEL_UNPAID" ->
            /\ cov.state \in Live /\ fee \in {"None", "Refunded"}
            /\ e.payload[1] > cov.feeAuthorizationValidBefore /\ e.payload[1] <= now
      [] e.action = "ORPHANED_REFUND" ->
            fee = "None" /\ e.payload[1] <= now /\ now <= e.payload[1] + CaptureMaxAge
      [] OTHER -> fee # "None" /\ covenantOf(feeOf(e.covenant)) = e.covenant

\* The second read: of the bond, or of the fee.
ReadFee(r) ==
    LET issue == r.evidence.action = "ISSUE" IN
    /\ r.fee = "Unread"
    /\ IF issue THEN IssuableBond(r.evidence) ELSE FeeAllows(r.evidence, r.covenant)
    /\ requests' = (requests \ {r}) \cup
          {[r EXCEPT !.fee = IF issue THEN "Coverable" ELSE fees[feeOf(r.evidence.covenant)].state]}
    /\ UNCHANGED <<othersKeys, signed>>

\* verifyDirectAuthorizationBinding: the covenant's job stands for this payment.
PaymentBound(c, paid) ==
    /\ Purchase[c.jobId].policyId = c.policyId
    /\ paymentOf(c).from = c.buyer /\ paymentOf(c).amountAtomic = paid

\* verifyPolicyFeeAuthorizationBinding: the covenant's fee stands for both windows.
FeeBound(c, validBefore) ==
    /\ covenantOf(feeOf(c)) = c
    /\ feeOf(c).providerValidBefore = paymentOf(c).validBefore
    /\ feeOf(c).validBefore = validBefore

\* What the attesters read off the token: the authorization was used, on whatever.
PaymentUsed(c) == Collected(c) \/ paymentOf(c) \in voided
FeeUsed(c) == feeOf(c) \in authorizationState

\* verifyIssue, of the two authorizations: both open and neither used.
VouchedIssue(r) ==
    LET c == r.evidence.covenant IN
    /\ PaymentBound(c, r.evidence.payload[2]) /\ FeeBound(c, r.evidence.payload[4])
    /\ now < paymentOf(c).validBefore /\ now < feeOf(c).validBefore
    /\ ~PaymentUsed(c) /\ ~FeeUsed(c)

\* The provider's payment could no longer be executed at observedAt.
providerWindowClosed(c, observedAt) == observedAt > paymentOf(c).validBefore

\* verifyLifecycle for a cancellation: neither authorization was used, or the escrow
\* has given the fee back.
VouchedCancel(r) ==
    LET c == r.evidence.covenant IN
    /\ PaymentBound(c, r.covenant.buyerPaidAtomic)
    /\ FeeBound(c, r.covenant.feeAuthorizationValidBefore)
    /\ ~PaymentUsed(c)
    /\ FeeUsed(c) <=> r.fee = "Refunded"
    /\ providerWindowClosed(c, r.evidence.payload[1])

\* Mutant: any use of the fee's authorization passes for a payment to the escrow.
paidEscrowByUse(f) == f \in authorizationState

\* verifyProviderSettlement, of the fee: the transaction that used the authorization
\* transferred its amount to the escrow.
paidEscrow(f) == f \in paidIn

\* verifyOrphanedFeeRefund
VouchedOrphan(r) ==
    LET c == r.evidence.covenant IN
    /\ PaymentBound(c, r.covenant.buyerPaidAtomic)
    /\ FeeBound(c, r.covenant.feeAuthorizationValidBefore)
    /\ FeeUsed(c) /\ paidEscrow(feeOf(c))
    /\ r.evidence.payload[1] >= refundAvailableAt(feeOf(c))

\* verifyLifecycle for the rest: the provider was paid, and the relay's receipt for
\* this covenant bears the evidence out.
VouchedByReceipt(r) ==
    LET e == r.evidence
        c == e.covenant
        cov == r.covenant
        receipt == receiptOf(c) IN
    /\ PaymentBound(c, cov.buyerPaidAtomic) /\ Collected(c)
    /\ receipt.covenant = c
    /\ \/ e.action = "START_CLOCK" /\ cov.state = "PendingStart"
          /\ e.payload[1] = receipt.startedAt
       \/ e.action = "RELEASE" /\ cov.state \in {"Active", "PayoutDue"}
          /\ receipt.delivered /\ receipt.timely
          /\ e.payload[1] = receipt.completedAt /\ e.payload[1] <= cov.deadline
       \/ e.action = "BREACH" /\ cov.state = "Active" /\ now > cov.deadline
          /\ ~(receipt.delivered /\ receipt.timely)
       \/ e.action = "SETTLEMENT" /\ cov.state = "PayoutDue" /\ e.payload[1] = 0
       \/ e.action = "CAPTURE" /\ r.fee = "Funded" /\ cov.state # "PendingStart"

\* What the reads that come last find.  They are of what changes at most once, and
\* make one step.
Vouched(r) ==
    CASE r.evidence.action = "ISSUE"           -> VouchedIssue(r)
      [] r.evidence.action = "CANCEL_UNPAID"   -> VouchedCancel(r)
      [] r.evidence.action = "ORPHANED_REFUND" -> VouchedOrphan(r)
      [] OTHER                                 -> VouchedByReceipt(r)

\* attest, to its answer.
Sign(r) ==
    /\ r.fee # "Unread" /\ Vouched(r)
    /\ signed' = signed \cup {<<r.quorum, r.evidence>>}
    /\ requests' = requests \ {r}
    /\ UNCHANGED othersKeys

\* A request is refused, or a read fails.
Refuse(r) ==
    /\ requests' = requests \ {r}
    /\ UNCHANGED <<othersKeys, signed>>

\* Keys come into other hands.
Leak(keys) ==
    /\ ~(keys \subseteq othersKeys)
    /\ othersKeys' = othersKeys \cup keys
    /\ UNCHANGED <<requests, signed>>

\* Anybody asks a quorum for any evidence.
AskNext ==
    \E q \in Quorum, c \in Covenant :
        \/ \E cap, paid \in Amount, a \in 1 .. now, v \in now + 1 .. now + MaxFeeWindow :
              Ask(q, Evidence("ISSUE", c, <<cap, paid, a, v>>))
        \/ \E action \in {"START_CLOCK", "RELEASE", "CANCEL_UNPAID", "CAPTURE", "ORPHANED_REFUND"},
              t \in 0 .. MaxTime : Ask(q, Evidence(action, c, <<t>>))
        \/ Ask(q, Evidence("BREACH", c, <<>>))
        \/ \E x \in Amount \cup {0}, t \in 0 .. MaxTime :
              Ask(q, Evidence("SETTLEMENT", c, <<x, t>>))

AttesterNext ==
    \/ AskNext
    \/ \E r \in requests : ReadFee(r) \/ Sign(r) \/ Refuse(r)
    \/ \E keys \in SUBSET Key : Leak(keys)

ServiceNext ==
    \/ \E p \in Payment : ProviderCollects(p) \/ BuyerVoids(p)
    \/ \E c \in Covenant, t \in 1 .. now, delivered, timely \in BOOLEAN :
          RelayAnswers(c, t, delivered, timely)
    \/ \E c \in Covenant : RelayRecovers(c)

-------------------------------------------------------------------------------
(* The contracts, under signatures *)

\* The service sorts its keys and signs with as many as the threshold asks.
LowestSigners(quorum) ==
    {s \in Signers[quorum] :
        Cardinality({t \in Signers[quorum] : t < s}) < Threshold[quorum]}

\* Whose signature of e can be had.
Willing(quorum, e) ==
    othersKeys \cup (IF <<quorum, e>> \in signed THEN LowestSigners(quorum) ELSE {})

\* The lists of signatures that the verifier of a quorum accepts.
AcceptedLists == [quorum \in Quorum |->
    UNION {{recovered \in [1 .. n -> Key] :
                verify(Signers[quorum], Threshold[quorum], recovered)} : n \in 0 .. MaxSignatures}]

\* Somebody can put together signatures of e that the quorum's verifier accepts.
Attested(quorum, e) ==
    \E recovered \in AcceptedLists[quorum] :
        {recovered[i] : i \in DOMAIN recovered} \subseteq Willing(quorum, e)

AttestedPrimaryNext ==
    \/ \E c \in Covenant, cap, paid \in Amount, a \in 1 .. now,
          v \in now + 1 .. now + MaxFeeWindow :
             /\ Issue(c, cap, paid, a, v)
             /\ Attested("primary", Evidence("ISSUE", c, <<cap, paid, a, v>>))
    \/ \E c \in Covenant, t \in 0 .. now :
          \/ StartClock(c, t) /\ Attested("primary", Evidence("START_CLOCK", c, <<t>>))
          \/ Release(c, t) /\ Attested("primary", Evidence("RELEASE", c, <<t>>))
          \/ CancelUnpaid(c, t) /\ Attested("primary", Evidence("CANCEL_UNPAID", c, <<t>>))
          \/ \E x \in 0 .. covenants[c].buyerPaidAtomic :
                SettleNetLoss(c, x, t) /\ Attested("primary", Evidence("SETTLEMENT", c, <<x, t>>))
    \/ \E c \in Covenant : MarkPayoutDue(c) /\ Attested("primary", Evidence("BREACH", c, <<>>))

AttestedRecoveryNext ==
    \/ \E c \in Covenant, t \in 0 .. now :
          \/ EmergencyRelease(c, t) /\ Attested("recovery", Evidence("RELEASE", c, <<t>>))
          \/ EmergencyCancelUnpaid(c, t)
             /\ Attested("recovery", Evidence("CANCEL_UNPAID", c, <<t>>))
          \/ \E x \in 0 .. covenants[c].buyerPaidAtomic :
                /\ EmergencySettleNetLoss(c, x, t)
                /\ Attested("recovery", Evidence("SETTLEMENT", c, <<x, t>>))
    \/ \E c \in Covenant :
          EmergencyMarkPayoutDue(c) /\ Attested("recovery", Evidence("BREACH", c, <<>>))

AttestedOrphan(f) ==
    \E t \in 0 .. now :
        /\ RefundOrphaned(f, t)
        /\ Attested("primary", Evidence("ORPHANED_REFUND", covenantOf(f), <<t>>))

AttestedFeeActions ==
    \/ \E f \in FeeAuthorization :
          Fund(f) \/ Refund(f) \/ PayDirectly(f) \/ ConsumeWithoutTransfer(f) \/ AttestedOrphan(f)
    \/ \E f \in FeeAuthorization, t \in 0 .. now :
          Capture(f, t) /\ Attested("primary", Evidence("CAPTURE", covenantOf(f), <<t>>))

ContractsNext ==
    \/ AttestedFeeActions /\ UNCHANGED <<vaultBooks, registryVars, managerVars>>
    \/ /\ AttestedPrimaryNext \/ AttestedRecoveryNext \/ \E c \in Covenant : ExpireUnstarted(c)
       /\ UNCHANGED escrowVars
    \/ RegistryActions /\ UNCHANGED <<vaultVars, managerVars, escrowVars>>
    \/ /\ VaultUsersNext(External \ {EscrowAddress}, {ManagerAddress}) \/ Tick
       /\ UNCHANGED <<registryVars, managerVars, escrowVars>>

AttestedNext ==
    \/ ContractsNext /\ UNCHANGED <<attesterVars, serviceVars>>
    \/ AttesterNext /\ UNCHANGED <<allEscrowVars, serviceVars>>
    \/ ServiceNext /\ UNCHANGED <<allEscrowVars, attesterVars>>

AttestedSpec ==
    /\ VaultInit /\ RegistryInit /\ ManagerInit /\ EscrowInit /\ AttestedInit
    /\ [][AttestedNext]_allAttestedVars

\* Time passes; and while some fee may be refunded, somebody sends a refund, which is
\* open to all: an orphan's with whatever evidence there is for it.
AttestedFairness ==
    /\ WF_now(Tick)
    /\ WF_fees(\E f \in FeeAuthorization :
                  \/ Refund(f)
                  \/ Orphaned(f) /\ AttestedOrphan(f))

-------------------------------------------------------------------------------
(* Properties *)

\* Fewer keys of either quorum are in other hands than its threshold.
FewLeaked ==
    \A q \in Quorum : Cardinality(othersKeys \cap Signers[q]) < Threshold[q]

\* While no quorum's worth of keys has leaked, the contracts say of a purchase what
\* the relay saw of it: the clock started when the provider was asked, a release
\* names a timely completion, and a covenant is in breach, and in the end paid its
\* whole cap, only if the provider took the payment and did not deliver in time.  No
\* list of fewer keys, no stale read and no request that says otherwise changes that.
OutcomesAreTrue ==
    FewLeaked => \A c \in Covenant :
        LET cov == covenants[c]
            receipt == receiptOf(c) IN
        /\ cov.startAt # 0 => receipt.covenant = c /\ cov.startAt = receipt.startedAt
        /\ cov.completedAt # 0 =>
              receipt.covenant = c /\ receipt.timely /\ cov.completedAt = receipt.completedAt
        /\ cov.state \in {"PayoutDue", "Paid"} =>
              Collected(c) /\ receipt.covenant = c /\ ~receipt.timely
        /\ cov.state = "Paid" => cov.payoutAtomic = cov.coverageCapAtomic
        /\ cov.state # "RecoveredWithoutPayout"

\* While no quorum's worth of keys has leaked, money follows the service: a covenant
\* is cancelled only when the buyer has paid nobody (the provider was not paid and
\* never will be; the escrow was not, or has given the fee back), the treasury has a
\* fee only if the provider was paid, and the escrow gives no fee back that it did not
\* get.  The attesters read covenant, fee and payments one after the other, while both
\* windows may close and the buyer may use either authorization up elsewhere.
MoneyFollowsService ==
    FewLeaked =>
        /\ \A c \in Covenant :
              /\ state(c) = "CancelledUnpaid" =>
                    /\ ~Collected(c) /\ now >= paymentOf(c).validBefore
                    /\ feeOf(c) \in paidIn => fees[feeOf(c)].state = "Refunded"
              /\ covenantOf(feeOf(c)) = c /\ fees[feeOf(c)].state = "Captured" => Collected(c)
        /\ \A f \in FeeAuthorization : ~FalselyRefunded(f)
===============================================================================
