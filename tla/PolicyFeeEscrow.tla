---------------------------- MODULE PolicyFeeEscrow ----------------------------
(***************************************************************************)
(* src/PolicyFeeEscrow.sol: the refundable fee of a direct purchase,       *)
(* composed with the manager whose covenants it pays for.                  *)
(*                                                                         *)
(* The buyer signs one token authorization per fee.  Funding executes it   *)
(* and records the fee; a recorded fee is captured to the treasury before  *)
(* its refund time, on evidence of the primary quorum, or refunded to the  *)
(* buyer from then on, by anybody.  An authorization that was executed on  *)
(* the token directly leaves tokens that no record covers (an orphan):     *)
(* those go back to the buyer on evidence of the primary quorum.  The      *)
(* token also lets a buyer use an authorization up without paying the      *)
(* escrow; the escrow sees only that it was used.                          *)
(*                                                                         *)
(* A fee's id is the hash of all the authorization says, so an id is       *)
(* modelled as the authorization itself, and an authorization names its    *)
(* covenant.  What the quorum attests is arbitrary here.                   *)
(***************************************************************************)
EXTENDS CoverageManager

CONSTANTS
    EscrowAddress,          \* the escrow's own address
    Treasury,               \* treasury
    FeeAmount,              \* feeAmountAtomic
    MaxAuthorizationWindow, \* MAX_AUTHORIZATION_WINDOW
    RefundGrace,            \* REFUND_GRACE_PERIOD
    CaptureMaxAge,          \* CAPTURE_EVIDENCE_MAX_AGE
    TokenSupply             \* the tokens of the asset, while none is lost on the way

ASSUME EscrowAssumption ==
    /\ EscrowAddress \in External \ {ManagerAddress, Treasury}
    /\ Treasury \in External
    /\ FeeAuthorization \subseteq
          [policyId : Policy, jobId : Job, buyer : External \ {EscrowAddress},
           validAfter : Nat, validBefore : Nat, providerValidBefore : Nat]
    /\ IsFiniteSet(FeeAuthorization)
    /\ FeeAmount \in Nat \ {0}
    /\ MaxAuthorizationWindow \in Nat /\ RefundGrace \in Nat /\ CaptureMaxAge \in Nat
    /\ TokenSupply \in Nat
    /\ SumOver(Address, [a \in Address |-> IF a = VaultAddress THEN 0 ELSE InitialTokens])
          <= TokenSupply

VARIABLES
    fees,                   \* fees: id -> FeeRecord
    totalEscrowedAtomic,    \* totalEscrowedAtomic
    escrowEvidence,         \* consumedEvidence, by action and fee
    authorizationState,     \* the asset's used authorizations
    paidIn                  \* of those, the ones that moved their tokens to the escrow

escrowVars == <<fees, totalEscrowedAtomic, escrowEvidence, authorizationState, paidIn>>
allEscrowVars == <<allManagerVars, escrowVars>>

FeeRecord == [state : {"None", "Funded", "Captured", "Refunded"}, amountAtomic : Nat,
              fundedAt : Nat, refundAvailableAt : Nat]
NoFee == [state |-> "None", amountAtomic |-> 0, fundedAt |-> 0, refundAvailableAt |-> 0]

EscrowTypeOK ==
    /\ fees \in [FeeAuthorization -> FeeRecord]
    /\ totalEscrowedAtomic \in Nat
    /\ escrowEvidence \subseteq {"CAPTURE", "ORPHANED_REFUND"} \X FeeAuthorization
    /\ authorizationState \subseteq FeeAuthorization /\ paidIn \subseteq authorizationState

EscrowInit ==
    /\ fees = [f \in FeeAuthorization |-> NoFee]
    /\ totalEscrowedAtomic = 0
    /\ escrowEvidence = {}
    /\ authorizationState = {} /\ paidIn = {}

\* The covenant an authorization pays for.
covenantOf(f) == [policyId |-> f.policyId, jobId |-> f.jobId, buyer |-> f.buyer,
                  feeAuthorizationHash |-> f]

\* It exists and was issued for this very authorization window.
BoundCovenant(f) ==
    /\ covenantOf(f) \in Covenant
    /\ state(covenantOf(f)) # "None"
    /\ covenants[covenantOf(f)].feeAuthorizationValidBefore = f.validBefore

\* Mutant: the provider's authorization may outlive the refund time.
refundAvailableEarly(f) == f.validBefore + RefundGrace

\* _refundAvailableAt: once neither authorization can be executed any more.
refundAvailableAt(f) ==
    (IF f.validBefore > f.providerValidBefore THEN f.validBefore ELSE f.providerValidBefore)
        + RefundGrace

ConsumeEscrowEvidence(action, f) ==
    /\ <<action, f>> \notin escrowEvidence
    /\ escrowEvidence' = escrowEvidence \cup {<<action, f>>}

-------------------------------------------------------------------------------
(* The asset (external) and the escrow's transfers *)

\* transferWithAuthorization executes once, inside its window, for anybody.
TransferWithAuthorization(f, delivered) ==
    /\ f \notin authorizationState
    /\ f.validAfter <= now /\ now < f.validBefore
    /\ TokenTransfer(f.buyer, EscrowAddress, FeeAmount, delivered)
    /\ authorizationState' = authorizationState \cup {f}
    /\ paidIn' = paidIn \cup {f}

\* cancelAuthorization, or the nonce spent on another payee: used, and nothing paid in.
ConsumeWithoutTransfer(f) ==
    /\ f \notin authorizationState
    /\ authorizationState' = authorizationState \cup {f}
    /\ UNCHANGED <<tokenBalance, paidIn, fees, totalEscrowedAtomic, escrowEvidence>>

\* _safeTransfer
EscrowTransfer(to, amount) ==
    \E delivered \in 0 .. amount :
        /\ TokenTransfer(EscrowAddress, to, amount, delivered)
        /\ tokenBalance'[EscrowAddress] = tokenBalance[EscrowAddress] - amount
        /\ ReceivedExactly(to, amount)

-------------------------------------------------------------------------------
(* The escrow's operations *)

\* _validateFundAuthorization
validateFundAuthorization(f) ==
    /\ f.validAfter < f.validBefore
    /\ f.validAfter <= now
    /\ f.validBefore > now /\ f.validBefore <= now + MaxAuthorizationWindow
    /\ f.providerValidBefore > now /\ f.providerValidBefore <= now + MaxAuthorizationWindow

Fund(f) ==
    /\ validateFundAuthorization(f)
    /\ fees[f].state = "None"
    /\ BoundCovenant(f) /\ state(covenantOf(f)) = "PendingStart"
    /\ \E delivered \in 0 .. FeeAmount :
          /\ TransferWithAuthorization(f, delivered)
          /\ ReceivedExactly(EscrowAddress, FeeAmount)
    /\ fees' = [fees EXCEPT ![f] = [state |-> "Funded", amountAtomic |-> FeeAmount,
                                    fundedAt |-> now,
                                    refundAvailableAt |-> refundAvailableAt(f)]]
    /\ totalEscrowedAtomic' = totalEscrowedAtomic + FeeAmount
    /\ UNCHANGED escrowEvidence

totalAfter(f) == totalEscrowedAtomic - fees[f].amountAtomic

\* Mutant: a fee is captured for a covenant whose clock may yet start.
CapturablePending(f) == BoundCovenant(f) /\ state(covenantOf(f)) # "CancelledUnpaid"

\* The covenant was issued, waits for its clock no more, and was not cancelled.
Capturable(f) == BoundCovenant(f) /\ state(covenantOf(f)) \notin {"PendingStart", "CancelledUnpaid"}

Capture(f, observedAt) ==
    /\ fees[f].state = "Funded"
    /\ now < fees[f].refundAvailableAt
    /\ observedAt >= fees[f].fundedAt /\ observedAt <= now
    /\ now <= observedAt + CaptureMaxAge
    /\ Capturable(f)
    /\ ConsumeEscrowEvidence("CAPTURE", f)
    /\ fees' = [fees EXCEPT ![f].state = "Captured"]
    /\ totalEscrowedAtomic' = totalAfter(f)
    /\ EscrowTransfer(Treasury, fees[f].amountAtomic)
    /\ UNCHANGED <<authorizationState, paidIn>>

Refund(f) ==
    /\ fees[f].state = "Funded"
    /\ now >= fees[f].refundAvailableAt
    /\ fees' = [fees EXCEPT ![f].state = "Refunded"]
    /\ totalEscrowedAtomic' = totalAfter(f)
    /\ EscrowTransfer(f.buyer, fees[f].amountAtomic)
    /\ UNCHANGED <<escrowEvidence, authorizationState, paidIn>>

\* Mutants of the orphan's conditions: a fee of any state is paid back; the last
\* orphan is off by one.
OrphanedAnyState(f) == f \in authorizationState
UnaccountedMore == tokenBalance[EscrowAddress] - totalEscrowedAtomic > FeeAmount

\* The authorization was used, and not by Fund.
Orphaned(f) == fees[f].state = "None" /\ f \in authorizationState

\* What the escrow holds beyond the recorded fees covers one more.
Unaccounted == tokenBalance[EscrowAddress] - totalEscrowedAtomic >= FeeAmount

RefundOrphaned(f, observedAt) ==
    /\ observedAt <= now /\ now <= observedAt + CaptureMaxAge
    /\ BoundCovenant(f)
    /\ now >= refundAvailableAt(f)
    /\ Orphaned(f)
    /\ ConsumeEscrowEvidence("ORPHANED_REFUND", f)
    /\ Unaccounted
    /\ fees' = [fees EXCEPT ![f] = [state |-> "Refunded", amountAtomic |-> FeeAmount,
                                    fundedAt |-> 0,
                                    refundAvailableAt |-> refundAvailableAt(f)]]
    /\ EscrowTransfer(f.buyer, FeeAmount)
    /\ UNCHANGED <<totalEscrowedAtomic, authorizationState, paidIn>>

\* A facilitator executes the authorization on the token, past the escrow's books.
PayDirectly(f) ==
    /\ \E delivered \in 0 .. FeeAmount : TransferWithAuthorization(f, delivered)
    /\ UNCHANGED <<fees, totalEscrowedAtomic, escrowEvidence>>

-------------------------------------------------------------------------------
FeeActions ==
    \/ \E f \in FeeAuthorization :
          Fund(f) \/ Refund(f) \/ PayDirectly(f) \/ ConsumeWithoutTransfer(f)
    \/ \E f \in FeeAuthorization, t \in 0 .. now : Capture(f, t) \/ RefundOrphaned(f, t)

\* Everything but the bond asset's balances and the escrow's own state.
vaultBooks == <<accounts, covenantLocks, vaultOwner, vaultPendingOwner, manager, now>>

EscrowActions == FeeActions /\ UNCHANGED <<vaultBooks, registryVars, managerVars>>

\* The escrow, a contract, makes no call but its own.
EscrowNext ==
    \/ EscrowActions
    \/ ManagerActions /\ UNCHANGED escrowVars
    \/ RegistryActions /\ UNCHANGED <<vaultVars, managerVars, escrowVars>>
    \/ /\ VaultUsersNext(External \ {EscrowAddress}, {ManagerAddress}) \/ Tick
       /\ UNCHANGED <<registryVars, managerVars, escrowVars>>

EscrowSpec ==
    VaultInit /\ RegistryInit /\ ManagerInit /\ EscrowInit /\ [][EscrowNext]_allEscrowVars

-------------------------------------------------------------------------------
(* Properties *)

FundedAmounts ==
    [f \in FeeAuthorization |-> IF fees[f].state = "Funded" THEN fees[f].amountAtomic ELSE 0]

\* The running total is the sum of the funded fees on every path, so no terminal
\* step underflows it and no orphan refund is starved by a stale total.
EscrowedIsSumOfFunded == totalEscrowedAtomic = SumOver(FeeAuthorization, FundedAmounts)

\* Paid in past the books, and not yet back with its buyer.
Orphan(f) == f \in paidIn /\ fees[f].state = "None"

\* Refunded as an orphan though it never paid the escrow: on false evidence only.
FalselyRefunded(f) == fees[f].state = "Refunded" /\ f \notin paidIn

OrphanAmounts == [f \in FeeAuthorization |-> IF Orphan(f) THEN FeeAmount ELSE 0]
FalseRefunds == [f \in FeeAuthorization |-> IF FalselyRefunded(f) THEN FeeAmount ELSE 0]

\* Every transfer so far was delivered in full: the asset never makes tokens, so
\* what one delivers short is missing from then on.
AllDelivered == SumOver(Address, tokenBalance) = TokenSupply

\* The escrow holds every recorded fee, whatever direct payments fell short and
\* whatever the quorum attested.  While the asset delivers in full it holds beside
\* them every orphan, but for one fee for each false orphan refund: a quorum that
\* vouches for a payment that never was takes from other orphans, never from a
\* recorded fee, and no other interleaving of funding, direct payments, used-up
\* authorizations, capture and the two refunds takes anything.
EveryFeeIsBacked ==
    /\ totalEscrowedAtomic <= tokenBalance[EscrowAddress]
    /\ AllDelivered =>
          tokenBalance[EscrowAddress] + SumOver(FeeAuthorization, FalseRefunds)
            >= totalEscrowedAtomic + SumOver(FeeAuthorization, OrphanAmounts)

\* While the provider may still be paid the fee stays where it is: it is refunded
\* only after both authorizations have closed, so a buyer never gets the fee back
\* and the service too by refunding first.
RefundAfterProviderWindow ==
    \A f \in FeeAuthorization :
        fees[f].state = "Refunded" => now >= f.validBefore /\ now >= f.providerValidBefore

\* A fee is not stranded: in the end the treasury or the buyer has every recorded
\* one, and every orphan paid for a covenant that exists, unless the asset delivered
\* short or a false refund was paid (then an orphan may find too little in the escrow).
EveryFeeLeaves ==
    \A f \in FeeAuthorization :
        LET Left == fees[f].state \in {"Captured", "Refunded"} IN
        /\ (fees[f].state = "Funded") ~> Left
        /\ (f \in paidIn /\ BoundCovenant(f))
              ~> (Left \/ ~AllDelivered \/ \E g \in FeeAuthorization : FalselyRefunded(g))

Deals == INSTANCE CoverageDeal
           WITH Deal <- FeeAuthorization,
                coverage <- [f \in FeeAuthorization |->
                               IF BoundCovenant(f) THEN state(covenantOf(f)) ELSE "None"],
                fee <- [f \in FeeAuthorization |-> fees[f].state]

\* Escrow and manager together keep the order of a purchase: a fee enters under a
\* covenant that waits for its clock, and leaves to the treasury or to the buyer.
ImplementsDeals == Deals!DealSpec
===============================================================================
