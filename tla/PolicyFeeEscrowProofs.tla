------------------------- MODULE PolicyFeeEscrowProofs -------------------------
(***************************************************************************)
(* The escrow's safety, for any fees, covenants and windows, over any      *)
(* asset that may deliver short.                                           *)
(*                                                                         *)
(* EscrowInv is inductive: it adds to the manager's invariant that the     *)
(* running total is the sum of the funded fees, that the tokens of the     *)
(* asset are only ever lost, and that what the escrow holds covers its     *)
(* books, less what false orphan refunds took.  Each fee action is shown   *)
(* to move the five sums (tokens held, total, orphans, false refunds,      *)
(* supply) together, and BackingStep draws the conclusion once.            *)
(***************************************************************************)
EXTENDS PolicyFeeEscrow, CoverageManagerProofs

OnlyExecutedFees ==
    \A f \in FeeAuthorization : fees[f].state # "None" => f \in authorizationState

\* A fee is recorded as funded only when its tokens came in.
FundedArePaid ==
    \A f \in FeeAuthorization : fees[f].state \in {"Funded", "Captured"} => f \in paidIn

FundedRecords ==
    \A f \in FeeAuthorization : fees[f].state = "Funded" =>
        fees[f].amountAtomic = FeeAmount /\ fees[f].refundAvailableAt = refundAvailableAt(f)

\* Tokens are lost on a short delivery and never made.
SupplyBound == SumOver(Address, tokenBalance) <= TokenSupply

FeesInv ==
    /\ EscrowTypeOK
    /\ OnlyExecutedFees
    /\ FundedArePaid
    /\ FundedRecords
    /\ EscrowedIsSumOfFunded
    /\ SupplyBound
    /\ EveryFeeIsBacked
    /\ RefundAfterProviderWindow

EscrowInv == ManagerInv /\ FeesInv

-------------------------------------------------------------------------------
(* Tokens *)

(* The sum of the tokens falls by what a transfer delivers short. *)
LEMMA TokensMove ==
  ASSUME VaultAssumption, VaultTypeOK, NEW from \in Address, NEW to \in Address,
         NEW amount \in Nat, NEW delivered \in 0 .. amount,
         TokenTransfer(from, to, amount, delivered)
  PROVE  /\ tokenBalance' \in [Address -> Nat]
         /\ SumOver(Address, tokenBalance) \in Nat /\ SumOver(Address, tokenBalance') \in Nat
         /\ SumOver(Address, tokenBalance') = SumOver(Address, tokenBalance) - amount + delivered
         /\ \A a \in Address \ {from} : tokenBalance'[a] >= tokenBalance[a]
         /\ from # to => /\ tokenBalance'[from] = tokenBalance[from] - amount
                         /\ tokenBalance'[to] = tokenBalance[to] + delivered
                         /\ \A a \in Address \ {from, to} : tokenBalance'[a] = tokenBalance[a]
<1> DEFINE mid == [tokenBalance EXCEPT ![from] = @ - amount]
<1>1. tokenBalance \in [Address -> Nat] /\ amount <= tokenBalance[from] /\ IsFiniteSet(Address)
  BY DEF VaultTypeOK, TokenTransfer, VaultAssumption
<1>2. mid \in [Address -> Nat] /\ mid[from] = tokenBalance[from] - amount
      /\ \A a \in Address \ {from} : mid[a] = tokenBalance[a]
  BY <1>1
<1>3. /\ tokenBalance' \in [Address -> Nat]
      /\ tokenBalance'[to] = (IF from = to THEN tokenBalance[from] - amount
                                           ELSE tokenBalance[to]) + delivered
      /\ \A a \in Address \ {to} : tokenBalance'[a] =
            IF a = from THEN tokenBalance[from] - amount ELSE tokenBalance[a]
  BY <1>1 DEF TokenTransfer
<1> HIDE DEF mid
<1>4. tokenBalance' \in [Address -> Nat] /\ tokenBalance'[to] = mid[to] + delivered
      /\ \A a \in Address \ {to} : tokenBalance'[a] = mid[a]
  BY <1>2, <1>3
<1>5. /\ SumOver(Address, tokenBalance) \in Nat /\ SumOver(Address, mid) \in Nat
      /\ SumOver(Address, mid) = SumOver(Address, tokenBalance) - tokenBalance[from] + mid[from]
  BY <1>1, <1>2, SumOverChange
<1>6. /\ SumOver(Address, tokenBalance') \in Nat
      /\ SumOver(Address, tokenBalance') = SumOver(Address, mid) - mid[to] + tokenBalance'[to]
  <2>1. \A a \in Address : mid[a] \in Nat /\ tokenBalance'[a] \in Nat
    BY <1>2, <1>4
  <2> QED
    BY <1>1, <1>4, <2>1, SumOverChange
<1>7. SumOver(Address, tokenBalance') = SumOver(Address, tokenBalance) - amount + delivered
  BY <1>1, <1>2, <1>4, <1>5, <1>6
<1>8. \A a \in Address \ {from} : tokenBalance'[a] >= tokenBalance[a]
  BY <1>1, <1>2, <1>4
<1> QED
  BY <1>1, <1>2, <1>4, <1>5, <1>6, <1>7, <1>8

(* The escrow pays exactly, and no token is lost. *)
LEMMA EscrowPays ==
  ASSUME VaultAssumption, EscrowAssumption, VaultTypeOK,
         NEW to \in External \ {EscrowAddress}, NEW amount \in Nat, EscrowTransfer(to, amount)
  PROVE  /\ tokenBalance' \in [Address -> Nat]
         /\ tokenBalance'[VaultAddress] = tokenBalance[VaultAddress]
         /\ tokenBalance'[EscrowAddress] = tokenBalance[EscrowAddress] - amount
         /\ SumOver(Address, tokenBalance') = SumOver(Address, tokenBalance)
<1>1. /\ EscrowAddress \in Address /\ to \in Address /\ VaultAddress \in Address
      /\ VaultAddress # EscrowAddress /\ VaultAddress # to /\ EscrowAddress # to
  BY DEF EscrowAssumption, VaultAssumption, External
<1> PICK delivered \in 0 .. amount :
         /\ TokenTransfer(EscrowAddress, to, amount, delivered)
         /\ ReceivedExactly(to, amount)
  BY DEF EscrowTransfer
<1>2. tokenBalance'[to] = tokenBalance[to] + delivered
  BY <1>1, TokensMove
<1>3. tokenBalance[to] \in Nat
  BY <1>1 DEF VaultTypeOK
<1>4. delivered = amount
  BY <1>2, <1>3 DEF ReceivedExactly
<1> QED
  BY <1>1, <1>4, TokensMove

(* A buyer's authorization brings the escrow what the asset delivers of it. *)
LEMMA BuyerPays ==
  ASSUME VaultAssumption, EscrowAssumption, VaultTypeOK,
         NEW f \in FeeAuthorization, NEW delivered \in 0 .. FeeAmount,
         TransferWithAuthorization(f, delivered)
  PROVE  /\ tokenBalance' \in [Address -> Nat]
         /\ tokenBalance'[VaultAddress] = tokenBalance[VaultAddress]
         /\ tokenBalance'[EscrowAddress] = tokenBalance[EscrowAddress] + delivered
         /\ SumOver(Address, tokenBalance') =
              SumOver(Address, tokenBalance) - FeeAmount + delivered
<1>1. f.buyer \in External \ {EscrowAddress} /\ FeeAmount \in Nat
  BY DEF EscrowAssumption
<1>2. /\ EscrowAddress \in Address /\ f.buyer \in Address /\ VaultAddress \in Address
      /\ VaultAddress # EscrowAddress /\ VaultAddress # f.buyer /\ EscrowAddress # f.buyer
  BY <1>1 DEF EscrowAssumption, VaultAssumption, External
<1>3. TokenTransfer(f.buyer, EscrowAddress, FeeAmount, delivered)
  BY DEF TransferWithAuthorization
<1> QED
  BY <1>1, <1>2, <1>3, TokensMove

\* Tokens may be lost; the escrow is not left poorer.
FeesHeld ==
    /\ SumOver(Address, tokenBalance') <= SumOver(Address, tokenBalance)
    /\ tokenBalance'[EscrowAddress] >= tokenBalance[EscrowAddress]

(* A checked transfer out of the vault loses no token, and takes none of the escrow's. *)
LEMMA SafeTransferHolds ==
  ASSUME VaultAssumption, EscrowAssumption, VaultTypeOK, NEW to \in Address,
         NEW amount \in Nat, SafeTransfer(to, amount)
  PROVE  FeesHeld
<1> PICK delivered \in 0 .. amount : TokenTransfer(VaultAddress, to, amount, delivered)
  BY DEF SafeTransfer
<1>1. EscrowAddress \in Address \ {VaultAddress} /\ VaultAddress \in Address
  BY DEF EscrowAssumption, VaultAssumption, External
<1> QED
  BY <1>1, TokensMove DEF FeesHeld

(* Nothing the vault's users, its manager or the clock do takes from the escrow. *)
LEMMA VaultHoldsFees ==
  ASSUME VaultAssumption, EscrowAssumption, VaultTypeOK,
         \/ VaultUsersNext(External \ {EscrowAddress}, {ManagerAddress})
         \/ VaultManagerNext \/ Tick \/ UNCHANGED vaultVars
  PROVE  FeesHeld
<1>0. /\ EscrowAddress \in Address /\ VaultAddress \in Address
      /\ \A a \in Address : tokenBalance[a] \in Nat /\ IsFiniteSet(Address)
  BY DEF EscrowAssumption, VaultAssumption, External, VaultTypeOK
<1>1. ASSUME UNCHANGED tokenBalance
      PROVE  FeesHeld
  BY <1>0, <1>1, SumOverIsNat DEF FeesHeld
<1>2. ASSUME NEW a \in External \ {EscrowAddress}, NEW n \in Nat, NEW delivered \in 0 .. n,
             TokenTransfer(a, VaultAddress, n, delivered)
      PROVE  FeesHeld
  BY <1>0, <1>2, TokensMove DEF FeesHeld, External
<1>3. ASSUME NEW a \in External \ {EscrowAddress}, NEW n \in Amount,
             \/ DirectTransfer(a, n)
             \/ \E p \in Address : DepositFor(a, p, n)
      PROVE  FeesHeld
  BY <1>2, <1>3 DEF DirectTransfer, DepositFor, VaultAssumption
<1>4. ASSUME NEW p \in External \ {EscrowAddress}, ExecuteWithdrawal(p)
      PROVE  FeesHeld
  <2>1. p \in Address /\ accounts[p].queuedWithdrawal \in Nat
    BY DEF External, VaultTypeOK, BondAccount
  <2>2. SafeTransfer(p, accounts[p].queuedWithdrawal)
    BY <1>4 DEF ExecuteWithdrawal
  <2> QED
    BY <2>1, <2>2, SafeTransferHolds
<1>5. CASE VaultUsersNext(External \ {EscrowAddress}, {ManagerAddress})
  BY <1>1, <1>3, <1>4, <1>5
     DEF VaultUsersNext, TransferOwnership, AcceptOwnership, InitializeManager,
         RequestWithdrawal, CancelWithdrawal
<1>6. ASSUME NEW m \in External, NEW c \in Covenant, NEW r \in Address,
             NEW n \in 1 .. covenantLocks[c].amount, SlashBond(m, c, r, n)
      PROVE  FeesHeld
  <2>1. SafeTransfer(r, n)
    BY <1>6 DEF SlashBond
  <2> QED
    BY <2>1, SafeTransferHolds
<1>7. CASE VaultManagerNext
  BY <1>1, <1>6, <1>7 DEF VaultManagerNext, LockBond, ReleaseBond
<1>8. CASE Tick \/ UNCHANGED vaultVars
  BY <1>1, <1>8 DEF Tick, vaultVars
<1> QED
  BY <1>5, <1>7, <1>8

-------------------------------------------------------------------------------
(* The books *)

Escrowed == SumOver(FeeAuthorization, FundedAmounts)
Orphans == SumOver(FeeAuthorization, OrphanAmounts)
FalselyPaid == SumOver(FeeAuthorization, FalseRefunds)

FundedOf(r) == IF r.state = "Funded" THEN r.amountAtomic ELSE 0
OrphanOf(f, r, paid) == IF f \in paid /\ r.state = "None" THEN FeeAmount ELSE 0
FalseOf(f, r, paid) == IF r.state = "Refunded" /\ f \notin paid THEN FeeAmount ELSE 0

(* The sums of the funded fees, the orphans and the false refunds are numbers, and no *)
(* fee exceeds its sum.                                                               *)
LEMMA BooksAreNat ==
  ASSUME EscrowAssumption, EscrowTypeOK
  PROVE  /\ Escrowed \in Nat /\ Orphans \in Nat /\ FalselyPaid \in Nat
         /\ \A f \in FeeAuthorization : FundedOf(fees[f]) <= Escrowed
<1>1. IsFiniteSet(FeeAuthorization)
  BY DEF EscrowAssumption
<1>2. \A f \in FeeAuthorization :
         /\ FundedAmounts[f] \in Nat /\ OrphanAmounts[f] \in Nat /\ FalseRefunds[f] \in Nat
         /\ FundedAmounts[f] = FundedOf(fees[f])
  BY DEF EscrowTypeOK, FeeRecord, FundedAmounts, OrphanAmounts, FalseRefunds,
     EscrowAssumption, FundedOf
<1>3. Escrowed \in Nat /\ Orphans \in Nat /\ FalselyPaid \in Nat
  BY <1>1, <1>2, SumOverIsNat DEF Escrowed, Orphans, FalselyPaid
<1>4. \A f \in FeeAuthorization : FundedAmounts[f] <= Escrowed
  BY <1>1, <1>2, SumOverEntry DEF Escrowed
<1> QED
  BY <1>2, <1>3, <1>4

(* One fee's new record moves the three sums by that fee alone. *)
LEMMA BooksMove ==
  ASSUME EscrowAssumption, EscrowTypeOK, NEW f \in FeeAuthorization, NEW r \in FeeRecord,
         fees' = [fees EXCEPT ![f] = r], paidIn' = paidIn \/ paidIn' = paidIn \cup {f}
  PROVE  /\ Escrowed' \in Nat /\ Orphans' \in Nat /\ FalselyPaid' \in Nat
         /\ Escrowed' = Escrowed - FundedOf(fees[f]) + FundedOf(r)
         /\ Orphans' = Orphans - OrphanOf(f, fees[f], paidIn) + OrphanOf(f, r, paidIn')
         /\ FalselyPaid' = FalselyPaid - FalseOf(f, fees[f], paidIn) + FalseOf(f, r, paidIn')
<1>1. IsFiniteSet(FeeAuthorization) /\ FeeAmount \in Nat
  BY DEF EscrowAssumption
<1>2. fees \in [FeeAuthorization -> FeeRecord] /\ fees' \in [FeeAuthorization -> FeeRecord]
  BY DEF EscrowTypeOK
<1>3. fees'[f] = r /\ \A g \in FeeAuthorization \ {f} : fees'[g] = fees[g]
  BY DEF EscrowTypeOK
<1>4. /\ \A g \in FeeAuthorization : FundedAmounts[g] \in Nat /\ FundedAmounts'[g] \in Nat
      /\ \A g \in FeeAuthorization \ {f} : FundedAmounts'[g] = FundedAmounts[g]
      /\ FundedAmounts[f] = FundedOf(fees[f]) /\ FundedAmounts'[f] = FundedOf(r)
  BY <1>2, <1>3 DEF FeeRecord, FundedAmounts, FundedOf
<1>5. /\ \A g \in FeeAuthorization : OrphanAmounts[g] \in Nat /\ OrphanAmounts'[g] \in Nat
      /\ \A g \in FeeAuthorization \ {f} : OrphanAmounts'[g] = OrphanAmounts[g]
      /\ OrphanAmounts[f] = OrphanOf(f, fees[f], paidIn)
      /\ OrphanAmounts'[f] = OrphanOf(f, r, paidIn')
  BY <1>1, <1>3 DEF OrphanAmounts, OrphanOf, Orphan
<1>8. /\ \A g \in FeeAuthorization : FalseRefunds[g] \in Nat /\ FalseRefunds'[g] \in Nat
      /\ \A g \in FeeAuthorization \ {f} : FalseRefunds'[g] = FalseRefunds[g]
      /\ FalseRefunds[f] = FalseOf(f, fees[f], paidIn)
      /\ FalseRefunds'[f] = FalseOf(f, r, paidIn')
  BY <1>1, <1>3 DEF FalseRefunds, FalseOf, FalselyRefunded
<1>6. /\ Escrowed' \in Nat /\ Escrowed' = Escrowed - FundedAmounts[f] + FundedAmounts'[f]
  BY <1>1, <1>4, SumOverChange DEF Escrowed
<1>7. /\ Orphans' \in Nat /\ Orphans' = Orphans - OrphanAmounts[f] + OrphanAmounts'[f]
  BY <1>1, <1>5, SumOverChange DEF Orphans
<1>9. /\ FalselyPaid' \in Nat
      /\ FalselyPaid' = FalselyPaid - FalseRefunds[f] + FalseRefunds'[f]
  BY <1>1, <1>8, SumOverChange DEF FalselyPaid
<1> QED
  BY <1>2, <1>4, <1>5, <1>6, <1>7, <1>8, <1>9

(* When the total follows the sum, no token is made, and the escrow stays in credit *)
(* by as much as no token is lost, its fees stay backed.                            *)
LEMMA BackingStep ==
  ASSUME VaultAssumption, EscrowAssumption, VaultTypeOK, FeesInv, tokenBalance' \in [Address -> Nat],
         totalEscrowedAtomic' = Escrowed', Escrowed' \in Nat, Orphans' \in Nat, FalselyPaid' \in Nat,
         SumOver(Address, tokenBalance') <= SumOver(Address, tokenBalance),
         totalEscrowedAtomic' <= tokenBalance'[EscrowAddress],
         SumOver(Address, tokenBalance') = SumOver(Address, tokenBalance) =>
            tokenBalance'[EscrowAddress] - totalEscrowedAtomic' - Orphans' + FalselyPaid'
              >= tokenBalance[EscrowAddress] - totalEscrowedAtomic - Orphans + FalselyPaid
  PROVE  EscrowedIsSumOfFunded' /\ SupplyBound' /\ EveryFeeIsBacked'
<1>1. /\ EscrowAddress \in Address /\ IsFiniteSet(Address) /\ TokenSupply \in Nat
      /\ tokenBalance \in [Address -> Nat]
  BY DEF EscrowAssumption, VaultAssumption, VaultTypeOK, External
<1>2. /\ SumOver(Address, tokenBalance) \in Nat /\ SumOver(Address, tokenBalance') \in Nat
      /\ tokenBalance[EscrowAddress] \in Nat /\ tokenBalance'[EscrowAddress] \in Nat
      /\ totalEscrowedAtomic \in Nat /\ totalEscrowedAtomic' \in Nat
      /\ Orphans \in Nat /\ FalselyPaid \in Nat
  BY <1>1, SumOverIsNat, BooksAreNat DEF FeesInv, EscrowTypeOK
<1>3. SumOver(Address, tokenBalance) <= TokenSupply
  BY DEF FeesInv, SupplyBound
<1>4. SupplyBound'
  BY <1>1, <1>2, <1>3 DEF SupplyBound
<1>5. EscrowedIsSumOfFunded'
  BY DEF EscrowedIsSumOfFunded, Escrowed
<1>6. AllDelivered =>
         tokenBalance[EscrowAddress] + FalselyPaid >= totalEscrowedAtomic + Orphans
  BY DEF FeesInv, EveryFeeIsBacked, Orphans, FalselyPaid
<1>7. ASSUME AllDelivered'
      PROVE  tokenBalance'[EscrowAddress] + FalselyPaid' >= totalEscrowedAtomic' + Orphans'
  <2>1. SumOver(Address, tokenBalance') = TokenSupply
    BY <1>7 DEF AllDelivered
  <2>2. SumOver(Address, tokenBalance) = TokenSupply
    BY <1>1, <1>2, <1>3, <2>1
  <2>3. tokenBalance[EscrowAddress] + FalselyPaid >= totalEscrowedAtomic + Orphans
    BY <1>6, <2>2 DEF AllDelivered
  <2> QED
    BY <1>2, <2>1, <2>2, <2>3
<1>8. EveryFeeIsBacked'
  BY <1>7 DEF EveryFeeIsBacked, Orphans, FalselyPaid
<1> QED
  BY <1>4, <1>5, <1>8

-------------------------------------------------------------------------------
(* The fee actions *)

\* A fee action: what it does to the fee's record, and to nothing of the manager's.
MovesFee(f, r) ==
    /\ fees' = [fees EXCEPT ![f] = r]
    /\ r \in FeeRecord
    /\ authorizationState' \in {authorizationState, authorizationState \cup {f}}
    /\ paidIn' \in {paidIn, paidIn \cup {f}} /\ paidIn' \subseteq authorizationState'
    /\ r.state # "None" => f \in authorizationState'
    /\ r.state \in {"Funded", "Captured"} => f \in paidIn'
    /\ r.state = "Funded" =>
          r.amountAtomic = FeeAmount /\ r.refundAvailableAt = refundAvailableAt(f)
    /\ r.state = "Refunded" => now >= refundAvailableAt(f)
    /\ escrowEvidence' \subseteq {"CAPTURE", "ORPHANED_REFUND"} \X FeeAuthorization

(* Refunds open only after both authorizations have closed. *)
LEMMA RefundTimes ==
  ASSUME EscrowAssumption, NEW f \in FeeAuthorization
  PROVE  /\ refundAvailableAt(f) \in Nat
         /\ f.validBefore \in Nat /\ f.providerValidBefore \in Nat
         /\ refundAvailableAt(f) >= f.validBefore /\ refundAvailableAt(f) >= f.providerValidBefore
<1>1. f.validBefore \in Nat /\ f.providerValidBefore \in Nat /\ RefundGrace \in Nat
  BY DEF EscrowAssumption
<1> QED
  BY <1>1 DEF refundAvailableAt

(* A fee action keeps what is said of each record. *)
LEMMA RecordsStep ==
  ASSUME EscrowAssumption, VaultTypeOK, FeesInv, NEW f \in FeeAuthorization, NEW r,
         MovesFee(f, r), totalEscrowedAtomic' \in Nat, now' = now
  PROVE  /\ EscrowTypeOK' /\ OnlyExecutedFees' /\ FundedArePaid' /\ FundedRecords'
         /\ RefundAfterProviderWindow'
<1>1. fees \in [FeeAuthorization -> FeeRecord] /\ authorizationState \subseteq FeeAuthorization
  BY DEF FeesInv, EscrowTypeOK
<1>2. fees'[f] = r /\ \A g \in FeeAuthorization \ {f} : fees'[g] = fees[g]
  BY <1>1 DEF MovesFee
<1>3. /\ authorizationState \subseteq authorizationState' /\ authorizationState' \subseteq FeeAuthorization
      /\ paidIn \subseteq paidIn' /\ paidIn' \subseteq authorizationState'
  BY <1>1 DEF MovesFee
<1>4. EscrowTypeOK'
  BY <1>1, <1>3 DEF MovesFee, EscrowTypeOK
<1>5. OnlyExecutedFees' /\ FundedArePaid'
  BY <1>2, <1>3 DEF MovesFee, FeesInv, OnlyExecutedFees, FundedArePaid
<1>6. FundedRecords'
  BY <1>2 DEF MovesFee, FeesInv, FundedRecords, refundAvailableAt
<1>7. RefundAfterProviderWindow'
  <2>1. ASSUME r.state = "Refunded"
        PROVE  now >= f.validBefore /\ now >= f.providerValidBefore
    <3>1. now \in Nat /\ now >= refundAvailableAt(f)
      BY <2>1 DEF VaultTypeOK, MovesFee
    <3> QED
      BY <3>1, RefundTimes
  <2> QED
    BY <1>2, <2>1 DEF FeesInv, RefundAfterProviderWindow
<1> QED
  BY <1>4, <1>5, <1>6, <1>7

\* A fee action keeps the fees' invariant and the vault's tokens.
FeesKept ==
    /\ FeesInv'
    /\ tokenBalance' \in [Address -> Nat]
    /\ tokenBalance'[VaultAddress] = tokenBalance[VaultAddress]

(* What the escrow holds and counts are numbers. *)
LEMMA EscrowHolds ==
  ASSUME VaultAssumption, EscrowAssumption, VaultTypeOK, FeesInv
  PROVE  /\ tokenBalance[EscrowAddress] \in Nat /\ totalEscrowedAtomic \in Nat
         /\ FeeAmount \in Nat /\ FeeAmount > 0 /\ now \in Nat
         /\ Escrowed \in Nat /\ Orphans \in Nat /\ FalselyPaid \in Nat
         /\ totalEscrowedAtomic = Escrowed
         /\ totalEscrowedAtomic <= tokenBalance[EscrowAddress]
         /\ SumOver(Address, tokenBalance) \in Nat
<1>1. EscrowAddress \in Address /\ IsFiniteSet(Address) /\ \A a \in Address : tokenBalance[a] \in Nat
  BY DEF EscrowAssumption, External, VaultAssumption, VaultTypeOK
<1>2. SumOver(Address, tokenBalance) \in Nat
  BY <1>1, SumOverIsNat
<1>3. Escrowed \in Nat /\ Orphans \in Nat /\ FalselyPaid \in Nat
  BY BooksAreNat DEF FeesInv
<1> QED
  BY <1>1, <1>2, <1>3 DEF EscrowAssumption, VaultTypeOK, FeesInv, EscrowTypeOK,
     EscrowedIsSumOfFunded, EveryFeeIsBacked, Escrowed

(* A fee that is not yet recorded comes in through the escrow's books. *)
LEMMA FundKeeps ==
  ASSUME VaultAssumption, EscrowAssumption, VaultTypeOK, FeesInv,
         NEW f \in FeeAuthorization, Fund(f), now' = now
  PROVE  FeesKept
<1> DEFINE r == [state |-> "Funded", amountAtomic |-> FeeAmount,
                 fundedAt |-> now, refundAvailableAt |-> refundAvailableAt(f)]
<1> PICK delivered \in 0 .. FeeAmount :
         TransferWithAuthorization(f, delivered) /\ ReceivedExactly(EscrowAddress, FeeAmount)
  BY DEF Fund
<1>1. /\ f \notin authorizationState /\ authorizationState' = authorizationState \cup {f}
      /\ paidIn' = paidIn \cup {f} /\ paidIn \subseteq authorizationState
      /\ fees[f].state = "None" /\ fees' = [fees EXCEPT ![f] = r]
      /\ totalEscrowedAtomic' = totalEscrowedAtomic + FeeAmount /\ UNCHANGED escrowEvidence
  BY DEF Fund, TransferWithAuthorization, FeesInv, EscrowTypeOK
<1>2. /\ tokenBalance[EscrowAddress] \in Nat /\ totalEscrowedAtomic \in Nat
      /\ FeeAmount \in Nat /\ now \in Nat /\ Escrowed \in Nat /\ Orphans \in Nat /\ FalselyPaid \in Nat
      /\ totalEscrowedAtomic = Escrowed /\ totalEscrowedAtomic <= tokenBalance[EscrowAddress]
      /\ SumOver(Address, tokenBalance) \in Nat
  BY EscrowHolds
<1>3. r \in FeeRecord /\ r.state = "Funded" /\ r.amountAtomic = FeeAmount
      /\ r.refundAvailableAt = refundAvailableAt(f)
  BY <1>2, RefundTimes DEF FeeRecord
<1> HIDE DEF r
<1>4. MovesFee(f, r)
  BY <1>1, <1>3 DEF MovesFee, FeesInv, EscrowTypeOK
<1>5. /\ EscrowTypeOK' /\ OnlyExecutedFees' /\ FundedArePaid' /\ FundedRecords'
      /\ RefundAfterProviderWindow'
  BY <1>1, <1>2, <1>4, RecordsStep
<1>6. /\ Escrowed' \in Nat /\ Orphans' \in Nat /\ FalselyPaid' \in Nat
      /\ Escrowed' = Escrowed + FeeAmount /\ Orphans' = Orphans /\ FalselyPaid' = FalselyPaid
  <2>1. /\ Escrowed' \in Nat /\ Orphans' \in Nat /\ FalselyPaid' \in Nat
        /\ Escrowed' = Escrowed - FundedOf(fees[f]) + FundedOf(r)
        /\ Orphans' = Orphans - OrphanOf(f, fees[f], paidIn) + OrphanOf(f, r, paidIn')
        /\ FalselyPaid' = FalselyPaid - FalseOf(f, fees[f], paidIn) + FalseOf(f, r, paidIn')
    BY <1>1, <1>3, BooksMove DEF FeesInv
  <2>2. /\ FundedOf(fees[f]) = 0 /\ FundedOf(r) = FeeAmount
        /\ OrphanOf(f, fees[f], paidIn) = 0 /\ OrphanOf(f, r, paidIn') = 0
        /\ FalseOf(f, fees[f], paidIn) = 0 /\ FalseOf(f, r, paidIn') = 0
    BY <1>1, <1>3 DEF FundedOf, OrphanOf, FalseOf
  <2> QED
    BY <1>2, <2>1, <2>2
<1>7. /\ tokenBalance' \in [Address -> Nat]
      /\ tokenBalance'[VaultAddress] = tokenBalance[VaultAddress]
      /\ tokenBalance'[EscrowAddress] = tokenBalance[EscrowAddress] + delivered
      /\ SumOver(Address, tokenBalance') = SumOver(Address, tokenBalance) - FeeAmount + delivered
  BY BuyerPays
<1>8. delivered = FeeAmount
  BY <1>2, <1>7 DEF ReceivedExactly
<1>9. EscrowedIsSumOfFunded' /\ SupplyBound' /\ EveryFeeIsBacked'
  BY <1>1, <1>2, <1>6, <1>7, <1>8, BackingStep
<1> QED
  BY <1>5, <1>7, <1>9 DEF FeesKept, FeesInv

(* A funded fee leaves, to the treasury or to the buyer, with its amount. *)
LEMMA FundedLeaves ==
  ASSUME VaultAssumption, EscrowAssumption, VaultTypeOK, FeesInv, now' = now,
         NEW f \in FeeAuthorization, NEW r \in FeeRecord, NEW to \in External \ {EscrowAddress},
         fees[f].state = "Funded", MovesFee(f, r), r.state \in {"Captured", "Refunded"},
         authorizationState' = authorizationState, paidIn' = paidIn,
         totalEscrowedAtomic' = totalAfter(f), EscrowTransfer(to, fees[f].amountAtomic)
  PROVE  FeesKept
<1>1. /\ tokenBalance[EscrowAddress] \in Nat /\ totalEscrowedAtomic \in Nat
      /\ FeeAmount \in Nat /\ now \in Nat /\ Escrowed \in Nat /\ Orphans \in Nat /\ FalselyPaid \in Nat
      /\ totalEscrowedAtomic = Escrowed /\ totalEscrowedAtomic <= tokenBalance[EscrowAddress]
      /\ SumOver(Address, tokenBalance) \in Nat
  BY EscrowHolds
<1>2. fees[f].amountAtomic = FeeAmount
  BY DEF FeesInv, FundedRecords
<1>3. FundedOf(fees[f]) = FeeAmount /\ FundedOf(fees[f]) <= Escrowed
  BY <1>2, BooksAreNat DEF FeesInv, FundedOf
<1>4. totalEscrowedAtomic' = totalEscrowedAtomic - FeeAmount /\ totalEscrowedAtomic' \in Nat
  BY <1>1, <1>2, <1>3 DEF totalAfter
<1>5. /\ EscrowTypeOK' /\ OnlyExecutedFees' /\ FundedArePaid' /\ FundedRecords'
      /\ RefundAfterProviderWindow'
  BY <1>4, RecordsStep
<1>6. /\ Escrowed' \in Nat /\ Orphans' \in Nat /\ FalselyPaid' \in Nat
      /\ Escrowed' = Escrowed - FeeAmount /\ Orphans' = Orphans /\ FalselyPaid' = FalselyPaid
  <2>1. /\ Escrowed' \in Nat /\ Orphans' \in Nat /\ FalselyPaid' \in Nat
        /\ Escrowed' = Escrowed - FundedOf(fees[f]) + FundedOf(r)
        /\ Orphans' = Orphans - OrphanOf(f, fees[f], paidIn) + OrphanOf(f, r, paidIn')
        /\ FalselyPaid' = FalselyPaid - FalseOf(f, fees[f], paidIn) + FalseOf(f, r, paidIn')
    BY BooksMove DEF FeesInv, MovesFee
  <2>2. f \in paidIn
    BY DEF FeesInv, FundedArePaid
  <2>3. /\ FundedOf(r) = 0
        /\ OrphanOf(f, fees[f], paidIn) = 0 /\ OrphanOf(f, r, paidIn') = 0
        /\ FalseOf(f, fees[f], paidIn) = 0 /\ FalseOf(f, r, paidIn') = 0
    BY <2>2 DEF FundedOf, OrphanOf, FalseOf
  <2> QED
    BY <1>1, <1>3, <2>1, <2>3
<1>7. /\ tokenBalance' \in [Address -> Nat]
      /\ tokenBalance'[VaultAddress] = tokenBalance[VaultAddress]
      /\ tokenBalance'[EscrowAddress] = tokenBalance[EscrowAddress] - FeeAmount
      /\ SumOver(Address, tokenBalance') = SumOver(Address, tokenBalance)
  BY <1>1, <1>2, EscrowPays
<1>8. EscrowedIsSumOfFunded' /\ SupplyBound' /\ EveryFeeIsBacked'
  BY <1>1, <1>4, <1>6, <1>7, BackingStep
<1> QED
  BY <1>5, <1>7, <1>8 DEF FeesKept, FeesInv

(* A capture pays the treasury. *)
LEMMA CaptureKeeps ==
  ASSUME VaultAssumption, EscrowAssumption, VaultTypeOK, FeesInv, now' = now,
         NEW f \in FeeAuthorization, NEW t, Capture(f, t)
  PROVE  FeesKept
<1> DEFINE r == [fees[f] EXCEPT !.state = "Captured"]
<1>1. /\ fees \in [FeeAuthorization -> FeeRecord] /\ fees[f].state = "Funded"
      /\ f \in paidIn /\ paidIn \subseteq authorizationState
  BY DEF Capture, FeesInv, EscrowTypeOK, FundedArePaid
<1>2. fees' = [fees EXCEPT ![f] = r] /\ r \in FeeRecord /\ r.state = "Captured"
  BY <1>1 DEF Capture, FeeRecord
<1>3. escrowEvidence' = escrowEvidence \cup {<<"CAPTURE", f>>}
  BY DEF Capture, ConsumeEscrowEvidence
<1>4. escrowEvidence' \subseteq {"CAPTURE", "ORPHANED_REFUND"} \X FeeAuthorization
  BY <1>3 DEF FeesInv, EscrowTypeOK
<1> HIDE DEF r
<1>5. /\ authorizationState' = authorizationState /\ paidIn' = paidIn
      /\ totalEscrowedAtomic' = totalAfter(f)
      /\ EscrowTransfer(Treasury, fees[f].amountAtomic)
  BY DEF Capture
<1>6. MovesFee(f, r)
  BY <1>1, <1>2, <1>4, <1>5 DEF MovesFee
<1>7. Treasury \in External \ {EscrowAddress}
  BY DEF EscrowAssumption
<1> QED
  BY <1>1, <1>2, <1>5, <1>6, <1>7, FundedLeaves

(* A refund pays the buyer, no sooner than both authorizations have closed. *)
LEMMA RefundKeeps ==
  ASSUME VaultAssumption, EscrowAssumption, VaultTypeOK, FeesInv, now' = now,
         NEW f \in FeeAuthorization, Refund(f)
  PROVE  FeesKept
<1> DEFINE r == [fees[f] EXCEPT !.state = "Refunded"]
<1>1. /\ fees \in [FeeAuthorization -> FeeRecord] /\ fees[f].state = "Funded"
      /\ f \in paidIn /\ paidIn \subseteq authorizationState
  BY DEF Refund, FeesInv, EscrowTypeOK, FundedArePaid
<1>2. fees' = [fees EXCEPT ![f] = r] /\ r \in FeeRecord /\ r.state = "Refunded"
  BY <1>1 DEF Refund, FeeRecord
<1>3. now >= refundAvailableAt(f)
  BY <1>1 DEF Refund, FeesInv, FundedRecords
<1> HIDE DEF r
<1>4. /\ authorizationState' = authorizationState /\ paidIn' = paidIn
      /\ totalEscrowedAtomic' = totalAfter(f)
      /\ EscrowTransfer(f.buyer, fees[f].amountAtomic) /\ escrowEvidence' = escrowEvidence
  BY DEF Refund
<1>5. MovesFee(f, r)
  BY <1>1, <1>2, <1>3, <1>4 DEF MovesFee, FeesInv, EscrowTypeOK
<1>6. f.buyer \in External \ {EscrowAddress}
  BY DEF EscrowAssumption
<1> QED
  BY <1>1, <1>2, <1>4, <1>5, <1>6, FundedLeaves

(* An orphan goes back to its buyer out of what the books do not need. *)
LEMMA RefundOrphanedKeeps ==
  ASSUME VaultAssumption, EscrowAssumption, VaultTypeOK, FeesInv, now' = now,
         NEW f \in FeeAuthorization, NEW t, RefundOrphaned(f, t)
  PROVE  FeesKept
<1> DEFINE r == [state |-> "Refunded", amountAtomic |-> FeeAmount,
                 fundedAt |-> 0, refundAvailableAt |-> refundAvailableAt(f)]
<1>1. /\ fees[f].state = "None" /\ f \in authorizationState /\ now >= refundAvailableAt(f)
      /\ tokenBalance[EscrowAddress] - totalEscrowedAtomic >= FeeAmount
      /\ fees' = [fees EXCEPT ![f] = r] /\ EscrowTransfer(f.buyer, FeeAmount)
      /\ totalEscrowedAtomic' = totalEscrowedAtomic
      /\ authorizationState' = authorizationState /\ paidIn' = paidIn
      /\ paidIn \subseteq authorizationState
      /\ escrowEvidence' = escrowEvidence \cup {<<"ORPHANED_REFUND", f>>}
  BY DEF RefundOrphaned, Orphaned, Unaccounted, ConsumeEscrowEvidence, FeesInv, EscrowTypeOK
<1>2. /\ tokenBalance[EscrowAddress] \in Nat /\ totalEscrowedAtomic \in Nat
      /\ FeeAmount \in Nat /\ now \in Nat /\ Escrowed \in Nat /\ Orphans \in Nat /\ FalselyPaid \in Nat
      /\ totalEscrowedAtomic = Escrowed /\ totalEscrowedAtomic <= tokenBalance[EscrowAddress]
      /\ SumOver(Address, tokenBalance) \in Nat
  BY EscrowHolds
<1>3. r \in FeeRecord /\ r.state = "Refunded"
  BY <1>2, RefundTimes DEF FeeRecord
<1> HIDE DEF r
<1>4. escrowEvidence' \subseteq {"CAPTURE", "ORPHANED_REFUND"} \X FeeAuthorization
  BY <1>1 DEF FeesInv, EscrowTypeOK
<1>5. MovesFee(f, r)
  BY <1>1, <1>3, <1>4 DEF MovesFee
<1>6. /\ EscrowTypeOK' /\ OnlyExecutedFees' /\ FundedArePaid' /\ FundedRecords'
      /\ RefundAfterProviderWindow'
  BY <1>1, <1>2, <1>5, RecordsStep
<1>7. /\ Escrowed' \in Nat /\ Orphans' \in Nat /\ FalselyPaid' \in Nat
      /\ Escrowed' = Escrowed
      /\ \/ Orphans' = Orphans - FeeAmount /\ FalselyPaid' = FalselyPaid
         \/ Orphans' = Orphans /\ FalselyPaid' = FalselyPaid + FeeAmount
  <2>1. /\ Escrowed' \in Nat /\ Orphans' \in Nat /\ FalselyPaid' \in Nat
        /\ Escrowed' = Escrowed - FundedOf(fees[f]) + FundedOf(r)
        /\ Orphans' = Orphans - OrphanOf(f, fees[f], paidIn) + OrphanOf(f, r, paidIn')
        /\ FalselyPaid' = FalselyPaid - FalseOf(f, fees[f], paidIn) + FalseOf(f, r, paidIn')
    BY <1>1, <1>3, BooksMove DEF FeesInv
  <2>2. /\ FundedOf(fees[f]) = 0 /\ FundedOf(r) = 0
        /\ OrphanOf(f, r, paidIn') = 0 /\ FalseOf(f, fees[f], paidIn) = 0
    BY <1>1, <1>3 DEF FundedOf, OrphanOf, FalseOf
  <2>3. CASE f \in paidIn
    <3>1. OrphanOf(f, fees[f], paidIn) = FeeAmount /\ FalseOf(f, r, paidIn') = 0
      BY <1>1, <2>3 DEF OrphanOf, FalseOf
    <3> QED
      BY <1>2, <2>1, <2>2, <3>1
  <2>4. CASE f \notin paidIn
    <3>1. OrphanOf(f, fees[f], paidIn) = 0 /\ FalseOf(f, r, paidIn') = FeeAmount
      BY <1>1, <1>3, <2>4 DEF OrphanOf, FalseOf
    <3> QED
      BY <1>2, <2>1, <2>2, <3>1
  <2> QED
    BY <2>3, <2>4
<1>8. /\ tokenBalance' \in [Address -> Nat]
      /\ tokenBalance'[VaultAddress] = tokenBalance[VaultAddress]
      /\ tokenBalance'[EscrowAddress] = tokenBalance[EscrowAddress] - FeeAmount
      /\ SumOver(Address, tokenBalance') = SumOver(Address, tokenBalance)
  <2>1. f.buyer \in External \ {EscrowAddress}
    BY DEF EscrowAssumption
  <2> QED
    BY <1>1, <1>2, <2>1, EscrowPays
<1>9. EscrowedIsSumOfFunded' /\ SupplyBound' /\ EveryFeeIsBacked'
  BY <1>1, <1>2, <1>7, <1>8, BackingStep
<1> QED
  BY <1>6, <1>8, <1>9 DEF FeesKept, FeesInv

(* A direct payment is an orphan, and what it falls short of is lost. *)
LEMMA PayDirectlyKeeps ==
  ASSUME VaultAssumption, EscrowAssumption, VaultTypeOK, FeesInv, now' = now,
         NEW f \in FeeAuthorization, PayDirectly(f)
  PROVE  FeesKept
<1> DEFINE r == fees[f]
<1> PICK delivered \in 0 .. FeeAmount : TransferWithAuthorization(f, delivered)
  BY DEF PayDirectly
<1>1. /\ f \notin authorizationState /\ authorizationState' = authorizationState \cup {f}
      /\ paidIn' = paidIn \cup {f} /\ paidIn \subseteq authorizationState
      /\ fees' = fees /\ totalEscrowedAtomic' = totalEscrowedAtomic
      /\ escrowEvidence' = escrowEvidence
  BY DEF PayDirectly, TransferWithAuthorization, FeesInv, EscrowTypeOK
<1>2. /\ tokenBalance[EscrowAddress] \in Nat /\ totalEscrowedAtomic \in Nat
      /\ FeeAmount \in Nat /\ now \in Nat /\ Escrowed \in Nat /\ Orphans \in Nat /\ FalselyPaid \in Nat
      /\ totalEscrowedAtomic = Escrowed /\ totalEscrowedAtomic <= tokenBalance[EscrowAddress]
      /\ SumOver(Address, tokenBalance) \in Nat
  BY EscrowHolds
<1>3. /\ r \in FeeRecord /\ r.state = "None" /\ fees' = [fees EXCEPT ![f] = r]
  BY <1>1 DEF FeesInv, EscrowTypeOK, OnlyExecutedFees
<1> HIDE DEF r
<1>4. MovesFee(f, r)
  BY <1>1, <1>3 DEF MovesFee, FeesInv, EscrowTypeOK
<1>5. /\ EscrowTypeOK' /\ OnlyExecutedFees' /\ FundedArePaid' /\ FundedRecords'
      /\ RefundAfterProviderWindow'
  BY <1>1, <1>2, <1>4, RecordsStep
<1>6. /\ Escrowed' \in Nat /\ Orphans' \in Nat /\ FalselyPaid' \in Nat
      /\ Escrowed' = Escrowed /\ Orphans' = Orphans + FeeAmount /\ FalselyPaid' = FalselyPaid
  <2>1. /\ Escrowed' \in Nat /\ Orphans' \in Nat /\ FalselyPaid' \in Nat
        /\ Escrowed' = Escrowed - FundedOf(fees[f]) + FundedOf(r)
        /\ Orphans' = Orphans - OrphanOf(f, fees[f], paidIn) + OrphanOf(f, r, paidIn')
        /\ FalselyPaid' = FalselyPaid - FalseOf(f, fees[f], paidIn) + FalseOf(f, r, paidIn')
    BY <1>1, <1>3, BooksMove DEF FeesInv
  <2>2. /\ FundedOf(fees[f]) = 0 /\ FundedOf(r) = 0
        /\ OrphanOf(f, fees[f], paidIn) = 0 /\ OrphanOf(f, r, paidIn') = FeeAmount
        /\ FalseOf(f, fees[f], paidIn) = 0 /\ FalseOf(f, r, paidIn') = 0
    BY <1>1, <1>3 DEF FundedOf, OrphanOf, FalseOf, r
  <2> QED
    BY <1>2, <2>1, <2>2
<1>7. /\ tokenBalance' \in [Address -> Nat]
      /\ tokenBalance'[VaultAddress] = tokenBalance[VaultAddress]
      /\ tokenBalance'[EscrowAddress] = tokenBalance[EscrowAddress] + delivered
      /\ SumOver(Address, tokenBalance') = SumOver(Address, tokenBalance) - FeeAmount + delivered
  BY BuyerPays
<1>8. EscrowedIsSumOfFunded' /\ SupplyBound' /\ EveryFeeIsBacked'
  BY <1>1, <1>2, <1>6, <1>7, BackingStep
<1> QED
  BY <1>5, <1>7, <1>8 DEF FeesKept, FeesInv

(* A used-up authorization is nobody's fee. *)
LEMMA ConsumeWithoutTransferKeeps ==
  ASSUME VaultAssumption, EscrowAssumption, VaultTypeOK, FeesInv, now' = now,
         NEW f \in FeeAuthorization, ConsumeWithoutTransfer(f)
  PROVE  FeesKept
<1> DEFINE r == fees[f]
<1>1. /\ f \notin authorizationState /\ authorizationState' = authorizationState \cup {f}
      /\ paidIn' = paidIn /\ paidIn \subseteq authorizationState
      /\ fees' = fees /\ totalEscrowedAtomic' = totalEscrowedAtomic
      /\ escrowEvidence' = escrowEvidence /\ tokenBalance' = tokenBalance
  BY DEF ConsumeWithoutTransfer, FeesInv, EscrowTypeOK
<1>2. /\ tokenBalance[EscrowAddress] \in Nat /\ totalEscrowedAtomic \in Nat
      /\ Escrowed \in Nat /\ Orphans \in Nat /\ FalselyPaid \in Nat
      /\ totalEscrowedAtomic = Escrowed /\ totalEscrowedAtomic <= tokenBalance[EscrowAddress]
      /\ SumOver(Address, tokenBalance) \in Nat
  BY EscrowHolds
<1>3. /\ r \in FeeRecord /\ r.state = "None" /\ fees' = [fees EXCEPT ![f] = r]
  BY <1>1 DEF FeesInv, EscrowTypeOK, OnlyExecutedFees
<1> HIDE DEF r
<1>4. MovesFee(f, r)
  BY <1>1, <1>3 DEF MovesFee, FeesInv, EscrowTypeOK
<1>5. /\ EscrowTypeOK' /\ OnlyExecutedFees' /\ FundedArePaid' /\ FundedRecords'
      /\ RefundAfterProviderWindow'
  BY <1>1, <1>2, <1>4, RecordsStep
<1>6. Escrowed' = Escrowed /\ Orphans' = Orphans /\ FalselyPaid' = FalselyPaid
  BY <1>1 DEF Escrowed, Orphans, FalselyPaid, FundedAmounts, OrphanAmounts, FalseRefunds,
     Orphan, FalselyRefunded
<1>7. tokenBalance' \in [Address -> Nat]
  BY <1>1 DEF VaultTypeOK
<1>8. EscrowedIsSumOfFunded' /\ SupplyBound' /\ EveryFeeIsBacked'
  BY <1>1, <1>2, <1>6, <1>7, BackingStep
<1> QED
  BY <1>1, <1>5, <1>7, <1>8 DEF FeesKept, FeesInv

-------------------------------------------------------------------------------
(* The invariant *)

(* A fee action keeps the fees' invariant and leaves the vault its tokens. *)
LEMMA FeeActionsKeep ==
  ASSUME VaultAssumption, EscrowAssumption, VaultTypeOK, FeesInv, FeeActions, now' = now
  PROVE  FeesKept
BY FundKeeps, CaptureKeeps, RefundKeeps, RefundOrphanedKeeps, PayDirectlyKeeps,
   ConsumeWithoutTransferKeeps DEF FeeActions

(* The manager's invariant does not look at any balance but the vault's. *)
LEMMA FeesKeepManager ==
  ASSUME ManagerInv, UNCHANGED <<vaultBooks, registryVars, managerVars>>,
         tokenBalance' \in [Address -> Nat],
         tokenBalance'[VaultAddress] = tokenBalance[VaultAddress]
  PROVE  ManagerInv'
<1>1. VaultTypeOK' /\ LocksNameProvider' /\ BondCoversCommitments'
  BY DEF ManagerInv, VaultInv, vaultBooks, VaultTypeOK, LocksNameProvider, BondCoversCommitments
<1>2. Balances' = Balances /\ \A p \in Address : LockedBy(p)' = LockedBy(p)
  BY DEF vaultBooks, Balances, LockedBy
<1>3. LockedIsSumOfActiveLocks' /\ VaultSolvent'
  BY <1>2 DEF ManagerInv, VaultInv, vaultBooks, LockedIsSumOfActiveLocks, VaultSolvent
<1>4. RegistryInv'
  BY DEF ManagerInv, RegistryInv, RegistryTypeOK, VersionsAreCounted, registered, registryVars
<1>5. ManagerTypeOK' /\ StateOutlivesEvidence' /\ JobCoveredOnce'
  BY DEF ManagerInv, ManagerTypeOK, StateOutlivesEvidence, JobCoveredOnce, state, managerVars
<1>6. LockFollowsCovenant' /\ IssuedWithinTerms'
  BY DEF ManagerInv, LockFollowsCovenant, IssuedWithinTerms, state, managerVars, vaultBooks
<1> QED
  BY <1>1, <1>3, <1>4, <1>5, <1>6 DEF ManagerInv, VaultInv

(* Time and the other contracts leave the fees' invariant as it is. *)
LEMMA FeesLeftAlone ==
  ASSUME VaultAssumption, EscrowAssumption, VaultTypeOK, FeesInv, UNCHANGED escrowVars,
         FeesHeld, VaultTypeOK', now' >= now
  PROVE  FeesInv'
<1>1. /\ tokenBalance[EscrowAddress] \in Nat /\ totalEscrowedAtomic \in Nat
      /\ Escrowed \in Nat /\ Orphans \in Nat /\ FalselyPaid \in Nat /\ now \in Nat
      /\ totalEscrowedAtomic = Escrowed /\ totalEscrowedAtomic <= tokenBalance[EscrowAddress]
  BY EscrowHolds
<1>2. EscrowAddress \in Address
  BY DEF EscrowAssumption, External
<1>3. tokenBalance' \in [Address -> Nat] /\ tokenBalance'[EscrowAddress] \in Nat /\ now' \in Nat
  BY <1>2 DEF VaultTypeOK
<1>4. /\ Escrowed' = Escrowed /\ Orphans' = Orphans /\ FalselyPaid' = FalselyPaid
      /\ totalEscrowedAtomic' = totalEscrowedAtomic
  BY DEF escrowVars, Escrowed, Orphans, FalselyPaid, FundedAmounts, OrphanAmounts, FalseRefunds,
     Orphan, FalselyRefunded
<1>5. EscrowedIsSumOfFunded' /\ SupplyBound' /\ EveryFeeIsBacked'
  BY <1>1, <1>3, <1>4, BackingStep DEF FeesHeld
<1>6. EscrowTypeOK' /\ OnlyExecutedFees' /\ FundedArePaid' /\ FundedRecords'
  BY DEF FeesInv, escrowVars, EscrowTypeOK, OnlyExecutedFees, FundedArePaid, FundedRecords,
     refundAvailableAt
<1>7. RefundAfterProviderWindow'
  <2> SUFFICES ASSUME NEW f \in FeeAuthorization, fees'[f].state = "Refunded"
               PROVE  now' >= f.validBefore /\ now' >= f.providerValidBefore
    BY DEF RefundAfterProviderWindow
  <2>1. now >= f.validBefore /\ now >= f.providerValidBefore
    BY DEF FeesInv, RefundAfterProviderWindow, escrowVars
  <2> QED
    BY <1>1, <1>3, <2>1, RefundTimes
<1> QED
  BY <1>5, <1>6, <1>7 DEF FeesInv

(* What is not a fee action is a step of the manager's system that holds the fees. *)
LEMMA OtherSteps ==
  ASSUME RegistryAssumption, ManagerAssumption, VaultAssumption, EscrowAssumption,
         ManagerInv, [EscrowNext]_allEscrowVars, ~EscrowActions
  PROVE  /\ [ManagerNext]_allManagerVars
         /\ UNCHANGED escrowVars
         /\ FeesHeld
<1>0. VaultTypeOK /\ RegistryTypeOK /\ ManagerTypeOK
  BY DEF ManagerInv, VaultInv, RegistryInv
<1>1. CASE ManagerActions /\ UNCHANGED escrowVars
  <2>1. VaultManagerNext \/ UNCHANGED vaultVars
    BY <1>0, <1>1, ManagerActionsCall DEF ManagerCall
  <2> QED
    BY <1>0, <1>1, <2>1, VaultHoldsFees DEF ManagerNext
<1>2. CASE RegistryActions /\ UNCHANGED <<vaultVars, managerVars, escrowVars>>
  <2>1. UNCHANGED vaultVars
    BY <1>2
  <2> QED
    BY <1>0, <1>2, <2>1, VaultHoldsFees DEF ManagerNext
<1>3. CASE /\ VaultUsersNext(External \ {EscrowAddress}, {ManagerAddress}) \/ Tick
           /\ UNCHANGED <<registryVars, managerVars, escrowVars>>
  <2>1. VaultUsersNext(External \ {EscrowAddress}, {ManagerAddress})
          => VaultUsersNext(External, {ManagerAddress})
    BY DEF VaultUsersNext
  <2> QED
    BY <1>0, <1>3, <2>1, VaultHoldsFees DEF ManagerNext
<1>4. CASE UNCHANGED allEscrowVars
  <2>1. UNCHANGED allManagerVars /\ UNCHANGED vaultVars /\ UNCHANGED escrowVars
    BY <1>4 DEF allEscrowVars, allManagerVars
  <2> QED
    BY <1>0, <2>1, VaultHoldsFees
<1> QED
  BY <1>1, <1>2, <1>3, <1>4 DEF EscrowNext

(* Every step keeps the invariant. *)
LEMMA EscrowStepKeeps ==
  ASSUME RegistryAssumption, ManagerAssumption, VaultAssumption, EscrowAssumption,
         EscrowInv, [EscrowNext]_allEscrowVars
  PROVE  EscrowInv'
<1>0. VaultTypeOK /\ RegistryTypeOK /\ ManagerTypeOK
  BY DEF EscrowInv, ManagerInv, VaultInv, RegistryInv
<1>1. CASE EscrowActions
  <2>1. FeeActions /\ UNCHANGED <<vaultBooks, registryVars, managerVars>> /\ now' = now
    BY <1>1 DEF EscrowActions, vaultBooks
  <2>2. FeesKept
    BY <1>0, <2>1, FeeActionsKeep DEF EscrowInv
  <2> QED
    BY <2>1, <2>2, FeesKeepManager DEF EscrowInv, FeesKept
<1>2. CASE ~EscrowActions
  <2>1. [ManagerNext]_allManagerVars /\ UNCHANGED escrowVars /\ FeesHeld
    BY <1>2, OtherSteps DEF EscrowInv
  <2>2. ManagerInv'
    BY <2>1, ManagerStepKeeps DEF EscrowInv
  <2>3. now' >= now
    <3>1. [VaultNext]_vaultVars
      BY <1>0, <2>1, ManagerStepIsRegistryStep DEF RegistryNext, allRegistryVars, vaultVars
    <3> QED
      BY <1>0, <3>1, TimeAdvances
  <2>4. VaultTypeOK'
    BY <2>2 DEF ManagerInv, VaultInv
  <2> QED
    BY <1>0, <2>1, <2>2, <2>3, <2>4, FeesLeftAlone DEF EscrowInv
<1> QED
  BY <1>1, <1>2

(* No fee is recorded at deployment, and no token is lost. *)
LEMMA EscrowInvInit ==
  ASSUME RegistryAssumption, ManagerAssumption, VaultAssumption, EscrowAssumption,
         VaultInit, RegistryInit, ManagerInit, EscrowInit
  PROVE  EscrowInv
<1>1. ManagerInv
  BY ManagerInvInit
<1>2. NoFee \in FeeRecord /\ NoFee.state = "None"
  BY DEF NoFee, FeeRecord
<1>3. EscrowTypeOK
  BY <1>2 DEF EscrowInit, EscrowTypeOK
<1>4. OnlyExecutedFees /\ FundedArePaid /\ FundedRecords /\ RefundAfterProviderWindow
  BY <1>2 DEF EscrowInit, OnlyExecutedFees, FundedArePaid, FundedRecords, RefundAfterProviderWindow
<1>5. SupplyBound
  BY DEF VaultInit, SupplyBound, EscrowAssumption
<1>6. \A f \in FeeAuthorization :
         FundedAmounts[f] = 0 /\ OrphanAmounts[f] = 0 /\ FalseRefunds[f] = 0
  BY <1>2 DEF EscrowInit, FundedAmounts, OrphanAmounts, FalseRefunds, Orphan, FalselyRefunded
<1>7. /\ SumOver(FeeAuthorization, FundedAmounts) = 0
      /\ SumOver(FeeAuthorization, OrphanAmounts) = 0
      /\ SumOver(FeeAuthorization, FalseRefunds) = 0
  BY <1>6, SumOverZero
<1>8. totalEscrowedAtomic = 0 /\ tokenBalance[EscrowAddress] \in Nat
  BY <1>1 DEF EscrowInit, ManagerInv, VaultInv, VaultTypeOK, EscrowAssumption, External
<1>9. EscrowedIsSumOfFunded /\ EveryFeeIsBacked
  BY <1>7, <1>8 DEF EscrowedIsSumOfFunded, EveryFeeIsBacked
<1> QED
  BY <1>1, <1>3, <1>4, <1>5, <1>9 DEF EscrowInv, FeesInv

(* The invariant holds in every state the system reaches. *)
LEMMA EscrowInvariant == EscrowSpec => []EscrowInv
<1>1. VaultInit /\ RegistryInit /\ ManagerInit /\ EscrowInit => EscrowInv
  BY VaultAssumption, RegistryAssumption, ManagerAssumption, EscrowAssumption, EscrowInvInit
<1>2. EscrowInv /\ [EscrowNext]_allEscrowVars => EscrowInv'
  BY VaultAssumption, RegistryAssumption, ManagerAssumption, EscrowAssumption, EscrowStepKeeps
<1> QED
  BY <1>1, <1>2, PTL DEF EscrowSpec

-------------------------------------------------------------------------------
(* Theorems *)

(* Every reachable state of the escrow has its type: no terminal step underflows *)
(* the running total.                                                            *)
THEOREM EscrowTypes == EscrowSpec => []EscrowTypeOK
<1>1. EscrowInv => EscrowTypeOK
  BY DEF EscrowInv, FeesInv
<1> QED
  BY <1>1, EscrowInvariant, PTL

(* The running total is the sum of the funded fees, on every path. *)
THEOREM EscrowTotalAddsUp == EscrowSpec => []EscrowedIsSumOfFunded
<1>1. EscrowInv => EscrowedIsSumOfFunded
  BY DEF EscrowInv, FeesInv
<1> QED
  BY <1>1, EscrowInvariant, PTL

(* The escrow holds every recorded fee, whatever the quorum attests and whatever      *)
(* authorizations are used up without paying it; and while nothing is delivered short *)
(* it holds every orphan beside them, but for one fee for each false orphan refund.   *)
THEOREM EscrowBacksEveryFee == EscrowSpec => []EveryFeeIsBacked
<1>1. EscrowInv => EveryFeeIsBacked
  BY DEF EscrowInv, FeesInv
<1> QED
  BY <1>1, EscrowInvariant, PTL

(* No fee goes back to its buyer while the provider may still be paid. *)
THEOREM EscrowRefundsLate == EscrowSpec => []RefundAfterProviderWindow
<1>1. EscrowInv => RefundAfterProviderWindow
  BY DEF EscrowInv, FeesInv
<1> QED
  BY <1>1, EscrowInvariant, PTL

(* With fees moving beside them, the vault stays solvent, locks follow covenants and *)
(* jobs are covered once.                                                            *)
THEOREM EscrowKeepsContracts ==
  EscrowSpec => [](VaultSolvent /\ LockFollowsCovenant /\ JobCoveredOnce)
<1>1. EscrowInv => VaultSolvent /\ LockFollowsCovenant /\ JobCoveredOnce
  BY DEF EscrowInv, ManagerInv, VaultInv
<1> QED
  BY <1>1, EscrowInvariant, PTL

-------------------------------------------------------------------------------
(* The order of a purchase *)

CoverageOf(f) == IF BoundCovenant(f) THEN state(covenantOf(f)) ELSE "None"

\* A covenant's state may go from one to the other.
NextCoverage(before, after) ==
    before \in DOMAIN Deals!CoverageStep /\ after \in Deals!CoverageStep[before]

(* A covenant that is issued, or moves, does so in the order of a deal. *)
LEMMA CoverageOrder ==
  /\ NextCoverage("None", "PendingStart") /\ NextCoverage("None", "Active")
  /\ \A before, after : Follows(before, after) => NextCoverage(before, after)
<1>1. NextCoverage("None", "PendingStart") /\ NextCoverage("None", "Active")
  BY DEF NextCoverage, Deals!CoverageStep
<1>2. ASSUME NEW before, NEW after, Follows(before, after)
      PROVE  NextCoverage(before, after)
  BY <1>2 DEF Follows, Live, NextCoverage, Deals!CoverageStep
<1> QED
  BY <1>1, <1>2

(* An authorization names its covenant, and a covenant one authorization. *)
LEMMA OneFeeOfCovenant ==
  ASSUME NEW f, NEW g, covenantOf(f) = covenantOf(g)
  PROVE  f = g
<1>1. covenantOf(f).feeAuthorizationHash = f /\ covenantOf(g).feeAuthorizationHash = g
  BY DEF covenantOf
<1> QED
  BY <1>1

(* A call on a covenant moves the coverage of its own fee at most, and in order. *)
LEMMA CoverageMoves ==
  ASSUME ManagerTypeOK, NEW c \in Covenant, Acts(c)
  PROVE  \/ \A f \in FeeAuthorization : CoverageOf(f)' = CoverageOf(f)
         \/ \E f \in FeeAuthorization :
               /\ \A g \in FeeAuthorization \ {f} : CoverageOf(g)' = CoverageOf(g)
               /\ NextCoverage(CoverageOf(f), CoverageOf(f)')
<1> PICK r \in CovenantRecord : Issues(c, r) \/ Moves(c, r)
  BY DEF Acts
<1>1. ASSUME NEW g \in FeeAuthorization, covenantOf(g) # c
      PROVE  CoverageOf(g)' = CoverageOf(g)
  <2>1. CASE covenantOf(g) \in Covenant
    <3>1. covenants'[covenantOf(g)] = covenants[covenantOf(g)]
      BY <1>1, <2>1, OneCovenantChanges
    <3> QED
      BY <3>1 DEF CoverageOf, BoundCovenant, state
  <2>2. CASE covenantOf(g) \notin Covenant
    BY <2>2 DEF CoverageOf, BoundCovenant
  <2> QED
    BY <2>1, <2>2
<1>2. CASE \A f \in FeeAuthorization : covenantOf(f) # c
  BY <1>1, <1>2
<1>3. ASSUME NEW f \in FeeAuthorization, covenantOf(f) = c
      PROVE  CoverageOf(f)' = CoverageOf(f) \/ NextCoverage(CoverageOf(f), CoverageOf(f)')
  <2>1. /\ covenants'[covenantOf(f)] = r /\ state(covenantOf(f))' = r.state
        /\ covenantOf(f) \in Covenant
    BY <1>3, OneCovenantChanges
  <2>2. CASE Issues(c, r)
    <3>1. CoverageOf(f) = "None" /\ r.state \in {"Active", "PendingStart"}
      BY <1>3, <2>2 DEF Issues, NotYetCovered, CoverageOf
    <3>2. CoverageOf(f)' \in {"None", r.state}
      BY <2>1 DEF CoverageOf
    <3> QED
      BY <3>1, <3>2, CoverageOrder
  <2>3. CASE Moves(c, r)
    <3>1. Follows(state(c), r.state) /\ SameTerms(r, covenants[c])
      BY <2>3 DEF Moves
    <3>2. state(c) # "None" /\ r.state # "None"
      BY <3>1, FollowsFacts DEF Live
    <3>3. BoundCovenant(f)' <=> BoundCovenant(f)
      BY <1>3, <2>1, <3>1, <3>2 DEF BoundCovenant, SameTerms
    <3>4. CASE BoundCovenant(f)
      <4>1. CoverageOf(f) = state(c) /\ CoverageOf(f)' = r.state
        BY <1>3, <2>1, <3>3, <3>4 DEF CoverageOf
      <4> QED
        BY <3>1, <4>1, CoverageOrder
    <3>5. CASE ~BoundCovenant(f)
      BY <3>3, <3>5 DEF CoverageOf
    <3> QED
      BY <3>4, <3>5
  <2> QED
    BY <2>2, <2>3
<1>4. ASSUME NEW f \in FeeAuthorization, covenantOf(f) = c
      PROVE  \A g \in FeeAuthorization \ {f} : covenantOf(g) # c
  BY <1>4, OneFeeOfCovenant
<1> QED
  BY <1>1, <1>2, <1>3, <1>4

(* A deal's covenant moves by itself. *)
LEMMA CoverageStepIsDeal ==
  ASSUME NEW f \in FeeAuthorization, UNCHANGED fees,
         \A g \in FeeAuthorization \ {f} : CoverageOf(g)' = CoverageOf(g),
         NextCoverage(CoverageOf(f), CoverageOf(f)')
  PROVE  Deals!DealNext
<1> DEFINE cov == [g \in FeeAuthorization |->
                     IF BoundCovenant(g) THEN state(covenantOf(g)) ELSE "None"]
<1>1. cov = [g \in FeeAuthorization |-> CoverageOf(g)]
  BY DEF CoverageOf
<1>2. cov' = [g \in FeeAuthorization |-> CoverageOf(g)']
  BY DEF CoverageOf
<1>3. cov' = [cov EXCEPT ![f] = CoverageOf(f)'] /\ cov[f] = CoverageOf(f)
  BY <1>1, <1>2
<1>4. Deals!MoveCoverage(f)
  BY <1>3 DEF Deals!MoveCoverage, NextCoverage
<1> QED
  BY <1>4 DEF Deals!DealNext

\* A fee moves to `after`, and no coverage with it.
FeeMovesTo(f, after) ==
    /\ \E r : fees' = [fees EXCEPT ![f] = r] /\ r.state = after
    /\ \A g \in FeeAuthorization : CoverageOf(g)' = CoverageOf(g)

(* A deal's fee moves by itself, and in order. *)
LEMMA FeeStepIsDeal ==
  ASSUME EscrowTypeOK, NEW f \in FeeAuthorization, NEW after, FeeMovesTo(f, after),
         \/ fees[f].state = "None" /\ CoverageOf(f) = "PendingStart" /\ after = "Funded"
         \/ /\ fees[f].state = "Funded" /\ after = "Captured"
            /\ CoverageOf(f) \notin {"None", "PendingStart", "CancelledUnpaid"}
         \/ /\ after = "Refunded"
            /\ fees[f].state = "Funded" \/ (fees[f].state = "None" /\ CoverageOf(f) # "None")
  PROVE  Deals!DealNext
<1> DEFINE cov == [g \in FeeAuthorization |->
                     IF BoundCovenant(g) THEN state(covenantOf(g)) ELSE "None"]
           fee == [g \in FeeAuthorization |-> fees[g].state]
<1> PICK r : fees' = [fees EXCEPT ![f] = r] /\ r.state = after
  BY DEF FeeMovesTo
<1>1. cov = [g \in FeeAuthorization |-> CoverageOf(g)] /\ cov' = [g \in FeeAuthorization |-> CoverageOf(g)']
  BY DEF CoverageOf
<1>2. cov' = cov /\ cov[f] = CoverageOf(f)
  BY <1>1 DEF FeeMovesTo
<1>3. fee' = [fee EXCEPT ![f] = after] /\ fee[f] = fees[f].state
  BY DEF EscrowTypeOK
<1>4. Deals!FundFee(f) \/ Deals!CaptureFee(f) \/ Deals!RefundFee(f)
  BY <1>2, <1>3 DEF Deals!FundFee, Deals!CaptureFee, Deals!RefundFee
<1> QED
  BY <1>2, <1>4 DEF Deals!DealNext

(* Nothing of a deal changes. *)
LEMMA DealStutters ==
  ASSUME \A f \in FeeAuthorization : CoverageOf(f)' = CoverageOf(f), UNCHANGED fees
  PROVE  UNCHANGED Deals!dealVars
<1> DEFINE cov == [g \in FeeAuthorization |->
                     IF BoundCovenant(g) THEN state(covenantOf(g)) ELSE "None"]
<1>1. cov = [g \in FeeAuthorization |-> CoverageOf(g)] /\ cov' = [g \in FeeAuthorization |-> CoverageOf(g)']
  BY DEF CoverageOf
<1>2. cov' = cov
  BY <1>1
<1> QED
  BY <1>2 DEF Deals!dealVars

(* Every step of the contracts is a step of a deal, or none. *)
LEMMA EscrowStepIsDeal ==
  ASSUME RegistryAssumption, ManagerAssumption, VaultAssumption, EscrowAssumption,
         EscrowInv, [EscrowNext]_allEscrowVars
  PROVE  [Deals!DealNext]_(Deals!dealVars)
<1>0. VaultTypeOK /\ RegistryTypeOK /\ ManagerTypeOK /\ EscrowTypeOK
  BY DEF EscrowInv, ManagerInv, VaultInv, RegistryInv, FeesInv
<1>1. CASE EscrowActions
  <2>1. /\ FeeActions
        /\ \A g \in FeeAuthorization : CoverageOf(g)' = CoverageOf(g)
    BY <1>1 DEF EscrowActions, managerVars, CoverageOf, BoundCovenant, state
  <2>2. ASSUME NEW f \in FeeAuthorization, Fund(f)
        PROVE  Deals!DealNext
    <3> DEFINE r == [state |-> "Funded", amountAtomic |-> FeeAmount, fundedAt |-> now,
                     refundAvailableAt |-> refundAvailableAt(f)]
    <3>1. fees' = [fees EXCEPT ![f] = r] /\ r.state = "Funded"
      BY <2>2 DEF Fund
    <3> HIDE DEF r
    <3>2. FeeMovesTo(f, "Funded")
      BY <2>1, <3>1 DEF FeeMovesTo
    <3>3. fees[f].state = "None" /\ CoverageOf(f) = "PendingStart"
      BY <2>2 DEF Fund, CoverageOf
    <3> QED
      BY <1>0, <3>2, <3>3, FeeStepIsDeal
  <2>3. ASSUME NEW f \in FeeAuthorization, Refund(f)
        PROVE  Deals!DealNext
    <3>1. fees' = [fees EXCEPT ![f] = [fees[f] EXCEPT !.state = "Refunded"]]
          /\ [fees[f] EXCEPT !.state = "Refunded"].state = "Refunded"
      BY <1>0, <2>3 DEF Refund, EscrowTypeOK, FeeRecord
    <3>2. fees[f].state = "Funded" /\ FeeMovesTo(f, "Refunded")
      BY <2>1, <2>3, <3>1 DEF Refund, FeeMovesTo
    <3> QED
      BY <1>0, <3>2, FeeStepIsDeal
  <2>4. ASSUME NEW f \in FeeAuthorization, NEW t \in 0 .. now, Capture(f, t)
        PROVE  Deals!DealNext
    <3>1. fees' = [fees EXCEPT ![f] = [fees[f] EXCEPT !.state = "Captured"]]
          /\ [fees[f] EXCEPT !.state = "Captured"].state = "Captured"
      BY <1>0, <2>4 DEF Capture, EscrowTypeOK, FeeRecord
    <3>2. fees[f].state = "Funded" /\ FeeMovesTo(f, "Captured")
      BY <2>1, <2>4, <3>1 DEF Capture, FeeMovesTo
    <3>3. CoverageOf(f) \notin {"None", "PendingStart", "CancelledUnpaid"}
      BY <2>4 DEF Capture, Capturable, BoundCovenant, CoverageOf
    <3> QED
      BY <1>0, <3>2, <3>3, FeeStepIsDeal
  <2>5. ASSUME NEW f \in FeeAuthorization, NEW t \in 0 .. now, RefundOrphaned(f, t)
        PROVE  Deals!DealNext
    <3> DEFINE r == [state |-> "Refunded", amountAtomic |-> FeeAmount, fundedAt |-> 0,
                     refundAvailableAt |-> refundAvailableAt(f)]
    <3>1. fees' = [fees EXCEPT ![f] = r] /\ r.state = "Refunded"
      BY <2>5 DEF RefundOrphaned
    <3> HIDE DEF r
    <3>2. FeeMovesTo(f, "Refunded")
      BY <2>1, <3>1 DEF FeeMovesTo
    <3>3. fees[f].state = "None" /\ CoverageOf(f) # "None"
      BY <2>5 DEF RefundOrphaned, Orphaned, BoundCovenant, CoverageOf
    <3> QED
      BY <1>0, <3>2, <3>3, FeeStepIsDeal
  <2>6. ASSUME NEW f \in FeeAuthorization, PayDirectly(f)
        PROVE  UNCHANGED Deals!dealVars
    BY <2>1, <2>6, DealStutters DEF PayDirectly
  <2>7. ASSUME NEW f \in FeeAuthorization, ConsumeWithoutTransfer(f)
        PROVE  UNCHANGED Deals!dealVars
    BY <2>1, <2>7, DealStutters DEF ConsumeWithoutTransfer
  <2> QED
    BY <2>1, <2>2, <2>3, <2>4, <2>5, <2>6, <2>7 DEF FeeActions
<1>2. CASE ~EscrowActions
  <2>1. [ManagerNext]_allManagerVars /\ UNCHANGED fees
    BY <1>2, OtherSteps DEF EscrowInv, escrowVars
  <2>2. CASE LeavesCovenants
    <3>1. \A f \in FeeAuthorization : CoverageOf(f)' = CoverageOf(f)
      BY <2>2 DEF LeavesCovenants, CoverageOf, BoundCovenant, state
    <3> QED
      BY <2>1, <3>1, DealStutters
  <2>3. ASSUME NEW c \in Covenant, Acts(c)
        PROVE  [Deals!DealNext]_(Deals!dealVars)
    <3>1. CASE \A f \in FeeAuthorization : CoverageOf(f)' = CoverageOf(f)
      BY <2>1, <3>1, DealStutters
    <3>2. CASE \E f \in FeeAuthorization :
                 /\ \A g \in FeeAuthorization \ {f} : CoverageOf(g)' = CoverageOf(g)
                 /\ NextCoverage(CoverageOf(f), CoverageOf(f)')
      BY <2>1, <3>2, CoverageStepIsDeal
    <3> QED
      BY <1>0, <2>3, <3>1, <3>2, CoverageMoves
  <2> QED
    BY <1>0, <2>1, <2>2, <2>3, ManagerSteps
<1> QED
  BY <1>1, <1>2

(* The escrow and the manager implement the order of a purchase: a fee enters under  *)
(* a covenant that waits for its clock, and leaves once, to the treasury or the buyer. *)
THEOREM EscrowImplementsDeals == EscrowSpec => ImplementsDeals
<1>1. VaultInit /\ RegistryInit /\ ManagerInit /\ EscrowInit => Deals!DealInit
  <2> SUFFICES ASSUME ManagerInit, EscrowInit
               PROVE  Deals!DealInit
    OBVIOUS
  <2>1. \A f \in FeeAuthorization : CoverageOf(f) = "None"
    BY DEF ManagerInit, EmptyCovenant, CoverageOf, BoundCovenant, state
  <2>2. \A f \in FeeAuthorization : fees[f].state = "None"
    BY DEF EscrowInit, NoFee
  <2> QED
    BY <2>1, <2>2 DEF Deals!DealInit, CoverageOf
<1>2. EscrowInv /\ [EscrowNext]_allEscrowVars => [Deals!DealNext]_(Deals!dealVars)
  BY VaultAssumption, RegistryAssumption, ManagerAssumption, EscrowAssumption, EscrowStepIsDeal
<1> QED
  BY <1>1, <1>2, EscrowInvariant, PTL DEF EscrowSpec, ImplementsDeals, Deals!DealSpec
===============================================================================
