-------------------------- MODULE BondAndPolicyProofs --------------------------
(***************************************************************************)
(* The vault's safety, for any number of accounts and covenants, and the   *)
(* registry's over it, for any services, terms and number of versions.     *)
(*                                                                         *)
(* VaultInv is inductive: the running totals agree with the locks, locks   *)
(* and queued withdrawals fit in the balances, and the tokens held cover   *)
(* the balances.  Each kind of account update is a lemma on sums, and each *)
(* action is shown to be one of those updates.                             *)
(*                                                                         *)
(* RegistryInv is inductive: every registered policy has a version its     *)
(* service has counted.  As versions are only counted up, a new policy     *)
(* never takes the id of an old one, and a superseded one never becomes    *)
(* the latest again.                                                       *)
(***************************************************************************)
EXTENDS AgentPolicyRegistry, UnitSumsProofs

LocksNameProvider ==
    \A c \in Covenant : covenantLocks[c].active => covenantLocks[c].provider \in Address

VaultInv ==
    /\ VaultTypeOK
    /\ LocksNameProvider
    /\ LockedIsSumOfActiveLocks
    /\ BondCoversCommitments
    /\ VaultSolvent

-------------------------------------------------------------------------------
(* Sums over the accounts and over the locks *)

(* Balances and locks are numbers, so their sums are. *)
LEMMA SumsAreNat ==
  ASSUME VaultAssumption, VaultTypeOK
  PROVE  /\ SumOver(Address, Balances) \in Nat
         /\ \A p \in Address : SumOver(Covenant, LockedBy(p)) \in Nat
<1>1. IsFiniteSet(Address) /\ \A p \in Address : Balances[p] \in Nat
  BY DEF VaultAssumption, VaultTypeOK, Balances, BondAccount
<1>2. \A p \in Address : \A c \in Covenant : LockedBy(p)[c] \in Nat
  BY DEF VaultTypeOK, LockedBy, CovenantLock
<1>3. IsFiniteSet(Covenant)
  BY DEF VaultAssumption
<1> QED
  BY <1>1, <1>2, <1>3, SumOverIsNat

(* One account's new balance moves the sum of all balances by the same amount. *)
LEMMA BalanceMoves ==
  ASSUME VaultAssumption, VaultTypeOK, NEW q \in Address, NEW r \in BondAccount,
         accounts' = [accounts EXCEPT ![q] = r]
  PROVE  /\ SumOver(Address, Balances') \in Nat
         /\ SumOver(Address, Balances') =
              SumOver(Address, Balances) - accounts[q].balance + r.balance
<1>1. IsFiniteSet(Address)
  BY DEF VaultAssumption
<1>2. \A p \in Address : Balances[p] = accounts[p].balance /\ Balances[p] \in Nat
  BY DEF VaultTypeOK, Balances, BondAccount
<1>3. \A p \in Address : Balances'[p] = accounts'[p].balance /\ Balances'[p] \in Nat
  BY DEF VaultTypeOK, Balances, BondAccount
<1>4. accounts'[q] = r /\ \A p \in Address \ {q} : Balances'[p] = Balances[p]
  BY <1>2, <1>3 DEF VaultTypeOK
<1>5. SumOver(Address, Balances') = SumOver(Address, Balances) - Balances[q] + Balances'[q]
  BY <1>1, <1>2, <1>3, <1>4, SumOverChange
<1>6. SumOver(Address, Balances') \in Nat
  BY <1>1, <1>3, SumOverIsNat
<1> QED
  BY <1>2, <1>3, <1>4, <1>5, <1>6

(* One covenant's new lock moves only the sums of the providers it names. *)
LEMMA LockMoves ==
  ASSUME VaultAssumption, VaultTypeOK, NEW c \in Covenant, NEW l \in CovenantLock,
         covenantLocks' = [covenantLocks EXCEPT ![c] = l], NEW p \in Address
  PROVE  /\ SumOver(Covenant, LockedBy(p)') \in Nat
         /\ SumOver(Covenant, LockedBy(p)') =
              SumOver(Covenant, LockedBy(p)) - LockedBy(p)[c]
                + (IF l.active /\ l.provider = p THEN l.amount ELSE 0)
<1>1. IsFiniteSet(Covenant)
  BY DEF VaultAssumption
<1>2. \A d \in Covenant : LockedBy(p)[d] \in Nat
  BY DEF VaultTypeOK, LockedBy, CovenantLock
<1>3. covenantLocks'[c] = l /\ \A d \in Covenant \ {c} : covenantLocks'[d] = covenantLocks[d]
  BY DEF VaultTypeOK
<1>4. \A d \in Covenant : LockedBy(p)'[d] =
         IF covenantLocks'[d].active /\ covenantLocks'[d].provider = p
           THEN covenantLocks'[d].amount ELSE 0
  BY DEF LockedBy
<1>5. /\ LockedBy(p)'[c] = (IF l.active /\ l.provider = p THEN l.amount ELSE 0)
      /\ \A d \in Covenant \ {c} : LockedBy(p)'[d] = LockedBy(p)[d]
  BY <1>3, <1>4 DEF LockedBy
<1>6. LockedBy(p)'[c] \in Nat
  BY <1>5 DEF CovenantLock
<1>7. \A d \in Covenant : LockedBy(p)'[d] \in Nat
  BY <1>2, <1>5, <1>6
<1> QED
  BY <1>1, <1>2, <1>5, <1>7, SumOverChange
-------------------------------------------------------------------------------
(* The two kinds of account update *)

(* An update of one account that leaves its locks alone and still covers them. *)
LEMMA AccountUpdateKeeps ==
  ASSUME VaultAssumption, VaultInv, NEW q \in Address, NEW r \in BondAccount,
         accounts' = [accounts EXCEPT ![q] = r], covenantLocks' = covenantLocks,
         r.locked = accounts[q].locked, r.locked + r.queuedWithdrawal <= r.balance
  PROVE  /\ accounts' \in [Address -> BondAccount]
         /\ LocksNameProvider' /\ LockedIsSumOfActiveLocks' /\ BondCoversCommitments'
<1>1. accounts' \in [Address -> BondAccount]
  BY DEF VaultInv, VaultTypeOK
<1>2. \A p \in Address : accounts'[p] = IF p = q THEN r ELSE accounts[p]
  BY DEF VaultInv, VaultTypeOK
<1>3. LocksNameProvider'
  BY DEF VaultInv, LocksNameProvider
<1>4. LockedIsSumOfActiveLocks'
  <2>1. \A p \in Address : LockedBy(p)' = LockedBy(p)
    BY DEF LockedBy
  <2>2. \A p \in Address : accounts'[p].locked = accounts[p].locked
    BY <1>2
  <2> QED
    BY <2>1, <2>2 DEF VaultInv, LockedIsSumOfActiveLocks
<1>5. BondCoversCommitments'
  BY <1>2 DEF VaultInv, BondCoversCommitments
<1> QED
  BY <1>1, <1>3, <1>4, <1>5

(* An update of one covenant's lock and, by as much, of its provider's locked total. *)
LEMMA LockUpdateKeeps ==
  ASSUME VaultAssumption, VaultInv,
         NEW c \in Covenant, NEW l \in CovenantLock, NEW q \in Address, NEW r \in BondAccount,
         covenantLocks' = [covenantLocks EXCEPT ![c] = l],
         accounts' = [accounts EXCEPT ![q] = r],
         covenantLocks[c].active => covenantLocks[c].provider = q,
         l.active => l.provider = q,
         r.locked = accounts[q].locked
                      - (IF covenantLocks[c].active THEN covenantLocks[c].amount ELSE 0)
                      + (IF l.active THEN l.amount ELSE 0),
         r.locked + r.queuedWithdrawal <= r.balance
  PROVE  /\ accounts' \in [Address -> BondAccount]
         /\ covenantLocks' \in [Covenant -> CovenantLock]
         /\ LocksNameProvider' /\ LockedIsSumOfActiveLocks' /\ BondCoversCommitments'
<1>1. /\ accounts' \in [Address -> BondAccount]
      /\ covenantLocks' \in [Covenant -> CovenantLock]
  BY DEF VaultInv, VaultTypeOK
<1>2. \A p \in Address : accounts'[p] = IF p = q THEN r ELSE accounts[p]
  BY DEF VaultInv, VaultTypeOK
<1>3. \A d \in Covenant : covenantLocks'[d] = IF d = c THEN l ELSE covenantLocks[d]
  BY DEF VaultInv, VaultTypeOK
<1>4. LocksNameProvider'
  BY <1>3 DEF VaultInv, LocksNameProvider
<1>5. LockedIsSumOfActiveLocks'
  <2> SUFFICES ASSUME NEW p \in Address
               PROVE  accounts'[p].locked = SumOver(Covenant, LockedBy(p)')
    BY DEF LockedIsSumOfActiveLocks
  <2> DEFINE was == IF covenantLocks[c].active THEN covenantLocks[c].amount ELSE 0
             is  == IF l.active THEN l.amount ELSE 0
  <2>1. /\ SumOver(Covenant, LockedBy(p)) \in Nat
        /\ accounts[p].locked = SumOver(Covenant, LockedBy(p))
    BY SumsAreNat DEF VaultInv, LockedIsSumOfActiveLocks
  <2>2. SumOver(Covenant, LockedBy(p)') =
          SumOver(Covenant, LockedBy(p)) - LockedBy(p)[c]
            + (IF l.active /\ l.provider = p THEN l.amount ELSE 0)
    BY LockMoves DEF VaultInv
  <2>3. LockedBy(p)[c] = IF p = q THEN was ELSE 0
    BY DEF LockedBy
  <2>4. (IF l.active /\ l.provider = p THEN l.amount ELSE 0) = IF p = q THEN is ELSE 0
    OBVIOUS
  <2>5. was \in Nat /\ is \in Nat
    BY DEF VaultInv, VaultTypeOK, CovenantLock
  <2>6. CASE p = q
    <3>1. accounts'[p].locked = accounts[p].locked - was + is
      BY <1>2, <2>6
    <3> QED
      BY <3>1, <2>1, <2>2, <2>3, <2>4, <2>5, <2>6
  <2>7. CASE p # q
    <3>1. accounts'[p].locked = accounts[p].locked
      BY <1>2, <2>7
    <3>2. LockedBy(p)[c] = 0 /\ (IF l.active /\ l.provider = p THEN l.amount ELSE 0) = 0
      BY <2>3, <2>4, <2>7
    <3> HIDE DEF was, is
    <3> QED
      BY <3>1, <3>2, <2>1, <2>2
  <2> QED
    BY <2>6, <2>7
<1>6. BondCoversCommitments'
  BY <1>2 DEF VaultInv, BondCoversCommitments
<1> QED
  BY <1>1, <1>4, <1>5, <1>6

(* A checked transfer out of the vault debits it exactly. *)
LEMMA SafeTransferDebits ==
  ASSUME VaultAssumption, VaultTypeOK, NEW to \in Address, NEW amount \in Nat,
         SafeTransfer(to, amount)
  PROVE  /\ tokenBalance' \in [Address -> Nat]
         /\ tokenBalance'[VaultAddress] = tokenBalance[VaultAddress] - amount
<1> PICK delivered \in 0 .. amount :
         /\ TokenTransfer(VaultAddress, to, amount, delivered)
         /\ tokenBalance'[VaultAddress] = tokenBalance[VaultAddress] - amount
  BY DEF SafeTransfer
<1> QED
  BY DEF VaultAssumption, VaultTypeOK, TokenTransfer

(* Every transfer into the vault leaves it no poorer. *)
LEMMA TransferInCredits ==
  ASSUME VaultAssumption, VaultTypeOK, NEW from \in External, NEW amount \in Nat,
         NEW delivered \in 0 .. amount,
         TokenTransfer(from, VaultAddress, amount, delivered)
  PROVE  /\ tokenBalance' \in [Address -> Nat]
         /\ tokenBalance'[VaultAddress] = tokenBalance[VaultAddress] + delivered
BY DEF VaultAssumption, VaultTypeOK, TokenTransfer, External
-------------------------------------------------------------------------------
(* The steps *)

StepKeeps ==
    /\ VaultTypeOK' /\ LocksNameProvider' /\ LockedIsSumOfActiveLocks'
    /\ BondCoversCommitments'
    /\ Surplus' >= Surplus

(* Administration, the clock and stuttering touch neither bonds nor tokens. *)
LEMMA AdminKeeps ==
  ASSUME VaultAssumption, VaultInv,
         UNCHANGED <<accounts, covenantLocks, tokenBalance>>,
         vaultOwner' \in Address, vaultPendingOwner' \in Address \cup {NoAddress},
         manager' \in Address \cup {NoAddress}, now' \in Nat
  PROVE  StepKeeps
<1>1. VaultTypeOK' /\ LocksNameProvider' /\ BondCoversCommitments'
  BY DEF VaultInv, VaultTypeOK, LocksNameProvider, BondCoversCommitments
<1>2. Balances' = Balances /\ \A p \in Address : LockedBy(p)' = LockedBy(p)
  BY DEF Balances, LockedBy
<1>3. LockedIsSumOfActiveLocks'
  BY <1>2 DEF VaultInv, LockedIsSumOfActiveLocks
<1>4. SumOver(Address, Balances) \in Nat /\ tokenBalance[VaultAddress] \in Nat
  BY SumsAreNat DEF VaultInv, VaultTypeOK, VaultAssumption
<1>5. Surplus' = Surplus
  BY <1>2 DEF Surplus
<1>6. Surplus \in Int
  BY <1>4 DEF Surplus
<1>7. Surplus' >= Surplus
  BY <1>5, <1>6
<1> QED
  BY <1>1, <1>3, <1>7 DEF StepKeeps

(* A donation raises what the vault holds and nothing it owes. *)
LEMMA DirectTransferKeeps ==
  ASSUME VaultAssumption, VaultInv, NEW a \in External, NEW n \in Nat, DirectTransfer(a, n)
  PROVE  StepKeeps
<1> PICK delivered \in 0 .. n : TokenTransfer(a, VaultAddress, n, delivered)
  BY DEF DirectTransfer
<1>1. /\ tokenBalance' \in [Address -> Nat]
      /\ tokenBalance'[VaultAddress] = tokenBalance[VaultAddress] + delivered
  BY TransferInCredits DEF VaultInv
<1>2. VaultTypeOK' /\ LocksNameProvider' /\ BondCoversCommitments'
  BY <1>1 DEF DirectTransfer, VaultInv, VaultTypeOK, LocksNameProvider, BondCoversCommitments
<1>3. Balances' = Balances /\ \A p \in Address : LockedBy(p)' = LockedBy(p)
  BY DEF DirectTransfer, Balances, LockedBy
<1>4. LockedIsSumOfActiveLocks'
  BY <1>3 DEF DirectTransfer, VaultInv, LockedIsSumOfActiveLocks
<1>5. SumOver(Address, Balances) \in Nat /\ tokenBalance[VaultAddress] \in Nat
  BY SumsAreNat DEF VaultInv, VaultTypeOK, VaultAssumption
<1>6. Surplus' = tokenBalance'[VaultAddress] - SumOver(Address, Balances)
  BY <1>3 DEF Surplus
<1>7. Surplus' >= Surplus
  BY <1>1, <1>5, <1>6 DEF Surplus
<1> QED
  BY <1>2, <1>4, <1>7 DEF StepKeeps

(* An account update whose balance moves no further than the vault's tokens. *)
LEMMA AccountUpdateStep ==
  ASSUME VaultAssumption, VaultInv, NEW q \in Address, NEW r \in BondAccount,
         accounts' = [accounts EXCEPT ![q] = r], covenantLocks' = covenantLocks,
         r.locked = accounts[q].locked, r.locked + r.queuedWithdrawal <= r.balance,
         tokenBalance' \in [Address -> Nat],
         tokenBalance'[VaultAddress] - tokenBalance[VaultAddress]
           >= r.balance - accounts[q].balance,
         UNCHANGED <<vaultOwner, vaultPendingOwner, manager, now>>
  PROVE  StepKeeps
<1>1. /\ accounts' \in [Address -> BondAccount]
      /\ LocksNameProvider' /\ LockedIsSumOfActiveLocks' /\ BondCoversCommitments'
  BY AccountUpdateKeeps
<1>2. VaultTypeOK'
  BY <1>1 DEF VaultInv, VaultTypeOK
<1>3. /\ SumOver(Address, Balances') \in Nat
      /\ SumOver(Address, Balances') =
           SumOver(Address, Balances) - accounts[q].balance + r.balance
  BY BalanceMoves DEF VaultInv
<1>4. /\ SumOver(Address, Balances) \in Nat
      /\ accounts[q].balance \in Nat /\ r.balance \in Nat
      /\ tokenBalance[VaultAddress] \in Nat /\ tokenBalance'[VaultAddress] \in Nat
  BY SumsAreNat DEF VaultInv, VaultTypeOK, VaultAssumption, BondAccount
<1>5. Surplus' = tokenBalance'[VaultAddress] - SumOver(Address, Balances')
  BY DEF Surplus
<1>6. Surplus' >= Surplus
  BY <1>3, <1>4, <1>5 DEF Surplus
<1> QED
  BY <1>1, <1>2, <1>6 DEF StepKeeps

(* A lock update whose balance moves no further than the vault's tokens. *)
LEMMA LockUpdateStep ==
  ASSUME VaultAssumption, VaultInv,
         NEW c \in Covenant, NEW l \in CovenantLock, NEW q \in Address, NEW r \in BondAccount,
         covenantLocks' = [covenantLocks EXCEPT ![c] = l],
         accounts' = [accounts EXCEPT ![q] = r],
         covenantLocks[c].active => covenantLocks[c].provider = q,
         l.active => l.provider = q,
         r.locked = accounts[q].locked
                      - (IF covenantLocks[c].active THEN covenantLocks[c].amount ELSE 0)
                      + (IF l.active THEN l.amount ELSE 0),
         r.locked + r.queuedWithdrawal <= r.balance,
         tokenBalance' \in [Address -> Nat],
         tokenBalance'[VaultAddress] - tokenBalance[VaultAddress]
           >= r.balance - accounts[q].balance,
         UNCHANGED <<vaultOwner, vaultPendingOwner, manager>>, now' \in Nat
  PROVE  StepKeeps
<1>1. /\ accounts' \in [Address -> BondAccount]
      /\ covenantLocks' \in [Covenant -> CovenantLock]
      /\ LocksNameProvider' /\ LockedIsSumOfActiveLocks' /\ BondCoversCommitments'
  BY LockUpdateKeeps
<1>2. VaultTypeOK'
  BY <1>1 DEF VaultInv, VaultTypeOK
<1>3. /\ SumOver(Address, Balances') \in Nat
      /\ SumOver(Address, Balances') =
           SumOver(Address, Balances) - accounts[q].balance + r.balance
  BY BalanceMoves DEF VaultInv
<1>4. /\ SumOver(Address, Balances) \in Nat
      /\ accounts[q].balance \in Nat /\ r.balance \in Nat
      /\ tokenBalance[VaultAddress] \in Nat /\ tokenBalance'[VaultAddress] \in Nat
  BY SumsAreNat DEF VaultInv, VaultTypeOK, VaultAssumption, BondAccount
<1>5. Surplus' = tokenBalance'[VaultAddress] - SumOver(Address, Balances')
  BY DEF Surplus
<1>6. Surplus' >= Surplus
  BY <1>3, <1>4, <1>5 DEF Surplus
<1> QED
  BY <1>1, <1>2, <1>6 DEF StepKeeps

(* depositFor credits what was received. *)
LEMMA DepositForKeeps ==
  ASSUME VaultAssumption, VaultInv, NEW a \in External, NEW p \in Address, NEW n \in Nat,
         DepositFor(a, p, n)
  PROVE  StepKeeps
<1> DEFINE r == [accounts[p] EXCEPT !.balance = @ + n]
<1>1. r \in BondAccount /\ r.locked = accounts[p].locked
      /\ r.queuedWithdrawal = accounts[p].queuedWithdrawal /\ r.balance = accounts[p].balance + n
      /\ accounts[p] \in BondAccount
  BY DEF VaultInv, VaultTypeOK, BondAccount
<1>2. accounts' = [accounts EXCEPT ![p] = r]
  BY DEF DepositFor, VaultInv, VaultTypeOK
<1> PICK delivered \in 0 .. n : /\ TokenTransfer(a, VaultAddress, n, delivered)
                                /\ ReceivedExactly(VaultAddress, n)
  BY DEF DepositFor
<1>3. /\ tokenBalance' \in [Address -> Nat]
      /\ tokenBalance'[VaultAddress] = tokenBalance[VaultAddress] + n
  BY TransferInCredits DEF VaultInv, ReceivedExactly
<1>4. r.locked + r.queuedWithdrawal <= r.balance
  BY <1>1 DEF VaultInv, BondCoversCommitments, BondAccount
<1>5. tokenBalance'[VaultAddress] - tokenBalance[VaultAddress] >= r.balance - accounts[p].balance
  BY <1>1, <1>3 DEF VaultInv, VaultTypeOK, VaultAssumption, BondAccount
<1>6. covenantLocks' = covenantLocks /\ UNCHANGED <<vaultOwner, vaultPendingOwner, manager, now>>
  BY DEF DepositFor
<1> HIDE DEF r
<1> QED
  BY <1>1, <1>2, <1>3, <1>4, <1>5, <1>6, AccountUpdateStep

(* requestWithdrawal queues no more than is available. *)
LEMMA RequestWithdrawalKeeps ==
  ASSUME VaultAssumption, VaultInv, NEW p \in External, NEW n \in Nat,
         RequestWithdrawal(p, n)
  PROVE  StepKeeps
<1> DEFINE r == [accounts[p] EXCEPT !.queuedWithdrawal = n,
                                    !.withdrawalReadyAt = now + WithdrawalDelay]
<1>1. p \in Address /\ accounts[p] \in BondAccount /\ now + WithdrawalDelay \in Nat
  BY DEF External, VaultInv, VaultTypeOK, VaultAssumption
<1>2. r \in BondAccount /\ r.locked = accounts[p].locked /\ r.queuedWithdrawal = n
      /\ r.balance = accounts[p].balance /\ accounts[p] \in BondAccount
  BY <1>1 DEF BondAccount
<1>3. accounts' = [accounts EXCEPT ![p] = r]
  BY <1>1 DEF RequestWithdrawal, VaultInv, VaultTypeOK
<1>4. r.locked + r.queuedWithdrawal <= r.balance
  BY <1>2 DEF RequestWithdrawal, availableBond, BondAccount
<1>5. /\ tokenBalance' \in [Address -> Nat]
      /\ tokenBalance'[VaultAddress] - tokenBalance[VaultAddress] >= r.balance - accounts[p].balance
  BY <1>2 DEF RequestWithdrawal, VaultInv, VaultTypeOK, VaultAssumption, BondAccount
<1>6. covenantLocks' = covenantLocks /\ UNCHANGED <<vaultOwner, vaultPendingOwner, manager, now>>
  BY DEF RequestWithdrawal
<1> HIDE DEF r
<1> QED
  BY <1>1, <1>2, <1>3, <1>4, <1>5, <1>6, AccountUpdateStep

(* cancelWithdrawal only frees bond. *)
LEMMA CancelWithdrawalKeeps ==
  ASSUME VaultAssumption, VaultInv, NEW p \in External, CancelWithdrawal(p)
  PROVE  StepKeeps
<1> DEFINE r == [accounts[p] EXCEPT !.queuedWithdrawal = 0, !.withdrawalReadyAt = 0]
<1>1. p \in Address
  BY DEF External
<1>2. r \in BondAccount /\ r.locked = accounts[p].locked /\ r.queuedWithdrawal = 0
      /\ r.balance = accounts[p].balance /\ accounts[p] \in BondAccount
  BY <1>1 DEF VaultInv, VaultTypeOK, BondAccount
<1>3. accounts' = [accounts EXCEPT ![p] = r]
  BY <1>1 DEF CancelWithdrawal, VaultInv, VaultTypeOK
<1>4. r.locked + r.queuedWithdrawal <= r.balance
  BY <1>1, <1>2 DEF VaultInv, BondCoversCommitments, BondAccount
<1>5. /\ tokenBalance' \in [Address -> Nat]
      /\ tokenBalance'[VaultAddress] - tokenBalance[VaultAddress] >= r.balance - accounts[p].balance
  BY <1>2 DEF CancelWithdrawal, VaultInv, VaultTypeOK, VaultAssumption, BondAccount
<1>6. covenantLocks' = covenantLocks /\ UNCHANGED <<vaultOwner, vaultPendingOwner, manager, now>>
  BY DEF CancelWithdrawal
<1> HIDE DEF r
<1> QED
  BY <1>1, <1>2, <1>3, <1>4, <1>5, <1>6, AccountUpdateStep

(* executeWithdrawal pays out what it debits, which no lock needs. *)
LEMMA ExecuteWithdrawalKeeps ==
  ASSUME VaultAssumption, VaultInv, NEW p \in External, ExecuteWithdrawal(p)
  PROVE  StepKeeps
<1> DEFINE n == accounts[p].queuedWithdrawal
           r == [accounts[p] EXCEPT !.queuedWithdrawal = 0, !.withdrawalReadyAt = 0,
                                    !.balance = @ - n]
<1>1. p \in Address
  BY DEF External
<1>2. accounts[p] \in BondAccount /\ accounts[p].locked + n <= accounts[p].balance
  BY <1>1 DEF VaultInv, VaultTypeOK, BondCoversCommitments
<1>3. r \in BondAccount /\ r.locked = accounts[p].locked /\ r.queuedWithdrawal = 0
      /\ r.balance = accounts[p].balance - n /\ n \in Nat
  <2>1. /\ n \in Nat /\ accounts[p].balance \in Nat /\ accounts[p].locked \in Nat
        /\ accounts[p].balance - n \in Nat
    BY <1>2 DEF BondAccount
  <2> HIDE DEF n
  <2> QED
    BY <1>2, <2>1 DEF BondAccount
<1>4. accounts' = [accounts EXCEPT ![p] = r]
  BY <1>1 DEF ExecuteWithdrawal, VaultInv, VaultTypeOK
<1>5. r.locked + r.queuedWithdrawal <= r.balance
  BY <1>2, <1>3 DEF BondAccount
<1>6. /\ tokenBalance' \in [Address -> Nat]
      /\ tokenBalance'[VaultAddress] = tokenBalance[VaultAddress] - n
  BY <1>1, <1>3, SafeTransferDebits DEF ExecuteWithdrawal, VaultInv
<1>7. tokenBalance'[VaultAddress] - tokenBalance[VaultAddress] >= r.balance - accounts[p].balance
  BY <1>2, <1>3, <1>6 DEF VaultInv, VaultTypeOK, VaultAssumption, BondAccount
<1>8. covenantLocks' = covenantLocks /\ UNCHANGED <<vaultOwner, vaultPendingOwner, manager, now>>
  BY DEF ExecuteWithdrawal
<1> HIDE DEF r, n
<1> QED
  BY <1>1, <1>3, <1>4, <1>5, <1>6, <1>7, <1>8, AccountUpdateStep

(* lock takes only available bond, under a covenant id never locked before. *)
LEMMA LockBondKeeps ==
  ASSUME VaultAssumption, VaultInv, NEW m, NEW c \in Covenant, NEW p \in Address,
         NEW n \in Nat, LockBond(m, c, p, n), now' \in Nat,
         covenantLocks[c].provider = NoAddress
  PROVE  StepKeeps
<1> DEFINE r == [accounts[p] EXCEPT !.locked = @ + n]
           l == [provider |-> p, amount |-> n, active |-> TRUE]
<1>1. /\ l \in CovenantLock /\ l.active /\ l.provider = p /\ l.amount = n
      /\ accounts[p] \in BondAccount
  BY DEF CovenantLock, VaultInv, VaultTypeOK
<1>2. r \in BondAccount /\ r.locked = accounts[p].locked + n
      /\ r.queuedWithdrawal = accounts[p].queuedWithdrawal /\ r.balance = accounts[p].balance
  BY <1>1 DEF BondAccount
<1>3. ~covenantLocks[c].active
  BY DEF VaultInv, LocksNameProvider, VaultAssumption
<1>4. /\ accounts' = [accounts EXCEPT ![p] = r]
      /\ covenantLocks' = [covenantLocks EXCEPT ![c] = l]
  BY DEF LockBond, VaultInv, VaultTypeOK
<1>5. r.locked + r.queuedWithdrawal <= r.balance
  BY <1>1, <1>2 DEF LockBond, availableBond, BondAccount
<1>6. /\ tokenBalance' \in [Address -> Nat]
      /\ tokenBalance'[VaultAddress] - tokenBalance[VaultAddress] >= r.balance - accounts[p].balance
  BY <1>1, <1>2 DEF LockBond, VaultInv, VaultTypeOK, VaultAssumption, BondAccount
<1>7. r.locked = accounts[p].locked
                   - (IF covenantLocks[c].active THEN covenantLocks[c].amount ELSE 0)
                   + (IF l.active THEN l.amount ELSE 0)
  BY <1>1, <1>2, <1>3 DEF BondAccount
<1>8. UNCHANGED <<vaultOwner, vaultPendingOwner, manager>>
  BY DEF LockBond
<1> HIDE DEF r, l
<1> QED
  BY <1>1, <1>2, <1>3, <1>4, <1>5, <1>6, <1>7, <1>8, LockUpdateStep

(* release returns exactly what the covenant had locked. *)
LEMMA ReleaseBondKeeps ==
  ASSUME VaultAssumption, VaultInv, NEW m, NEW c \in Covenant, ReleaseBond(m, c), now' \in Nat
  PROVE  StepKeeps
<1> DEFINE p == covenantLocks[c].provider
           n == covenantLocks[c].amount
           r == [accounts[p] EXCEPT !.locked = @ - n]
           l == [covenantLocks[c] EXCEPT !.active = FALSE]
<1>1. covenantLocks[c] \in CovenantLock /\ covenantLocks[c].active /\ p \in Address /\ n \in Nat
  BY DEF ReleaseBond, VaultInv, VaultTypeOK, LocksNameProvider, CovenantLock
<1>2. accounts[p] \in BondAccount /\ SumOver(Covenant, LockedBy(p)) = accounts[p].locked
      /\ accounts[p].locked + accounts[p].queuedWithdrawal <= accounts[p].balance
  BY <1>1 DEF VaultInv, VaultTypeOK, LockedIsSumOfActiveLocks, BondCoversCommitments
<1>3. n <= accounts[p].locked
  <2>1. LockedBy(p)[c] = n
    BY <1>1 DEF LockedBy
  <2>2. \A d \in Covenant : LockedBy(p)[d] \in Nat
    BY DEF VaultInv, VaultTypeOK, LockedBy, CovenantLock
  <2> QED
    BY <1>2, <2>1, <2>2, SumOverEntry DEF VaultAssumption
<1>4. l \in CovenantLock /\ ~l.active
  BY <1>1 DEF CovenantLock
<1>5. r \in BondAccount /\ r.locked = accounts[p].locked - n
      /\ r.queuedWithdrawal = accounts[p].queuedWithdrawal /\ r.balance = accounts[p].balance
  BY <1>1, <1>2, <1>3 DEF BondAccount
<1>6. /\ accounts' = [accounts EXCEPT ![p] = r]
      /\ covenantLocks' = [covenantLocks EXCEPT ![c] = l]
  BY DEF ReleaseBond, VaultInv, VaultTypeOK
<1>7. r.locked + r.queuedWithdrawal <= r.balance
  BY <1>1, <1>2, <1>5 DEF BondAccount
<1>8. /\ tokenBalance' \in [Address -> Nat]
      /\ tokenBalance'[VaultAddress] - tokenBalance[VaultAddress] >= r.balance - accounts[p].balance
  BY <1>2, <1>5 DEF ReleaseBond, VaultInv, VaultTypeOK, VaultAssumption, BondAccount
<1>9. r.locked = accounts[p].locked
                   - (IF covenantLocks[c].active THEN covenantLocks[c].amount ELSE 0)
                   + (IF l.active THEN l.amount ELSE 0)
  BY <1>1, <1>2, <1>4, <1>5 DEF BondAccount
<1>10. UNCHANGED <<vaultOwner, vaultPendingOwner, manager>> /\ covenantLocks[c].provider = p
  BY DEF ReleaseBond
<1> HIDE DEF r, l, n, p
<1> QED
  BY <1>1, <1>4, <1>5, <1>6, <1>7, <1>8, <1>9, <1>10, LockUpdateStep

(* slash pays at most the covenant's lock and frees the rest of it. *)
LEMMA SlashBondKeeps ==
  ASSUME VaultAssumption, VaultInv, NEW m, NEW c \in Covenant, NEW to \in Address,
         NEW payout \in Nat, SlashBond(m, c, to, payout), now' \in Nat
  PROVE  StepKeeps
<1> DEFINE p == covenantLocks[c].provider
           n == covenantLocks[c].amount
           r == AccountAfterSlash(accounts[p], n, payout)
           l == [covenantLocks[c] EXCEPT !.active = FALSE]
<1>1. /\ covenantLocks[c] \in CovenantLock /\ covenantLocks[c].active
      /\ p \in Address /\ n \in Nat /\ payout <= n
  BY DEF SlashBond, VaultInv, VaultTypeOK, LocksNameProvider, CovenantLock
<1>2. accounts[p] \in BondAccount /\ SumOver(Covenant, LockedBy(p)) = accounts[p].locked
      /\ accounts[p].locked + accounts[p].queuedWithdrawal <= accounts[p].balance
  BY <1>1 DEF VaultInv, VaultTypeOK, LockedIsSumOfActiveLocks, BondCoversCommitments
<1>3. n <= accounts[p].locked
  <2>1. LockedBy(p)[c] = n
    BY <1>1 DEF LockedBy
  <2>2. \A d \in Covenant : LockedBy(p)[d] \in Nat
    BY DEF VaultInv, VaultTypeOK, LockedBy, CovenantLock
  <2> QED
    BY <1>2, <2>1, <2>2, SumOverEntry DEF VaultAssumption
<1>4. l \in CovenantLock /\ ~l.active
  BY <1>1 DEF CovenantLock
<1>5. r \in BondAccount /\ r.locked = accounts[p].locked - n
      /\ r.queuedWithdrawal = accounts[p].queuedWithdrawal
      /\ r.balance = accounts[p].balance - payout
  <2>1. /\ accounts[p].locked - n \in Nat /\ accounts[p].balance - payout \in Nat
    BY <1>1, <1>2, <1>3 DEF BondAccount
  <2> HIDE DEF n
  <2> QED
    BY <1>2, <2>1 DEF BondAccount, AccountAfterSlash
<1>6. /\ accounts' = [accounts EXCEPT ![p] = r]
      /\ covenantLocks' = [covenantLocks EXCEPT ![c] = l]
  BY DEF SlashBond, VaultInv, VaultTypeOK
<1>7. r.locked + r.queuedWithdrawal <= r.balance
  BY <1>1, <1>2, <1>5 DEF BondAccount
<1>8. /\ tokenBalance' \in [Address -> Nat]
      /\ tokenBalance'[VaultAddress] = tokenBalance[VaultAddress] - payout
  BY SafeTransferDebits DEF SlashBond, VaultInv
<1>9. tokenBalance'[VaultAddress] - tokenBalance[VaultAddress] >= r.balance - accounts[p].balance
  BY <1>2, <1>5, <1>8 DEF VaultInv, VaultTypeOK, VaultAssumption, BondAccount
<1>10. r.locked = accounts[p].locked
                   - (IF covenantLocks[c].active THEN covenantLocks[c].amount ELSE 0)
                   + (IF l.active THEN l.amount ELSE 0)
  BY <1>1, <1>2, <1>4, <1>5 DEF BondAccount
<1>11. UNCHANGED <<vaultOwner, vaultPendingOwner, manager>> /\ covenantLocks[c].provider = p
  BY DEF SlashBond
<1> HIDE DEF r, l, n, p
<1> QED
  BY <1>1, <1>4, <1>5, <1>6, <1>7, <1>8, <1>9, <1>10, <1>11, LockUpdateStep

(* Every step of the vault, and stuttering, keeps the invariant's parts. *)
LEMMA VaultStepKeeps ==
  ASSUME VaultAssumption, VaultInv, [VaultNext]_vaultVars
  PROVE  StepKeeps
<1>1. ASSUME NEW a \in External, NEW b \in Address, TransferOwnership(a, b)
      PROVE  StepKeeps
  BY <1>1, AdminKeeps DEF TransferOwnership, VaultInv, VaultTypeOK
<1>2. ASSUME NEW a \in External, AcceptOwnership(a)
      PROVE  StepKeeps
  BY <1>2, AdminKeeps DEF AcceptOwnership, External, VaultInv, VaultTypeOK
<1>3. ASSUME NEW a \in External, NEW b \in Address, InitializeManager(a, b)
      PROVE  StepKeeps
  BY <1>3, AdminKeeps DEF InitializeManager, VaultInv, VaultTypeOK
<1>4. ASSUME NEW a \in External, NEW n \in Amount, DirectTransfer(a, n)
      PROVE  StepKeeps
  BY <1>4, DirectTransferKeeps DEF VaultAssumption
<1>5. ASSUME NEW a \in External, NEW p \in Address, NEW n \in Amount, DepositFor(a, p, n)
      PROVE  StepKeeps
  BY <1>5, DepositForKeeps DEF VaultAssumption
<1>6. ASSUME NEW p \in External, NEW n \in Amount, RequestWithdrawal(p, n)
      PROVE  StepKeeps
  BY <1>6, RequestWithdrawalKeeps DEF VaultAssumption
<1>7. ASSUME NEW p \in External, CancelWithdrawal(p)
      PROVE  StepKeeps
  BY <1>7, CancelWithdrawalKeeps
<1>8. ASSUME NEW p \in External, ExecuteWithdrawal(p)
      PROVE  StepKeeps
  BY <1>8, ExecuteWithdrawalKeeps
<1>9. ASSUME NEW m \in External, NEW c \in Covenant, NEW p \in Address, NEW n \in Amount,
             LockBond(m, c, p, n), UNCHANGED now
      PROVE  StepKeeps
  <2>1. covenantLocks[c].provider = NoAddress
    BY <1>9 DEF LockBond, NeverLocked
  <2> QED
    BY <1>9, <2>1, LockBondKeeps DEF VaultAssumption, VaultInv, VaultTypeOK
<1>10. ASSUME NEW m \in External, NEW c \in Covenant, ReleaseBond(m, c), UNCHANGED now
       PROVE  StepKeeps
  BY <1>10, ReleaseBondKeeps DEF VaultInv, VaultTypeOK
<1>11. ASSUME NEW m \in External, NEW c \in Covenant, NEW to \in Address,
              NEW n \in 1 .. covenantLocks[c].amount, SlashBond(m, c, to, n), UNCHANGED now
       PROVE  StepKeeps
  BY <1>11, SlashBondKeeps DEF VaultInv, VaultTypeOK
<1>12. CASE Tick
  BY <1>12, AdminKeeps DEF Tick, VaultInv, VaultTypeOK
<1>13. CASE UNCHANGED vaultVars
  BY <1>13, AdminKeeps DEF vaultVars, VaultInv, VaultTypeOK
<1> QED
  BY <1>1, <1>2, <1>3, <1>4, <1>5, <1>6, <1>7, <1>8, <1>9, <1>10, <1>11, <1>12, <1>13
     DEF VaultNext, VaultUserNext, VaultUsersNext, VaultManagerNext

(* The invariant's parts after a step, with a surplus that did not fall, are  *)
(* the invariant.                                                             *)
LEMMA VaultInvStep ==
  ASSUME VaultAssumption, VaultInv, StepKeeps
  PROVE  VaultInv'
<1>1. VaultTypeOK'
  BY DEF StepKeeps
<1>2. SumOver(Address, Balances) \in Nat /\ tokenBalance[VaultAddress] \in Nat
  BY SumsAreNat DEF VaultInv, VaultTypeOK, VaultAssumption
<1>3. tokenBalance'[VaultAddress] \in Nat
  BY <1>1 DEF VaultTypeOK, VaultAssumption
<1>4. SumOver(Address, Balances') \in Nat
  <2>1. \A p \in Address : Balances'[p] \in Nat
    BY <1>1 DEF VaultTypeOK, Balances, BondAccount
  <2> QED
    BY <2>1, SumOverIsNat DEF VaultAssumption
<1>5. VaultSolvent'
  BY <1>2, <1>3, <1>4 DEF StepKeeps, VaultInv, VaultSolvent, Surplus
<1> QED
  BY <1>5 DEF VaultInv, StepKeeps

(* At deployment nothing is owed. *)
LEMMA VaultInvInit ==
  ASSUME VaultAssumption, VaultInit
  PROVE  VaultInv
<1>1. VaultTypeOK
  BY DEF VaultAssumption, VaultInit, VaultTypeOK, EmptyAccount, NoLock, BondAccount,
         CovenantLock, External
<1>2. LocksNameProvider
  BY DEF VaultInit, LocksNameProvider, NoLock
<1>3. LockedIsSumOfActiveLocks
  <2>1. \A p \in Address : \A c \in Covenant : LockedBy(p)[c] = 0
    BY DEF VaultInit, LockedBy, NoLock
  <2>2. \A p \in Address : SumOver(Covenant, LockedBy(p)) = 0
    BY <2>1, SumOverZero
  <2> QED
    BY <2>2 DEF VaultInit, LockedIsSumOfActiveLocks, EmptyAccount
<1>4. BondCoversCommitments
  BY DEF VaultInit, BondCoversCommitments, EmptyAccount
<1>5. VaultSolvent
  <2>1. \A p \in Address : Balances[p] = 0
    BY DEF VaultInit, Balances, EmptyAccount
  <2>2. SumOver(Address, Balances) = 0
    BY <2>1, SumOverZero
  <2> QED
    BY <1>1, <2>2 DEF VaultTypeOK, VaultSolvent, VaultAssumption
<1> QED
  BY <1>1, <1>2, <1>3, <1>4, <1>5 DEF VaultInv

(* No step reopens a lock or rewrites one that was made. *)
LEMMA VaultStepSpendsOnce ==
  ASSUME VaultAssumption, VaultInv, [VaultNext]_vaultVars,
         NEW c \in Covenant, covenantLocks[c].provider # NoAddress
  PROVE  SpentOnce(c)
<1>0. covenantLocks \in [Covenant -> CovenantLock]
  BY DEF VaultInv, VaultTypeOK
<1>1. CASE covenantLocks' = covenantLocks
  BY <1>1 DEF SpentOnce
<1>2. ASSUME NEW m \in External, NEW d \in Covenant, NEW p \in Address, NEW n \in Amount,
             LockBond(m, d, p, n)
      PROVE  SpentOnce(c)
  <2>1. d # c
    BY <1>2 DEF LockBond, NeverLocked
  <2> QED
    BY <1>0, <1>2, <2>1 DEF LockBond, SpentOnce
<1>3. ASSUME NEW m \in External, NEW d \in Covenant, ReleaseBond(m, d)
      PROVE  SpentOnce(c)
  BY <1>0, <1>3 DEF ReleaseBond, SpentOnce, CovenantLock
<1>4. ASSUME NEW m \in External, NEW d \in Covenant, NEW to \in Address,
             NEW n \in 1 .. covenantLocks[d].amount, SlashBond(m, d, to, n)
      PROVE  SpentOnce(c)
  BY <1>0, <1>4 DEF SlashBond, SpentOnce, CovenantLock
<1>5. ASSUME VaultUserNext
      PROVE  covenantLocks' = covenantLocks
  BY <1>5 DEF VaultUserNext, VaultUsersNext, TransferOwnership, AcceptOwnership, InitializeManager,
     DirectTransfer, DepositFor, RequestWithdrawal, CancelWithdrawal, ExecuteWithdrawal
<1>6. ASSUME Tick \/ UNCHANGED vaultVars
      PROVE  covenantLocks' = covenantLocks
  BY <1>6 DEF Tick, vaultVars
<1>7. CASE VaultManagerNext
  BY <1>2, <1>3, <1>4, <1>7 DEF VaultManagerNext
<1> QED
  BY <1>1, <1>5, <1>6, <1>7 DEF VaultNext

-------------------------------------------------------------------------------
(* Theorems *)

(* The invariant holds in every state the vault reaches. *)
LEMMA VaultInvariant == VaultSpec => []VaultInv
<1>1. VaultInit => VaultInv
  BY VaultAssumption, VaultInvInit
<1>2. VaultInv /\ [VaultNext]_vaultVars => VaultInv'
  BY VaultAssumption, VaultStepKeeps, VaultInvStep
<1> QED
  BY <1>1, <1>2, PTL DEF VaultSpec

(* Every reachable state of the vault has its type. *)
THEOREM VaultTypes == VaultSpec => []VaultTypeOK
<1>1. VaultInv => VaultTypeOK
  BY DEF VaultInv
<1> QED
  BY <1>1, VaultInvariant, PTL

(* The locked total of every provider is always the sum of its active locks, *)
(* whatever order its covenants are locked, released and slashed in.         *)
THEOREM VaultLocksAddUp == VaultSpec => []LockedIsSumOfActiveLocks
<1>1. VaultInv => LockedIsSumOfActiveLocks
  BY DEF VaultInv
<1> QED
  BY <1>1, VaultInvariant, PTL

(* Locks and queued withdrawals never exceed a provider's balance, so a      *)
(* matured withdrawal never takes bond that backs a covenant.                *)
THEOREM VaultBondCovers == VaultSpec => []BondCoversCommitments
<1>1. VaultInv => BondCoversCommitments
  BY DEF VaultInv
<1> QED
  BY <1>1, VaultInvariant, PTL

(* The vault always holds the tokens it owes, with any fee or failure of the *)
(* asset on any transfer.                                                    *)
THEOREM VaultStaysSolvent == VaultSpec => []VaultSolvent
<1>1. VaultInv => VaultSolvent
  BY DEF VaultInv
<1> QED
  BY <1>1, VaultInvariant, PTL

(* No transaction takes more tokens out of the vault than bond it debits. *)
THEOREM VaultSurplusNeverFalls == VaultSpec => SurplusNeverFalls
<1>1. VaultInv /\ [VaultNext]_vaultVars => [Surplus' >= Surplus]_vaultVars
  BY VaultAssumption, VaultStepKeeps DEF StepKeeps
<1> QED
  BY <1>1, VaultInvariant, PTL DEF VaultSpec, SurplusNeverFalls

(* A covenant's lock is made once and spent once. *)
THEOREM VaultLocksOneShot == VaultSpec => LocksAreOneShot
<1> DEFINE Step == \A c \in Covenant : covenantLocks[c].provider # NoAddress => SpentOnce(c)
<1>1. VaultInv /\ [VaultNext]_vaultVars => [Step]_vaultVars
  BY VaultAssumption, VaultStepSpendsOnce
<1> QED
  BY <1>1, VaultInvariant, PTL DEF VaultSpec, LocksAreOneShot

-------------------------------------------------------------------------------
(* The registry *)

VersionsAreCounted ==
    \A id \in Policy : registered(id) => id.version <= latestVersion[id.service]

RegistryInv == RegistryTypeOK /\ VersionsAreCounted

allRegistryVars == <<vaultVars, registryVars>>

-------------------------------------------------------------------------------
(* The shape of a policy, and of the steps *)

(* A policy's id is its service and version. *)
LEMMA PolicyShape ==
  ASSUME RegistryAssumption, NEW id \in Policy
  PROVE  /\ id.service \in Service /\ id.version \in 1 .. MaxVersion
         /\ id = [service |-> id.service, version |-> id.version]
BY DEF RegistryAssumption

(* A policy that was registered and active is a whole record. *)
LEMMA ActiveIsRecord ==
  ASSUME RegistryTypeOK, NEW id \in Policy, policies[id].active
  PROVE  policies[id] \in PolicyRecord
BY DEF RegistryTypeOK, NoPolicy

(* What the retirement of a policy does: it stays what it was, but inactive. *)
Retires(id) == policies' = [policies EXCEPT ![id].active = FALSE]

(* The kinds of step: a registration, a retirement, or neither. *)
LEMMA RegistrySteps ==
  ASSUME RegistryAssumption, VaultAssumption, RegistryTypeOK, [RegistryNext]_allRegistryVars
  PROVE  \/ \E p \in External, s \in Service, t \in Terms : register(p, s, t)
         \/ \E e \in enrollments : register(e.provider, e.service, e.terms)
         \/ /\ \E id \in Policy : policies[id].active /\ Retires(id)
            /\ UNCHANGED latestVersion
         \/ UNCHANGED <<policies, latestVersion>>
<1>1. CASE UNCHANGED allRegistryVars
  BY <1>1 DEF allRegistryVars, registryVars
<1>2. CASE VaultNext /\ UNCHANGED registryVars
  BY <1>2 DEF registryVars
<1>3. CASE RegistryActions
  BY <1>3 DEF RegistryActions, RegisterPolicy, SignEnrollment, RegisterPolicyBySig, PausePolicy,
     SuspendForFingerprint, SetMonitor, TransferRegistry, AcceptRegistry, TransferAgent, Retires
<1> QED
  BY <1>1, <1>2, <1>3 DEF RegistryNext

(* A registration puts a fresh record under the next version of its service. *)
LEMMA RegisterKeeps ==
  ASSUME RegistryAssumption, RegistryInv,
         NEW p \in Address, NEW s \in Service, NEW t \in Terms, register(p, s, t)
  PROVE  /\ policies' \in [Policy -> PolicyRecord \cup {NoPolicy}]
         /\ latestVersion' \in [Service -> 0 .. MaxVersion]
         /\ VersionsAreCounted'
         /\ \A id \in Policy : registered(id) => policies'[id] = policies[id]
<1> DEFINE new == [service |-> s, version |-> nextVersion(s)]
<1>1. latestVersion \in [Service -> 0 .. MaxVersion] /\ MaxVersion \in Nat
  BY DEF RegistryInv, RegistryTypeOK, RegistryAssumption
<1>2. nextVersion(s) \in 1 .. MaxVersion
  BY <1>1 DEF register, nextVersion
<1>3. new \in Policy
  BY <1>2 DEF RegistryAssumption
<1>4. policies' = [policies EXCEPT ![new] = [provider |-> p, terms |-> t, active |-> TRUE]]
  BY DEF register
<1>5. policies' \in [Policy -> PolicyRecord \cup {NoPolicy}]
  BY <1>3, <1>4 DEF RegistryInv, RegistryTypeOK, PolicyRecord
<1>6. latestVersion' = [latestVersion EXCEPT ![s] = latestVersion[s] + 1]
  BY DEF register, nextVersion
<1>7. latestVersion' \in [Service -> 0 .. MaxVersion]
  BY <1>1, <1>2, <1>6 DEF nextVersion
<1>8. VersionsAreCounted'
  <2> SUFFICES ASSUME NEW id \in Policy, registered(id)'
               PROVE  id.version <= latestVersion'[id.service]
    BY DEF VersionsAreCounted
  <2>1. id.service \in Service /\ id.version \in 1 .. MaxVersion
    BY PolicyShape
  <2>2. CASE id = new
    BY <1>1, <1>6, <2>2 DEF nextVersion
  <2>3. CASE id # new
    <3>1. registered(id)
      BY <1>4, <2>3 DEF registered, RegistryInv, RegistryTypeOK
    <3>2. id.version <= latestVersion[id.service]
      BY <3>1 DEF RegistryInv, VersionsAreCounted
    <3> QED
      BY <1>1, <1>6, <2>1, <3>2
  <2> QED
    BY <2>2, <2>3
<1>9. ASSUME NEW id \in Policy, registered(id)
      PROVE  policies'[id] = policies[id]
  <2>1. id.version <= latestVersion[id.service] /\ id.version \in 1 .. MaxVersion
    BY <1>9, PolicyShape DEF RegistryInv, VersionsAreCounted
  <2>2. id # new
    BY <1>1, <2>1 DEF nextVersion
  <2> QED
    BY <1>4, <2>2 DEF RegistryInv, RegistryTypeOK
<1> QED
  BY <1>5, <1>7, <1>8, <1>9

-------------------------------------------------------------------------------
(* The invariant *)

(* A retirement changes no id and no provider. *)
LEMMA RetireKeeps ==
  ASSUME RegistryInv, NEW id \in Policy, policies[id].active, Retires(id),
         UNCHANGED latestVersion
  PROVE  /\ policies' \in [Policy -> PolicyRecord \cup {NoPolicy}]
         /\ VersionsAreCounted'
<1>1. policies[id] \in PolicyRecord
  BY ActiveIsRecord DEF RegistryInv
<1>2. policies'[id] = [policies[id] EXCEPT !.active = FALSE]
      /\ \A x \in Policy \ {id} : policies'[x] = policies[x]
  BY DEF Retires, RegistryInv, RegistryTypeOK
<1>3. policies'[id] \in PolicyRecord /\ policies'[id].provider = policies[id].provider
  BY <1>1, <1>2 DEF PolicyRecord
<1>4. policies' \in [Policy -> PolicyRecord \cup {NoPolicy}]
  BY <1>3 DEF Retires, RegistryInv, RegistryTypeOK
<1>5. VersionsAreCounted'
  BY <1>2, <1>3 DEF RegistryInv, VersionsAreCounted, registered
<1> QED
  BY <1>4, <1>5

(* The owner, the monitor, the agents, the nonces, the signatures and what they enrolled *)
(* keep their types.                                                             *)
LEMMA RegistryRolesKeep ==
  ASSUME RegistryAssumption, VaultAssumption, RegistryTypeOK, [RegistryNext]_allRegistryVars
  PROVE  /\ nonces' \in [Address -> Nat]
         /\ registryOwner' \in Address /\ monitor' \in Address
         /\ registryPendingOwner' \in Address \cup {NoAddress}
         /\ agentOwner' \in [Service -> Address]
         /\ enrollments' \subseteq Enrollment
         /\ enrolledBy' \in [Policy -> Enrollment \cup {NoEnrollment}]
<1> USE DEF RegistryTypeOK
<1>1. CASE UNCHANGED allRegistryVars
  BY <1>1 DEF allRegistryVars, registryVars
<1>2. CASE VaultNext /\ UNCHANGED registryVars
  BY <1>2 DEF registryVars
<1>3. ASSUME NEW p \in External, NEW s \in Service, NEW t \in Terms, RegisterPolicy(p, s, t)
      PROVE  UNCHANGED <<nonces, registryOwner, registryPendingOwner, monitor, agentOwner, enrollments,
                        enrolledBy>>
  BY <1>3 DEF RegisterPolicy
<1>4. ASSUME NEW p \in External, NEW s \in Service, NEW t \in Terms, NEW d \in 0 .. MaxTime,
             SignEnrollment(p, s, t, d)
      PROVE  /\ enrollments' \subseteq Enrollment
             /\ UNCHANGED <<nonces, registryOwner, registryPendingOwner, monitor, agentOwner,
                            enrolledBy>>
  <2>1. nonces[p] \in Nat /\ d \in Nat /\ p \in Address
    BY DEF External, VaultAssumption
  <2> QED
    BY <1>4, <2>1 DEF SignEnrollment, Enrollment
<1>5. ASSUME NEW e \in enrollments, RegisterPolicyBySig(e)
      PROVE  /\ nonces' \in [Address -> Nat]
             /\ enrolledBy' \in [Policy -> Enrollment \cup {NoEnrollment}]
             /\ UNCHANGED <<registryOwner, registryPendingOwner, monitor, agentOwner, enrollments>>
  <2>1. e.provider \in Address /\ e.nonce + 1 \in Nat /\ e \in Enrollment
    BY DEF Enrollment
  <2>2. nonces' \in [Address -> Nat]
    BY <1>5, <2>1 DEF RegisterPolicyBySig
  <2>3. enrolledBy' \in [Policy -> Enrollment \cup {NoEnrollment}]
    BY <1>5, <2>1 DEF RegisterPolicyBySig
  <2> QED
    BY <1>5, <2>2, <2>3 DEF RegisterPolicyBySig
<1>6. ASSUME NEW a \in External, NEW id \in Policy,
             PausePolicy(a, id) \/ \E f \in Fingerprint : SuspendForFingerprint(a, id, f)
      PROVE  UNCHANGED <<nonces, registryOwner, registryPendingOwner, monitor, agentOwner, enrollments,
                        enrolledBy>>
  BY <1>6 DEF PausePolicy, SuspendForFingerprint
<1>7. ASSUME NEW a \in External, NEW b \in External,
             SetMonitor(a, b) \/ TransferRegistry(a, b) \/ AcceptRegistry(a)
      PROVE  /\ registryOwner' \in Address /\ monitor' \in Address
             /\ registryPendingOwner' \in Address \cup {NoAddress}
             /\ UNCHANGED <<nonces, agentOwner, enrollments,
                        enrolledBy>>
  BY <1>7 DEF SetMonitor, TransferRegistry, AcceptRegistry, External
<1>8. ASSUME NEW s \in Service, NEW a \in External, TransferAgent(s, a)
      PROVE  /\ agentOwner' \in [Service -> Address]
             /\ UNCHANGED <<nonces, registryOwner, registryPendingOwner, monitor, enrollments,
                            enrolledBy>>
  BY <1>8 DEF TransferAgent, External
<1> HIDE DEF RegistryTypeOK
<1>9. CASE RegistryActions
  BY <1>3, <1>4, <1>5, <1>6, <1>7, <1>8, <1>9 DEF RegistryActions, RegistryTypeOK
<1> QED
  BY <1>1, <1>2, <1>9 DEF RegistryNext

(* Every step keeps the invariant, and the terms of every registered policy. *)
LEMMA RegistryStepKeeps ==
  ASSUME RegistryAssumption, VaultAssumption, RegistryInv, [RegistryNext]_allRegistryVars
  PROVE  RegistryInv'
<1>1. ASSUME NEW p \in External, NEW s \in Service, NEW t \in Terms, register(p, s, t)
      PROVE  /\ policies' \in [Policy -> PolicyRecord \cup {NoPolicy}]
             /\ latestVersion' \in [Service -> 0 .. MaxVersion]
             /\ VersionsAreCounted'
  BY <1>1, RegisterKeeps DEF External
<1>2. ASSUME NEW e \in enrollments, register(e.provider, e.service, e.terms)
      PROVE  /\ policies' \in [Policy -> PolicyRecord \cup {NoPolicy}]
             /\ latestVersion' \in [Service -> 0 .. MaxVersion]
             /\ VersionsAreCounted'
  <2>1. e.provider \in Address /\ e.service \in Service /\ e.terms \in Terms
    BY DEF RegistryInv, RegistryTypeOK, Enrollment
  <2> QED
    BY <1>2, <2>1, RegisterKeeps
<1>3. ASSUME NEW id \in Policy, policies[id].active, Retires(id), UNCHANGED latestVersion
      PROVE  /\ policies' \in [Policy -> PolicyRecord \cup {NoPolicy}]
             /\ latestVersion' \in [Service -> 0 .. MaxVersion]
             /\ VersionsAreCounted'
  BY <1>3, RetireKeeps DEF RegistryInv, RegistryTypeOK
<1>4. ASSUME UNCHANGED <<policies, latestVersion>>
      PROVE  /\ policies' \in [Policy -> PolicyRecord \cup {NoPolicy}]
             /\ latestVersion' \in [Service -> 0 .. MaxVersion]
             /\ VersionsAreCounted'
  BY <1>4 DEF RegistryInv, RegistryTypeOK, VersionsAreCounted, registered
<1>5. /\ policies' \in [Policy -> PolicyRecord \cup {NoPolicy}]
      /\ latestVersion' \in [Service -> 0 .. MaxVersion]
      /\ VersionsAreCounted'
  BY <1>1, <1>2, <1>3, <1>4, RegistrySteps DEF RegistryInv, RegistryTypeOK
<1> QED
  BY <1>5, RegistryRolesKeep DEF RegistryInv, RegistryTypeOK

(* Nothing is registered at deployment. *)
LEMMA RegistryInvInit ==
  ASSUME RegistryAssumption, VaultAssumption, RegistryInit
  PROVE  RegistryInv
BY DEF RegistryAssumption, RegistryInit, RegistryInv, RegistryTypeOK, VersionsAreCounted,
   registered, NoPolicy, NoEnrollment, External

(* The invariant holds in every state the registry reaches. *)
LEMMA RegistryInvariant == RegistrySpec => []RegistryInv
<1>1. RegistryInit => RegistryInv
  BY RegistryAssumption, VaultAssumption, RegistryInvInit
<1>2. RegistryInv /\ [RegistryNext]_allRegistryVars => RegistryInv'
  BY RegistryAssumption, VaultAssumption, RegistryStepKeeps
<1> QED
  BY <1>1, <1>2, PTL DEF RegistrySpec, allRegistryVars

-------------------------------------------------------------------------------
(* Theorems *)

(* Every reachable state of the registry has its type: no version is counted past *)
(* its bound, and every stored policy is a whole record.                          *)
THEOREM RegistryTypes == RegistrySpec => []RegistryTypeOK
<1>1. RegistryInv => RegistryTypeOK
  BY DEF RegistryInv
<1> QED
  BY <1>1, RegistryInvariant, PTL

(* Every nonce that enrolled a policy is behind its provider's next nonce, so that no *)
(* signature waiting to be used carries it.                                           *)
SpentIsBehind ==
    \A id \in Policy :
       bySignature(id) =>
          /\ enrolledBy[id].provider \in Address /\ enrolledBy[id].nonce \in Nat
          /\ enrolledBy[id].nonce < nonces[enrolledBy[id].provider]

(* A signed enrollment that is accepted carries a nonce that enrolled nothing yet. *)
LEMMA SignatureSpends ==
  ASSUME RegistryAssumption, VaultAssumption, RegistryInv, SpentIsBehind, SignatureSpentOnce,
         NEW e \in enrollments, RegisterPolicyBySig(e)
  PROVE  SpentIsBehind' /\ SignatureSpentOnce'
<1> DEFINE new == [service |-> e.service, version |-> nextVersion(e.service)]
<1>1. /\ e \in Enrollment /\ e.provider \in Address /\ e.nonce \in Nat
      /\ e.provider # NoAddress
      /\ nonces \in [Address -> Nat]
      /\ enrolledBy \in [Policy -> Enrollment \cup {NoEnrollment}]
  BY DEF RegistryInv, RegistryTypeOK, Enrollment, VaultAssumption
<1>2. /\ e.nonce = nonces[e.provider]
      /\ nonces' = [nonces EXCEPT ![e.provider] = e.nonce + 1]
      /\ enrolledBy' = [enrolledBy EXCEPT ![new] = e]
  BY DEF RegisterPolicyBySig, acceptsNonce
<1>3. \A id \in Policy : enrolledBy'[id] = e \/ enrolledBy'[id] = enrolledBy[id]
  BY <1>1, <1>2
<1>4. \A id \in Policy : id # new => enrolledBy'[id] = enrolledBy[id]
  BY <1>1, <1>2
<1>5. \A a \in Address : nonces'[a] >= nonces[a]
  BY <1>1, <1>2
<1>6. nonces'[e.provider] = e.nonce + 1
  BY <1>1, <1>2
<1>7. SpentIsBehind'
  <2> SUFFICES ASSUME NEW id \in Policy, bySignature(id)'
               PROVE  /\ enrolledBy'[id].provider \in Address /\ enrolledBy'[id].nonce \in Nat
                      /\ enrolledBy'[id].nonce < nonces'[enrolledBy'[id].provider]
    BY DEF SpentIsBehind
  <2>1. CASE enrolledBy'[id] = e
    BY <1>1, <1>6, <2>1
  <2>2. CASE enrolledBy'[id] = enrolledBy[id]
    <3>1. /\ enrolledBy[id].provider \in Address /\ enrolledBy[id].nonce \in Nat
          /\ enrolledBy[id].nonce < nonces[enrolledBy[id].provider]
      BY <2>2 DEF SpentIsBehind, bySignature
    <3>2. nonces'[enrolledBy[id].provider] >= nonces[enrolledBy[id].provider]
      BY <1>5, <3>1
    <3>3. nonces'[enrolledBy[id].provider] \in Nat
      BY <1>1, <1>2, <3>1
    <3> QED
      BY <1>1, <2>2, <3>1, <3>2, <3>3
  <2> QED
    BY <1>3, <2>1, <2>2
<1>8. SignatureSpentOnce'
  <2> SUFFICES ASSUME NEW id1 \in Policy, NEW id2 \in Policy,
                      bySignature(id1)', bySignature(id2)', id1 # id2
               PROVE  \/ enrolledBy'[id1].provider # enrolledBy'[id2].provider
                      \/ enrolledBy'[id1].nonce # enrolledBy'[id2].nonce
    BY DEF SignatureSpentOnce
  <2>1. ASSUME NEW id \in Policy, id # new, bySignature(id)'
        PROVE  enrolledBy'[id].provider # e.provider \/ enrolledBy'[id].nonce # e.nonce
    <3>1. enrolledBy'[id] = enrolledBy[id] /\ bySignature(id)
      BY <1>4, <2>1 DEF bySignature
    <3>2. enrolledBy[id].nonce < nonces[enrolledBy[id].provider] /\ enrolledBy[id].nonce \in Nat
      BY <3>1 DEF SpentIsBehind
    <3> QED
      BY <1>1, <1>2, <3>1, <3>2
  <2>2. CASE id1 # new /\ id2 # new
    BY <1>4, <2>2 DEF SignatureSpentOnce, bySignature
  <2>3. CASE id1 = new
    BY <1>1, <1>2, <2>1, <2>3
  <2>4. CASE id2 = new
    BY <1>1, <1>2, <2>1, <2>4
  <2> QED
    BY <2>2, <2>3, <2>4
<1> QED
  BY <1>7, <1>8

(* Only the acceptance of a signed enrollment changes a nonce, or what enrolled a policy. *)
LEMMA OnlySignaturesSpend ==
  ASSUME [RegistryNext]_allRegistryVars
  PROVE  \/ UNCHANGED <<nonces, enrolledBy>>
         \/ \E e \in enrollments : RegisterPolicyBySig(e)
BY DEF RegistryNext, allRegistryVars, registryVars, RegistryActions, RegisterPolicy,
   SignEnrollment, PausePolicy, SuspendForFingerprint, SetMonitor, TransferRegistry,
   AcceptRegistry, TransferAgent

(* A provider's signature enrolls at most once, and of all its signatures for one nonce *)
(* at most one ever does, whoever submits them, in whatever order, and however direct   *)
(* registrations are interleaved with them.                                             *)
THEOREM RegistrySignatureSpentOnce == RegistrySpec => []SignatureSpentOnce
<1>1. RegistryAssumption /\ VaultAssumption
  BY RegistryAssumption, VaultAssumption
<1>2. RegistryInit => SpentIsBehind /\ SignatureSpentOnce
  BY DEF RegistryInit, SpentIsBehind, SignatureSpentOnce, bySignature, NoEnrollment
<1>3. RegistryInv /\ SpentIsBehind /\ SignatureSpentOnce /\ [RegistryNext]_allRegistryVars
        => SpentIsBehind' /\ SignatureSpentOnce'
  <2> SUFFICES ASSUME RegistryInv, SpentIsBehind, SignatureSpentOnce,
                      [RegistryNext]_allRegistryVars
               PROVE  SpentIsBehind' /\ SignatureSpentOnce'
    OBVIOUS
  <2>1. CASE UNCHANGED <<nonces, enrolledBy>>
    BY <2>1 DEF SpentIsBehind, SignatureSpentOnce, bySignature
  <2> QED
    BY <1>1, <2>1, OnlySignaturesSpend, SignatureSpends
<1> QED
  BY <1>2, <1>3, RegistryInvariant, PTL DEF RegistrySpec, allRegistryVars

(* A policy that was paused, suspended or superseded is not coverable after any step. *)
LEMMA RetiredStays ==
  ASSUME RegistryAssumption, VaultAssumption, RegistryInv, [RegistryNext]_allRegistryVars,
         NEW id \in Policy, registered(id), ~(policies[id].active /\ isLatest(id))
  PROVE  ~(policies'[id].active /\ isLatest(id)')
<1>1. /\ id.service \in Service /\ id.version \in 1 .. MaxVersion
      /\ id.version <= latestVersion[id.service]
      /\ latestVersion \in [Service -> 0 .. MaxVersion]
  BY PolicyShape DEF RegistryInv, VersionsAreCounted, RegistryTypeOK
<1>2. ASSUME NEW p \in Address, NEW s \in Service, NEW t \in Terms, register(p, s, t)
      PROVE  ~(policies'[id].active /\ isLatest(id)')
  <2>1. policies'[id] = policies[id]
    BY <1>2, RegisterKeeps
  <2>2. latestVersion' = [latestVersion EXCEPT ![s] = latestVersion[s] + 1]
    BY <1>2 DEF register, nextVersion
  <2>3. ~isLatest(id) => ~isLatest(id)'
    BY <1>1, <2>2 DEF isLatest
  <2> QED
    BY <2>1, <2>3
<1>3. ASSUME NEW e \in enrollments, register(e.provider, e.service, e.terms)
      PROVE  ~(policies'[id].active /\ isLatest(id)')
  <2>1. e.provider \in Address /\ e.service \in Service /\ e.terms \in Terms
    BY DEF RegistryInv, RegistryTypeOK, Enrollment
  <2> QED
    BY <1>2, <1>3, <2>1
<1>4. ASSUME NEW x \in Policy, policies[x].active, Retires(x), UNCHANGED latestVersion
      PROVE  ~(policies'[id].active /\ isLatest(id)')
  <2>1. isLatest(id)' = isLatest(id)
    BY <1>4 DEF isLatest
  <2>2. policies'[x].active = FALSE
    BY <1>4, ActiveIsRecord DEF Retires, RegistryInv, RegistryTypeOK, PolicyRecord
  <2>3. x # id => policies'[id] = policies[id]
    BY <1>4 DEF Retires, RegistryInv, RegistryTypeOK
  <2> QED
    BY <2>1, <2>2, <2>3
<1>5. ASSUME UNCHANGED <<policies, latestVersion>>
      PROVE  ~(policies'[id].active /\ isLatest(id)')
  BY <1>5 DEF isLatest
<1> QED
  BY <1>2, <1>3, <1>4, <1>5, RegistrySteps DEF RegistryInv, External

(* A retired policy never covers again: not by a later version, by its listing's *)
(* or its agent's return, nor by bond.                                           *)
THEOREM RegistryRetiredNeverCovers == RegistrySpec => RetiredNeverCovers
<1> DEFINE Retired ==
      \A id \in Policy :
          registered(id) /\ ~(policies[id].active /\ isLatest(id)) =>
            \A f \in Fingerprint : ~isCoverable(id, f)'
<1>1. RegistryInv /\ [RegistryNext]_allRegistryVars => [Retired]_allRegistryVars
  BY RegistryAssumption, VaultAssumption, RetiredStays DEF isCoverable
<1> QED
  BY <1>1, RegistryInvariant, PTL DEF RegistrySpec, RetiredNeverCovers, allRegistryVars

\* The provider and the terms a policy was registered with stay its own.
PoliciesStand ==
    \A id \in Policy : registered(id) =>
        policies'[id].provider = policies[id].provider /\ policies'[id].terms = policies[id].terms

(* Versions are never reused and a retirement only takes a policy out of force. *)
LEMMA PolicyStands ==
  ASSUME RegistryAssumption, VaultAssumption, RegistryInv, [RegistryNext]_allRegistryVars
  PROVE  PoliciesStand
<1>1. ASSUME NEW p \in Address, NEW s \in Service, NEW t \in Terms, register(p, s, t)
      PROVE  PoliciesStand
  BY <1>1, RegisterKeeps DEF PoliciesStand
<1>2. ASSUME NEW e \in enrollments, register(e.provider, e.service, e.terms)
      PROVE  PoliciesStand
  <2>1. e.provider \in Address /\ e.service \in Service /\ e.terms \in Terms
    BY DEF RegistryInv, RegistryTypeOK, Enrollment
  <2> QED
    BY <1>1, <1>2, <2>1
<1>3. ASSUME NEW x \in Policy, policies[x].active, Retires(x)
      PROVE  PoliciesStand
  <2>1. policies[x] \in PolicyRecord
    BY <1>3, ActiveIsRecord DEF RegistryInv
  <2>2. policies'[x] = [policies[x] EXCEPT !.active = FALSE]
        /\ \A id \in Policy \ {x} : policies'[id] = policies[id]
    BY <1>3 DEF Retires, RegistryInv, RegistryTypeOK
  <2>3. policies'[x].provider = policies[x].provider /\ policies'[x].terms = policies[x].terms
    BY <2>1, <2>2 DEF PolicyRecord
  <2> QED
    BY <2>2, <2>3 DEF PoliciesStand
<1>4. ASSUME UNCHANGED policies
      PROVE  PoliciesStand
  BY <1>4 DEF PoliciesStand
<1> QED
  BY <1>1, <1>2, <1>3, <1>4, RegistrySteps DEF RegistryInv, External

(* A buyer gets the terms that were read: no registration, by transaction or by   *)
(* signature, no pause and no change of owner alters a policy there is.           *)
THEOREM RegistryTermsAreFixed == RegistrySpec => [][PoliciesStand]_allRegistryVars
<1>1. RegistryInv /\ [RegistryNext]_allRegistryVars => [PoliciesStand]_allRegistryVars
  BY RegistryAssumption, VaultAssumption, PolicyStands
<1> QED
  BY <1>1, RegistryInvariant, PTL DEF RegistrySpec, allRegistryVars

(* The registry only reads the vault: with it in place the vault behaves as it   *)
(* does alone, so every theorem about VaultSpec holds of RegistrySpec.           *)
THEOREM RegistryImplementsVault == RegistrySpec => VaultSpec
<1>1. [RegistryNext]_allRegistryVars => [VaultNext]_vaultVars
  BY DEF RegistryNext, allRegistryVars, vaultVars
<1> QED
  BY <1>1, PTL DEF RegistrySpec, VaultSpec, allRegistryVars
===============================================================================
