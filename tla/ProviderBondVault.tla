--------------------------- MODULE ProviderBondVault ---------------------------
(***************************************************************************)
(* src/ProviderBondVault.sol: first-loss custody of provider bonds.        *)
(*                                                                         *)
(* A provider's account holds a balance, of which some is locked by        *)
(* covenants and some is queued for withdrawal; the rest is available.     *)
(* Only the manager contract locks, releases and slashes.  Each action is  *)
(* one transaction: its guards are the calls that do not revert.           *)
(*                                                                         *)
(* The bond asset is an external ERC-20: a transfer may deliver less than  *)
(* it debits (a fee on transfer) or nothing (it returns false).            *)
(***************************************************************************)
EXTENDS Integers, FiniteSets, UnitSums

CONSTANTS
    Address,          \* token holders and callers
    NoAddress,        \* address(0)
    VaultAddress,     \* the vault's own address
    Covenant,         \* covenant ids
    Amount,           \* the amounts calls may name
    InitialTokens,    \* tokens each address holds at deployment
    WithdrawalDelay,  \* withdrawalDelay, in clock ticks
    MaxTime           \* bound of the model on block.timestamp

ASSUME VaultAssumption ==
    /\ IsFiniteSet(Address) /\ IsFiniteSet(Covenant)
    /\ NoAddress \notin Address
    /\ VaultAddress \in Address
    /\ Amount \subseteq Nat /\ InitialTokens \in Nat
    /\ WithdrawalDelay \in Nat /\ MaxTime \in Nat

VARIABLES
    accounts,         \* accounts: provider -> BondAccount
    covenantLocks,    \* covenantLocks: covenant -> CovenantLock
    vaultOwner,       \* owner
    vaultPendingOwner,\* pendingOwner
    manager,          \* manager; NoAddress until initializeManager
    tokenBalance,     \* the asset's balanceOf
    now               \* block.timestamp

vaultVars == <<accounts, covenantLocks, vaultOwner, vaultPendingOwner, manager,
               tokenBalance, now>>

External == Address \ {VaultAddress}

BondAccount == [balance : Nat, locked : Nat,
                queuedWithdrawal : Nat, withdrawalReadyAt : Nat]
CovenantLock == [provider : Address \cup {NoAddress}, amount : Nat, active : BOOLEAN]

EmptyAccount == [balance |-> 0, locked |-> 0,
                 queuedWithdrawal |-> 0, withdrawalReadyAt |-> 0]
NoLock == [provider |-> NoAddress, amount |-> 0, active |-> FALSE]

VaultTypeOK ==
    /\ accounts \in [Address -> BondAccount]
    /\ covenantLocks \in [Covenant -> CovenantLock]
    /\ vaultOwner \in Address
    /\ vaultPendingOwner \in Address \cup {NoAddress}
    /\ manager \in Address \cup {NoAddress}
    /\ tokenBalance \in [Address -> Nat]
    /\ now \in Nat

VaultInit ==
    /\ accounts = [p \in Address |-> EmptyAccount]
    /\ covenantLocks = [c \in Covenant |-> NoLock]
    /\ vaultOwner \in External
    /\ vaultPendingOwner = NoAddress
    /\ manager = NoAddress
    /\ tokenBalance = [a \in Address |-> IF a = VaultAddress THEN 0 ELSE InitialTokens]
    /\ now = 0

managerInitialized == manager # NoAddress

\* Mutant: bond already queued for withdrawal counted as available.
availableBondWithQueued(p) == accounts[p].balance - accounts[p].locked

availableBond(p) ==
    accounts[p].balance - accounts[p].locked - accounts[p].queuedWithdrawal

-------------------------------------------------------------------------------
(* The asset *)

\* An ERC-20 transfer debits amount and credits delivered <= amount.
TokenTransfer(from, to, amount, delivered) ==
    /\ amount <= tokenBalance[from]
    /\ tokenBalance' = [tokenBalance EXCEPT ![from] = @ - amount, ![to] = @ + delivered]

\* Mutant of the receipt check: something arrived.
ReceivedSomething(to, amount) == tokenBalance'[to] > tokenBalance[to]

\* The balance checks around a transfer: the holder gains exactly amount.
ReceivedExactly(to, amount) == tokenBalance'[to] = tokenBalance[to] + amount

\* _safeTransfer: anything but the exact debit and the exact credit reverts.
SafeTransfer(to, amount) ==
    \E delivered \in 0 .. amount :
        /\ TokenTransfer(VaultAddress, to, amount, delivered)
        /\ tokenBalance'[VaultAddress] = tokenBalance[VaultAddress] - amount
        /\ ReceivedExactly(to, amount)

\* Tokens sent to the vault by a plain transfer, credited to nobody.
DirectTransfer(from, amount) ==
    /\ \E delivered \in 0 .. amount : TokenTransfer(from, VaultAddress, amount, delivered)
    /\ UNCHANGED <<accounts, covenantLocks, vaultOwner, vaultPendingOwner, manager, now>>

-------------------------------------------------------------------------------
(* Administration *)

TransferOwnership(caller, next) ==
    /\ caller = vaultOwner
    /\ vaultPendingOwner' = next
    /\ UNCHANGED <<accounts, covenantLocks, vaultOwner, manager, tokenBalance, now>>

AcceptOwnership(caller) ==
    /\ caller = vaultPendingOwner
    /\ vaultOwner' = caller
    /\ vaultPendingOwner' = NoAddress
    /\ UNCHANGED <<accounts, covenantLocks, manager, tokenBalance, now>>

\* The manager is set once and never again.
InitializeManager(caller, next) ==
    /\ caller = vaultOwner
    /\ ~managerInitialized
    /\ manager' = next
    /\ UNCHANGED <<accounts, covenantLocks, vaultOwner, vaultPendingOwner,
                   tokenBalance, now>>

-------------------------------------------------------------------------------
(* Deposits and withdrawals *)

\* depositFor: the vault must receive exactly what the funder sends.
DepositFor(funder, p, amount) ==
    /\ managerInitialized
    /\ amount > 0
    /\ \E delivered \in 0 .. amount :
          /\ TokenTransfer(funder, VaultAddress, amount, delivered)
          /\ ReceivedExactly(VaultAddress, amount)
    /\ accounts' = [accounts EXCEPT ![p].balance = @ + amount]
    /\ UNCHANGED <<covenantLocks, vaultOwner, vaultPendingOwner, manager, now>>

RequestWithdrawal(p, amount) ==
    /\ amount > 0
    /\ accounts[p].queuedWithdrawal = 0
    /\ amount <= availableBond(p)
    /\ accounts' = [accounts EXCEPT ![p].queuedWithdrawal = amount,
                                    ![p].withdrawalReadyAt = now + WithdrawalDelay]
    /\ UNCHANGED <<covenantLocks, vaultOwner, vaultPendingOwner, manager,
                   tokenBalance, now>>

CancelWithdrawal(p) ==
    /\ accounts[p].queuedWithdrawal # 0
    /\ accounts' = [accounts EXCEPT ![p].queuedWithdrawal = 0,
                                    ![p].withdrawalReadyAt = 0]
    /\ UNCHANGED <<covenantLocks, vaultOwner, vaultPendingOwner, manager,
                   tokenBalance, now>>

ExecuteWithdrawal(p) ==
    /\ accounts[p].queuedWithdrawal # 0
    /\ now >= accounts[p].withdrawalReadyAt
    /\ accounts' = [accounts EXCEPT ![p].queuedWithdrawal = 0,
                                    ![p].withdrawalReadyAt = 0,
                                    ![p].balance = @ - accounts[p].queuedWithdrawal]
    /\ SafeTransfer(p, accounts[p].queuedWithdrawal)
    /\ UNCHANGED <<covenantLocks, vaultOwner, vaultPendingOwner, manager, now>>

-------------------------------------------------------------------------------
(* The manager's calls.  Each says nothing of `now`, so that a manager's   *)
(* transaction can conjoin it with its own changes.                        *)

\* Mutant: a released id may be locked again.
NotLockedNow(c) == ~covenantLocks[c].active

\* A covenant id is locked at most once in the vault's life.
NeverLocked(c) == covenantLocks[c].provider = NoAddress

LockBond(caller, c, p, amount) ==
    /\ caller = manager
    /\ amount > 0
    /\ NeverLocked(c)
    /\ amount <= availableBond(p)
    /\ accounts' = [accounts EXCEPT ![p].locked = @ + amount]
    /\ covenantLocks' = [covenantLocks EXCEPT ![c] =
                            [provider |-> p, amount |-> amount, active |-> TRUE]]
    /\ UNCHANGED <<vaultOwner, vaultPendingOwner, manager, tokenBalance>>

ReleaseBond(caller, c) ==
    /\ caller = manager
    /\ covenantLocks[c].active
    /\ covenantLocks' = [covenantLocks EXCEPT ![c].active = FALSE]
    /\ accounts' = [accounts EXCEPT ![covenantLocks[c].provider].locked =
                                        @ - covenantLocks[c].amount]
    /\ UNCHANGED <<vaultOwner, vaultPendingOwner, manager, tokenBalance>>

\* Mutants: the unlocked remainder forgotten, and the debit forgotten.
AccountUnlockedByPayout(a, locked, payout) ==
    [a EXCEPT !.locked = @ - payout, !.balance = @ - payout]
AccountNotDebited(a, locked, payout) == [a EXCEPT !.locked = @ - locked]

\* The payout leaves the balance; the rest of the lock becomes available.
AccountAfterSlash(a, locked, payout) ==
    [a EXCEPT !.locked = @ - locked, !.balance = @ - payout]

SlashBond(caller, c, recipient, payout) ==
    /\ caller = manager
    /\ covenantLocks[c].active
    /\ payout > 0 /\ payout <= covenantLocks[c].amount
    /\ covenantLocks' = [covenantLocks EXCEPT ![c].active = FALSE]
    /\ accounts' = [accounts EXCEPT ![covenantLocks[c].provider] =
                        AccountAfterSlash(@, covenantLocks[c].amount, payout)]
    /\ SafeTransfer(recipient, payout)
    /\ UNCHANGED <<vaultOwner, vaultPendingOwner, manager>>

-------------------------------------------------------------------------------
Tick ==
    /\ now < MaxTime
    /\ now' = now + 1
    /\ UNCHANGED <<accounts, covenantLocks, vaultOwner, vaultPendingOwner, manager,
                   tokenBalance>>

\* Everything the providers, funders, owners and token holders of `users` can do,
\* where the owner initializes one of the addresses `managers`.
VaultUsersNext(users, managers) ==
    \/ \E a \in users, b \in Address : TransferOwnership(a, b)
    \/ \E a \in users : AcceptOwnership(a)
    \/ \E a \in users, b \in managers : InitializeManager(a, b)
    \/ \E a \in users, n \in Amount : DirectTransfer(a, n)
    \/ \E a \in users, p \in Address, n \in Amount : DepositFor(a, p, n)
    \/ \E p \in users, n \in Amount : RequestWithdrawal(p, n)
    \/ \E p \in users : CancelWithdrawal(p)
    \/ \E p \in users : ExecuteWithdrawal(p)

VaultUserNext == VaultUsersNext(External, Address)

\* What the manager address can do, whatever rules it follows itself.
VaultManagerNext ==
    \/ \E m \in External, c \in Covenant, p \in Address, n \in Amount :
          LockBond(m, c, p, n) /\ UNCHANGED now
    \/ \E m \in External, c \in Covenant : ReleaseBond(m, c) /\ UNCHANGED now
    \/ \E m \in External, c \in Covenant, r \in Address :
          \E n \in 1 .. covenantLocks[c].amount : SlashBond(m, c, r, n) /\ UNCHANGED now

VaultNext == VaultUserNext \/ VaultManagerNext \/ Tick

VaultSpec == VaultInit /\ [][VaultNext]_vaultVars

-------------------------------------------------------------------------------
(* Properties *)

\* What each covenant locks of p's bond, and what each address has deposited.
LockedBy(p) ==
    [c \in Covenant |-> IF covenantLocks[c].active /\ covenantLocks[c].provider = p
                          THEN covenantLocks[c].amount ELSE 0]
Balances == [p \in Address |-> accounts[p].balance]

\* The running total accounts[p].locked is the sum of p's active covenant locks:
\* no sequence of lock, release and partial slash makes them drift apart, so
\* neither subtraction in release and slash can underflow and revert.
LockedIsSumOfActiveLocks ==
    \A p \in Address : accounts[p].locked = SumOver(Covenant, LockedBy(p))

\* A provider's locks and queued withdrawal together never exceed its balance:
\* availableBond, read by lock, requestWithdrawal and the policy registry, never
\* underflows, and a matured withdrawal never takes bond a covenant relies on.
BondCoversCommitments ==
    \A p \in Address :
        accounts[p].locked + accounts[p].queuedWithdrawal <= accounts[p].balance

Surplus == tokenBalance[VaultAddress] - SumOver(Address, Balances)

\* The vault holds at least the tokens it owes all providers together, whatever
\* fee or failure the asset shows on a transfer.
VaultSolvent == SumOver(Address, Balances) <= tokenBalance[VaultAddress]

\* No transaction pays out tokens without debiting exactly one unit of bond per
\* token: what the vault holds beyond the bonds (donations) never goes down.
SurplusNeverFalls == [][ Surplus' >= Surplus ]_vaultVars

SpentOnce(c) ==
    /\ covenantLocks'[c].provider = covenantLocks[c].provider
    /\ covenantLocks'[c].amount = covenantLocks[c].amount
    /\ covenantLocks'[c].active => covenantLocks[c].active

\* A covenant's lock is spent once: after release or slash its id stays locked
\* out, so a settled covenant can never take bond a second time.
LocksAreOneShot ==
    [][ \A c \in Covenant : covenantLocks[c].provider # NoAddress => SpentOnce(c) ]_vaultVars
===============================================================================
