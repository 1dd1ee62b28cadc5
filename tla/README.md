# PolicyPool: verification project

PolicyPool sells bonded delivery covenants for jobs that agents buy from agents.
This directory holds TLA+ models of its contracts (`src/src/*.sol`) and of its
off-chain service (`src/api/**`), TLC configurations that check them on small
instances, and TLAPS proofs about the contracts, the attesters they listen to,
provider enrollment, covered receipts and direct purchases.  Paths below are relative to
the repository; `PROJECT.json` maps every definition to the lines it models.

Run a model with `tlc -config X.cfg M`, a proof with `tlapm M.tla`.

## 1. The system

| component | state it keeps | operations | talks to |
|---|---|---|---|
| ProviderBondVault | accounts (balance, locked, queued withdrawal), one lock per covenant, owner, manager | deposit, request/cancel/execute withdrawal, lock, release, slash, ownership | bond asset; its manager |
| AgentPolicyRegistry | policies and their versions, enrollment nonces, monitor, owner | register (direct, signed), pause, suspend, administration; `isCoverable` | agent registry, vault (free bond) |
| CoverageManager | covenants, covered jobs, consumed evidence | issue, startClock, expireUnstarted, release, markPayoutDue, settle, cancelUnpaid, and the emergency form of the last four | vault, registry, evidence verifier |
| PolicyFeeEscrow | fees, running total, consumed evidence | fund, capture, refund, refundOrphaned | bond asset (EIP-3009 authorizations), manager |
| CoverageEvidenceVerifier, adapters | none (signers and threshold are fixed at deployment) | quorum of signatures; job status and relay receipt reads | manager, escrow |
| Liquidity hooks and routers | daily caps, cooldowns, last-swap data | swap callbacks | Uniswap v4 pool |
| provider enrollment, policy store | stored enrollments, a version counter and a latest pointer per service (Redis) | submit, confirm, resolve | registry, marketplace pages |
| Coverage ledger (Redis) | records, request/payment/payout keys, three liability counters, index | one Lua script per operation | covered-job-receipt, both reconcilers |
| covered-job-receipt | none but its awaits | sell a receipt for an x402 payment out of the shared reserve (v0.3) or of a provider's bond (v0.4), replay, reconcile a settlement | ledger, facilitator, chain, task escrow, universal issuer |
| reconcile-coverage, record-payout | snapshots across awaits | follow the covered job; record a payout | ledger, chain |
| universal issuer / reconciler | none but their awaits | issue a covenant; compensate, sync, expire, start, release, breach, settle | manager, attesters, ledger |
| direct-a2mcp, its store and reconciler | quotes, executions with a lease and checkpoints, a queue | probe, bind, execute; recover what was left | issuer, fee escrow, relay |
| provider relay, grants | single-use claims of grants and payments, signed receipts | forward a paid call, recover its outcome | provider, Redis |
| evidence attesters | none but a request's reads | sign for their quorum what they verify on chain and in the relay's receipt | verifier, manager, escrow, chain |
| quotes, rate limit, integrity, manifests, web, scripts | counters, hash chains, none | | |

How they interact.  A job's covenant is issued on chain by the manager, which locks
the provider's bond in the vault after asking the registry whether the policy is
coverable.  The buyer's fee is escrowed beside it, bound to the covenant by the hash
of the fee authorization.  A relayed job's clock is started by evidence, a task
job's runs from its acceptance.  A completion releases the bond; a breach starts a
challenge period, after which a settlement slashes the lock to the buyer.

Three flows drive this.  In v0.3 there is no contract: one reserve wallet backs
receipts kept in Redis, a cron handler marks late jobs as payouts due, and an
operator pays and records them.  In v0.4 the same paid endpoint reserves nothing,
has a covenant issued between its reservation and its journal entry, and leaves what
fails to a second cron handler.  In a direct purchase the service holds the buyer's
two signed authorizations, issues the covenant, funds the fee, forwards the
provider's payment through the relay, starts the clock and captures the fee;
a third cron handler finishes what an invocation left.

Where it is hard.  Contracts: any caller in any order at any time, two quorums that
may act on one covenant, signatures in anybody's hands, time boundaries that must meet exactly, and an asset that
may not deliver what it debits.  Off chain: serverless invocations overlap, each
holds records it read several awaits ago, each may die anywhere; a lease runs out
under its holder; a transaction may be mined after its sender gave up; a payment's
outcome may be unknown for as long as its authorization lives, and the stores'
scripts are the only atomic steps.

What makes each part correct: the vault owes no more than it holds and never
withdraws or re-locks committed bond; a retired policy never covers again, and none
is offered on terms its provider did not register; a covenant and its lock end
together, once, for a job covered once; a fee is backed, leaves once, and leaves in
the end; a charged buyer has a record and a covenant and gets a receipt; one
invocation submits a payment header, and one at a time takes a buyer's authorization to
its provider; a provider is paid only under a covenant that
stands, and one that delivered in time never pays; what a quorum attests is what the
relay saw, and takes that many keys to say; the liability counters are those of the
issued receipts.  `PROJECT.json` lists the hazards behind these, each at its line.

## 2. Modules

Three towers, in each of which a module extends the one before it:

* contracts: `UnitSums` <- `ProviderBondVault` <- `AgentPolicyRegistry` <-
  `CoverageManager` <- `PolicyFeeEscrow` <- `AttestedCoverage`, with
  `ProviderEnrollment` beside `CoverageManager` on the registry, `ChallengePeriod`
  beside the escrow on the manager, and `CoverageEvidenceVerifier` under
  `AttestedCoverage`; a manager action contains the vault's action it calls and the
  registry's check, and reverts with it;
* receipts: `CoverageLedger` <- `CoveredJobReceipt` <- `UniversalCover`;
* direct purchases: `DirectA2mcpStore` <- `DirectDealChain` <- `ProviderRelay` <-
  `DirectExecution` <- `DirectReconciler`.

`CoverageDeal` is the abstract specification between them: how a covenant and its
fee may move, whatever the time, the callers and the evidence.  `PolicyFeeEscrow`
(contracts with every caller), `DirectReconciler` (everything off chain that drives
them, over a view of one deal on chain) and `UniversalCover` (the paid endpoint and its
reconciler, over a view of many covenants without escrowed fees) are all shown to
implement it, so what the services do on their abstract chains is within what the
contracts allow.

Each tower's proofs are beside it: `BondAndPolicyProofs` (vault and registry),
`CoverageManagerProofs`, `PolicyFeeEscrowProofs`, `AttestedCoverageProofs` and
`ProviderEnrollmentProofs` for the contracts, each on the proofs of what its module
extends; `CoveredReceiptProofs` for the three receipt modules;
`DirectReconcilerProofs` for the five of a direct purchase.

* **UnitSums, UnitSumsProofs.**  The contracts keep running totals.  `SumOver(S, f)`
  states "the sum of f over S" without recursion, as the number of units tagged by
  their key, so that cardinality theorems prove what an update does to a sum.
* **ProviderBondVault.**  Variables have the contract's names.  One action is one
  transaction, its guards are the conditions under which the call does not revert.
  `TokenTransfer` is the external asset: it delivers any amount up to what was
  debited, which covers fees on transfer and a `false` result; the contract's
  before/after balance checks are `ReceivedExactly`.  `LockBond`, `ReleaseBond` and
  `SlashBond` take the caller, so the manager module conjoins them and the vault's
  own run lets any manager call them in any order.
* **AgentPolicyRegistry.**  Policies are indexed by service and version, the
  contract's hash by its preimage.  `enrollments` is the set of signatures that
  exist; `enrolledBy` is a history variable, the signature by which a policy was
  registered.  Ownership of an agent, which an external registry decides, changes by
  `TransferAgent`.  Terms that only range checks read are left out.
* **ProviderEnrollment.**  The service's copy of the registry.  A desk is one
  invocation: a submission counts a version, then writes record and pointer in either
  order; a confirmation reads the entry, the transaction's event, and the registry,
  then writes; a quote reads pointer, entry and registry.  A transaction is named by
  the policy it registered; the marketplace's pages pass the checks or do not.
* **CoverageManager.**  A covenant id is the record of the fields it hashes.
  Evidence is whatever the quorum may sign: every action is open to its quorum with
  any times the contract accepts, so no property of this module or the escrow rests on
  honest attesters.  Replay
  protection is modelled by action, quorum and covenant; the run shows
  (`StateOutlivesEvidence`) that states refuse a repeated action anyway.  The
  emergency forms share the private function of the primary ones, as in the code.
* **ChallengePeriod.**  The manager with a history variable that notes when each
  covenant was last seen unbreached, so that the challenge period is compared with
  what anybody could see and not with what the manager recorded.
* **PolicyFeeEscrow.**  A fee id is its authorization.  That an authorization was
  used is not that the escrow was paid: `PayDirectly` is a facilitator that executes it
  past the escrow's books, `ConsumeWithoutTransfer` its buyer who cancels it or spends
  the nonce on another payee, and the history variable `paidIn` tells them apart.  The
  contract reads only that it was used.
* **CoverageEvidenceVerifier.**  What a deployment accepts as signers and threshold,
  and when a list of signatures is accepted: long enough, strictly ascending, of
  signers.  An address is a number; a signature is the address it recovers to.
* **AttestedCoverage.**  The contracts under that verifier.  `signed` is what the two
  attester services (`api/lib/evidence-attester.js`) have signed, `othersKeys` the keys
  other people hold: their own and, by `Leak`, signers' keys.  A call needs a list of
  willing keys that `verify` accepts (`Attested`), or it reverts.  A request may ask
  for anything (`AskNext`); the service reads the covenant (`Ask`), then the fee
  (`ReadFee`), then the two authorizations and the relay's receipt (`Sign`), with
  everything that happens on chain in between, and one service works on any number of
  requests.  The relay commits one receipt to a payment that was collected, after an
  answer or after a recovery, and its milliseconds make a delivery at the deadline
  timely or late.  The last reads are of what changes at most once and make one step.
* **CoverageLedger.**  One operator per Lua script, with its checks in its order,
  keyed as the script is keyed: what the caller passes is what it read earlier.
  `LedgerTransition` is `transitionUniversal`, whose stored record the caller reads
  back.  The in-memory ledger used in tests is not modelled.  A payment is what the code
  takes for one, a PAYMENT-SIGNATURE header by the hash of its text.
* **CoveredJobReceipt.**  A call's `pc` names the await it is at; between two of them
  anything may happen.  `AuthorizationOf` is the authorization a header encodes, since
  one has many encodings: the token mines it at most once, by whichever header was
  submitted, and not after it has expired, and a settlement scan finds that transfer
  for every header of it.  So two headers of one authorization can buy receipts for two jobs
  with one transfer; no property says otherwise.  Reconciler and payout recorder are
  read / read / write steps.  Times are two facts per job and payment (deadline past,
  authorization over).  An outcome the code cannot learn is a nondeterministic step.
* **UniversalCover.**  The v0.4 branch of that handler (`IssueCover`, `AttachCover`,
  `LeaveToCompensation`) and `reconcileRecord` of the universal reconciler, one step
  per read, attested call and record write.  The manager is seen through one
  covenant per payment.  The attesters sign what the reconciler asks, except that a
  cancellation waits for the search for the fee's settlement.  A call may be refused,
  fail, or be mined with its answer lost; an issue may be mined later.
* **DirectA2mcpStore.**  The quote record and its scripts; reading and preparing a
  record is a step apart from the script that writes it.
* **DirectDealChain.**  Covenant, fee and provider payment of one deal; a call passes
  the attesters' conditions (`Attested`), then the contract's (`Accepted`), and may
  wait in `mempool` after its client gave up.
* **ProviderRelay.**  The claims of a grant and of the payment, their lapse, the
  signed receipt and the recovery that looks for the payment on chain.  The provider's
  endpoint resolves to `Addresses`; a request whose connection breaks goes to the next
  (`PostToNextAddress`), received by the provider or not.
* **DirectExecution, DirectReconciler.**  `execute()` and the reconciler, await by
  await, with the steps they share.  The reconciler takes no lease and works with the
  record it listed.  A buyer who uses up its own authorizations elsewhere is
  left out of the direct modules; what escrow and attesters make of such an authorization
  is in `PolicyFeeEscrow` and `AttestedCoverage` (`voided`).

## 3. Runs

The properties are aimed at the hazards.  Each module also states a type invariant,
which holds on every run's states and is proved (section 4), but is not listed in a cfg
(`VaultTypeOK`, `RegistryTypeOK`, `EnrollmentTypeOK`, `ManagerTypeOK`, `EscrowTypeOK`,
`AttestedTypeOK`, `ServiceTypeOK`, `StoreTypeOK`, `ChainTypeOK`, `RelayTypeOK`,
`UniversalTypeOK`), as do `VaultSolvent`, `EscrowedIsSumOfFunded`, `PoliciesStand` and
`CoversFollowDeals`; add them to a cfg as INVARIANTS, and the last two as PROPERTIES, to
see it.

| run | instance and bounds | shows |
|---|---|---|
| `vault` | 2 accounts, 2 covenants, amounts {1, 2}, 2 tokens each, `MaxTime` 1 = `WithdrawalDelay`; accounts and covenants symmetric | books add up (`LockedIsSumOfActiveLocks`), commitments within balance, what the vault holds beyond what it owes never falls (hence solvency), locks are one-shot, under any manager |
| `registry` | 1 service, 2 versions, 2 owners, 2 listings, 3 terms, 2 signatures, bond deposited and queued; 2 desks, 2 stored entries | a retired policy never covers again, of the enrollments a provider signed for one nonce at most one becomes a policy, and once; the service offers exactly what a provider signed and registered, and loses no entry |
| `covenants` | three covenants, two of one job under a task and a relay policy, bond for two, amounts {1, 2}, `MaxTime` 6, issue up to 2, breach up to 3 | lock follows covenant, evidence is one-shot by state, timely completion is always accepted, start and expiry never overlap, a challenge period precedes every payout, payouts come from their own lock, a job is covered once though cancellation frees it, every covenant ends |
| `fees` | two worlds behind one step that leaks keys; 5 signers and a threshold of 3 for each quorum, `MaxTime` 5. *Most* (3 primary keys leaked): any evidence, 2 fees whose authorizations close before and after the provider's, direct payments that may be delivered short, and authorizations used up without a payment. *Few* (2 primary keys leaked, and one that is no signer's): 1 purchase, its payment, relay and attesters, who work on one request at a time | backing (of every recorded fee always, of orphans as far as no false evidence was signed), no early refund, the moves of `CoverageDeal` (`ImplementsDeals`: one exit per fee), every fee leaves; and in *Few* that outcomes are what the relay saw (`OutcomesAreTrue`) and money follows the service (`MoneyFollowsService`) |
| `direct_execution` | 2 invocations of one deal, `Lease` 1, authorizations until 3, a claim lapses at 4 = `MaxTime`, 2 addresses of the provider, 1 fault, stops and stale writes at any step; invocations symmetric, and they stop once they have saved that the provider is settled: what follows touches neither claims nor receipt, and is in `direct_reconciler` | one invocation at a time takes the authorization to the provider, its receipt is never replaced |
| `direct_reconciler` | 1 invocation and the reconciler, `LateCall` four calls that may be mined late, 1 fault, `MaxTime` 4 | the paid provider stays covered, a timely one is never in breach, the fee is captured for a started cover, a complete deal holds nothing, `ImplementsDeal` |
| `receipts` | two parts, a behaviour is of one. *Buyers*: 2 overlapping invocations with unbounded replays, 1 crash, 2 headers of one authorization for 2 jobs of unequal caps that compete for a reserve of 2. *Payouts*: 1 invocation at a time sells for those and for a third payment, of another authorization and cap for the second job, beside 2 reconcilers and 2 recorders with 1 payout transaction | charged implies recorded, a header is submitted by one invocation, the counters of issued receipts are their sums, a payout pays one receipt, receipts only advance; in *Buyers* a charged buyer gets its receipt |
| `universal` | 2 jobs of which one is live per behaviour (a task with its net loss covered, a relayed job with a credit), 1 invocation with unbounded replays, 1 run of each reconciler, 1 crash or fault | a charged buyer keeps its covenant, timely delivery never pays, no record is dropped under a standing covenant, compensation ends, the record says how the covenant ended |

Why the bounds are enough.  Delays are 0 to 2 ticks and clocks run past every one of
them, so each boundary is met before, at and after; two covenants, fees, payments or
actors are what it takes for one to be paid with, confused with or raced by another.
`LastIssueTime` and `LastBreachTime` bound when covenants may be issued and breached
so that recovery and challenge fit below `MaxTime`; `MaxVersion`, `MaxEnrollments`
(signatures in existence), `MaxEntry`, `MaxCrashes` and `MaxFaults` bound what would
grow forever.  `LateCall` names the transactions whose late mining is of interest in
a run; late mining of the others only repeats what their sender retries.  In
`registry` the service is called once alice's bond is deposited and nothing is
registered, and from then on only she, the sale of her agent and time move: what the
other owner, the monitor and the vault can do to a policy has the same effect on the
service, that the policy is no longer coverable.  In `universal` the flow of one
payment touches no other, so payments take turns.  A task with a credit differs from
them only in what lets it settle (`recoveryReady`); its safety is in the theorems of
4.7.  What two payments of one job do to each other is `receipt_deleted_by_replay`.

In `fees` keys leak first (`MCLeak`).  With three the leaked keys alone make a quorum,
so attesters would add nothing and stay out; with two, and a key that is no signer's, a
list of three (`MaxSignatures`) that repeats one of them or pads it out is what the
verifier must refuse.  In *Few* one request is open at a time, each action is signed
once by each quorum, at most one piece of evidence waits when the next is asked for
(but an orphan's refund is always asked for), the recovery quorum is asked from
`MCRecoveryFrom` on, and the relay answers in the second it was asked or the next (a late
delivery and a failure then differ in a field nobody tells apart): requests touch no
state but their own, so two of them are two orders of one, and older evidence is what
the contracts' own guards are for.  In *Most* the second job's covenant may be issued
for another closing time than its fee authorization's, the first job's for its own: an
unbound covenant stands beside a bound one, and two unbound ones would leave
the escrow nothing to refund.  A request may still be asked at any time with any
time that matters to it, and covenant, fee, payment and relay move between its reads.
`AttestersSignTheTruth` and the theorems after it need none of these bounds.

`CHECK_DEADLOCK FALSE` is set in the contract and direct runs only: there the clock
stops at `MaxTime` and finished deals have no steps, while the receipt and universal
runs are checked for deadlock.

Fairness.  `ManagerFairness`: time passes; `expireUnstarted` needs no permission and
frees somebody's bond, so it is called; a recovery quorum resolves covenants that
stay open past the emergency delay.  One weak-fairness condition stands for all
covenants, and asks only that some resolvable covenant is resolved.  The primary quorum
is not assumed to do anything.  `AttestedFairness`: time passes; `refund` needs no
permission and its buyer calls it, as an orphan's buyer sends evidence that was signed;
again one condition for all fees, that some refundable fee is refunded.
`MCAttesterFairness`: a request is answered, and the buyer of an orphan asks for it
when it is time.  The service answers requests independently, so in *Few*, where one is
open at a time, other requests then wait for that one.  Capture is not assumed.
`ServiceFairness`: an invocation that does not crash goes on (weak); a charged buyer
keeps replaying, and a settlement scan that is repeated forever completes in the end
(strong, since other calls may keep interrupting both).  `receipts` asks liveness of
its buyers' part only (`MCFairness`).  `UniversalFairness`: an
invocation and a cron run that do not crash go on (weak), and authorizations and
recovery periods end although other steps may keep coming between (strong); buyers
need not return, providers need not deliver, and deadlines need not pass.

Violated statements.  Each of these runs checks one sentence of the repository and
TLC finds behaviours of the code against it; `PROJECT.json` quotes them.

| run | statement | what happens |
|---|---|---|
| `paid_retry` | uncertainty never triggers an automatic paid retry (docs/UNIVERSAL_COVERAGE_V04.md:54) | the connection to the provider's first address breaks after the paid request was written, and the same call posts it to the next address; the authorization still moves once, the job may run twice |
| `paid_after_enrollment` | delayed buyers fail before either payment is claimed; a relay receipt must attest a start within the enrollment deadline (docs/UNIVERSAL_COVERAGE_V04.md:164, :177) | the deadline is checked before issuance only; an invocation that is slow after it, or a retry, pays the provider when the clock can no longer start |
| `cover_forgotten` | a durable `compensation_required` record remains until reconciliation releases the lock (docs/UNIVERSAL_COVERAGE_V04.md:42) | a run reads that there is no covenant, one is issued, the authorization closes, and the run drops the record: an active covenant without a record |
| `receipt_deleted_by_replay` | a replay can still reconcile a journalled payment (covered-job-receipt.js:1364) | two replays of an unsettled payment both decide to release it; the second deletes the pending record that a later payment for the same job has journalled |

`cover_forgotten` needs an authorization to close between two consecutive reads of one
run (`SlowRead`); the `universal` run assumes it does not (`SlowRead` FALSE), and there,
with one payment for each job, the same property holds.

## 4. Proofs

Every theorem is about a specification and holds for every value of its constants:
any sets of addresses, services, covenants, fees, payments, jobs, invocations and
runs (finite only where something is summed over them), any delay, window and lease,
any number of crashes and faults, any horizon.  What the constants must satisfy is in
the named assumptions of the modules (`VaultAssumption` to `UniversalAssumption`):
their sorts, that a sentinel is no member of the set it stands beside, and two orders
the code's constants have (`DealAssumption`: the escrow's grace of 2 minutes is within
the manager's recovery period of 10, and authorizations close within a quote's life).
Only the attesters' word needs more, that few keys have leaked (`FewLeaked`, in the
statements themselves), and section 4.5 shows why.

### 4.1 Vault

`VaultTypes`, `VaultLocksAddUp`, `VaultBondCovers`, `VaultStaysSolvent`,
`VaultSurplusNeverFalls`, `VaultLocksOneShot`.  The invariant is `VaultInv`: the types,
`LocksNameProvider` (an active lock names a provider, so it is in that provider's
sum), the sums, the cover and solvency; none is inductive alone.  Releasing a lock
subtracts from `locked`, which is safe because the sum contains that lock; the slash
subtracts from `balance`, which is safe because `locked` is within it; solvency then
follows from the asset's check, whatever the asset does.  One lemma per operation
shows `StepKeeps`, on two lemmas about what changing one account or one lock does to
the sums, on `UnitSumsProofs`.

### 4.2 Registry and enrollment

`RegistrySignatureSpentOnce` and `RegistryRetiredNeverCovers` from `RegistryInv`: every
registered policy has a version its service has counted.  Versions only grow, so a new
policy never takes an old id and a superseded one is never the latest again.
`SignatureSpentOnce` adds what `enrolledBy` remembers: every signature a policy was
registered by has a nonce below its provider's current one (`SpentIsBehind`), which only
the contract's comparison of the two makes so.
`RegistryTermsAreFixed`: a registered policy keeps its provider and terms.
`RegistryImplementsVault` carries the vault's theorems over.

`EnrollmentOffersRegistered` and `EnrollmentEntriesAdvance` from `EnrollmentInv`: an
entry is named by a version its service has counted (`EntriesAgree`), a desk that has
still to store an entry owns its name (`OwnEntries`), and what a confirmation or a
quote has read stays true while it waits (`Remembers`), because a registered policy
keeps its provider and terms.  `EnrollmentImplementsRegistry` carries the registry's
theorems over.

### 4.3 Manager

Every call is shown to be of one of three shapes: it issues a covenant (`Issues`),
moves a live one forward (`Moves`), or leaves covenants and locks alone; properties
are proved for the shapes, not for the fourteen calls.  `ManagerInv` adds to the
invariants of vault and registry that locks follow covenants, that the job index names
the job's covenant, that consumed evidence is behind the covenant's state, and what
issuing checked of amounts and times.  From it: `ManagerLocksFollow`,
`ManagerCoversJobOnce`, `ManagerOutlivesEvidence`, `ManagerStartsOrExpires`,
`ManagerPaysFromTheLock`, and, with the history variable, `ManagerChallengesBeforePayout`.
`ManagerImplementsRegistry` makes every theorem of registry and vault one of the
manager.  `ManagerNeverRefusesTimely` says of each check what
`TimelyCompletionAlwaysAccepted` says of the call: a live covenant always has a
completion time that `_release` accepts, its bond is locked, and the vault takes the
manager's call (`DeadlineAfterIssue`, `LockedByManager`).

### 4.4 Escrow

`EscrowTotalAddsUp`, `EscrowBacksEveryFee`, `EscrowRefundsLate` from `EscrowInv`.  Backing
relates five sums: the tokens everybody holds, the escrow's running total, the orphans
not yet refunded, the orphans refunded on false evidence (their authorization was used
up, but the escrow never got it), and the supply, which short deliveries only lower.
Each fee action moves them together, and one lemma draws the conclusion.  A false
orphan refund takes what another orphan left in the escrow, never what a recorded fee
needs, because the contract refunds an orphan out of what exceeds its running total.
An honest quorum signs none (`MoneyFollowsService`).  `EscrowKeepsContracts`:
the escrow's transfers, which bypass the vault, leave the vault solvent and the
manager's invariant intact.  `EscrowImplementsDeals`: under the refinement mapping of
`PolicyFeeEscrow`, every step of any contract is a step of one deal of `CoverageDeal`
or of none.

### 4.5 Attesters

Two facts about the verifier carry the rest.  `QuorumIsDistinct`: an accepted list has
as many different signers among those who signed as the threshold asks; its positions
map one to one into them, since it ascends.  `SignedIsAccepted`: what a service signed
is accepted; its keys can be put in order, by induction on sets of keys.  So with fewer
leaked keys than a threshold every accepted list has an honest signature
(`NothingUnsigned`), and the attesters' word can be relied on.

Their word is `SignedIsTrue`: what evidence of each action says of payment and receipt.
It must survive the awaits, so every conjunct is a fact that no step takes back
(`Onward`: time, fixed policies, fees that move one way, a payment executed at most once
and within its window, one receipt for each).  `RequestsAreChecked` says what a request
has established between its reads.  A cancellation is the delicate one: at the time it
names both windows are over, so what the chain says afterwards, that the provider was
not paid and the escrow holds nothing, is for good (`NeverPaid`).
`AttestersSignTheTruth` needs no hypothesis on keys.

`AttestedInv` adds to these and to `EscrowInv` that, if few keys have leaked, every
covenant's record says what is so (`SaysTrue`) and every captured fee was earned
(`CapturesAreEarned`); keys only leak, so the hypothesis held at every earlier step.
From it: `AttestedOutcomesAreTrue` and `AttestedMoneyFollows`.
`AttestedImplementsEscrow`: the signatures only take steps away, so every theorem of the
contracts holds of the composition, whatever leaks.

### 4.6 Direct purchases

`DirectOneInvocationForwards`, `DirectPaysUnderCover`, `DirectCapturesStartedCover`,
`DirectSparesTimely`, `DirectCompletesSettled`, `DirectReceiptStays`, and
`DirectImplementsDeal`, the refinement of `CoverageDeal` by everything off chain.  The
invariant annotates program counters (`Knows`): what a worker may rely on at each
await is a fact about the record and the receipt it holds, or a fact about the chain
that nobody takes back (`Lasting`: an authorization that is over, a fee that left, a
payment that settled, a covenant that ended).  So a step of one worker cannot spoil
the annotation of another, stale record or not, and the proof need not compare pairs
of program counters except for the claim of the payment (`ClaimInv`), which is what
keeps a second invocation from the provider however many addresses the first tries,
and which outlives the authorization when it lapses.  Calls that may
be mined late carry what they rest on in `MempoolInv`.

### 4.7 Receipts

These theorems hold without hypotheses: for several payments of one job with different
caps, several headers of one authorization, and reconcilers that read arbitrarily
slowly.

`ServicePayoutPaysOne`, `ServiceReceiptsAdvance`, `ServiceSubmitsOnce`,
`ServiceIssuedCounted`.  `ServiceInv`: every record and every snapshot names the job
its payment covers and what its cover costs; a snapshot of an issued receipt still
stands; a payment whose authorization can be used is held by at most one invocation
that may submit it.  `ServiceIssuedCounted` rests on the second part: an issued receipt is
overwritten only by what was read of the same payment (`Faithful`), so what a script
adds to one counter and takes from another is the cap of the record it moves.  The
counter of pending receipts has no such guarantee: a release takes off the cap its
caller read, from whatever record it finds under the job's key, and two payments of
one job may have asked for different cover.

`ChargedBuyersKeepCover` and `TimelyProvidersNeverPay`: `BondInv` says what a covenant
tells of its payment and job (`CoverTells`) and that what a worker noted was true when
it read it and is of a kind that stays true: a job once judged is judged, an
authorization once over is not mined.  Headers of one authorization close together
(`ExpiredTogether`).  `TimelyInv` adds that a run about to settle has not seen a timely
job and there is none.
`UniversalFollowsDeals`: every covenant moves only as `CoverageDeal` lets it, late
issues and lost answers included.

That a charged buyer has a record and that a record outlives its cover are not among
them.  They are false of the code in general, because the ledger's scripts delete
whatever pending record they find under the job's key: the runs
`receipt_deleted_by_replay` (a second payment of one job, possible since a payment that
expired unsettled frees its job) and `cover_forgotten` (slow reads) show how.  The
passing runs check `ChargedIsRecorded` and `RecordOutlivesCover` where those two cases
are absent, so that nothing else breaks them: two jobs and overlapping replays with
crashes in the buyers' part of `receipts`, two payments of one job sold by one invocation
at a time in the other, and one payment for each job in `universal`.

### 4.8 Only model-checked

* Liveness under fairness: `EveryCovenantResolves`, `EveryFeeLeaves`,
  `ChargedGetsReceipt`, `CompensationEnds`, `RecordCatchesUp`.  Their fairness is about
  when actions are enabled, which this prover cannot expand.
  `EveryFeeLeaves` excepts what a short delivery or a false orphan refund leaves
  uncovered, `CompensationEnds` a covenant whose authorization another header of the
  buyer has used, which nothing cancels.
* `TimelyCompletionAlwaysAccepted` as stated, which is about ENABLED; its checks are
  proved (4.3).
* That the execution queue of a direct purchase holds quotes: it is filtered by
  `SelectSeq`, a LET-bound recursion that the provers do not unfold.  Induction over
  numbers is within reach where the claim is a set of numbers (`SetInduction`, by a least
  element), since the library's induction theorems, which take an operator, are not.
* `ChargedIsRecorded` and `RecordOutlivesCover`, on the instances where they hold (4.7).
* The statements that are violated (section 3).

## 5. Plan

The safety properties of the runs are proved, those of 4.8 aside.  What would say more about the system:

* the pure rules still missing: the preflight decision, the receipts' hash chain;
* the listing window of `reconcile-coverage` (its newest hundred records), a hazard
  that no property covers yet;
* the counter of pending receipts, which may drift (4.7), and one transfer that buys two
  receipts by two headers (section 2): the repository promises nothing of either;
* the liquidity hooks' daily caps and cooldowns, and the rate limit's fixed window;
* the bond endpoint and the static registry of v0.3;
* theorems: the escrow's refund and capture checks in the manner of
  `NothingRefusesRelease`, and the invariants of each of these modules.

## 6. Not modelled, and why

* **Parsing, wording and shape**: request validation, quote assembly, page and log
  parsing, x402 challenges, the fields a context must equal before an attester signs.
  They refuse or pass; where the models depend on them they do either.
* **Liveness of direct purchases.**  The reconciler holds an execution it cannot
  judge, by design, so no end is promised for every one; `CompleteIsSettled` says what
  the end is when it comes.
* **Enrollment availability.**  A submission that is never registered hides the
  active entry behind the latest pointer, two submissions may leave the pointer on the
  older entry, and a confirmation that stalls before its write can make an entry name
  a policy that has been superseded.  The resolver then refuses to quote until the
  provider enrolls again; nothing wrong is offered (`OfferedIsRegistered`), and the
  repository promises nothing about it.
* **The listing window** of `reconcile-coverage` (its newest hundred records), the
  ledger's anchor backfill and saved quotes, the notifier.
* **Signature recovery and digests**: who signed and what, not how it is computed.  The
  attesters' check of the deployment's addresses is left out; the contracts' topology
  (disjoint signers, `AttestationAssumption`) is assumed as their constructors check it.
* **Liquidity hooks, routers, rate limit, receipt integrity, coverage state and
  preflight**: either per-call arithmetic on one counter or projections of state that
  other modules model.
* **HTTP plumbing, manifests, web pages, deployment and live-check scripts**: no state
  whose correctness a model shows.
* **Integer widths**: checked arithmetic reverts; amounts and times stay far below the
  types' limits.
