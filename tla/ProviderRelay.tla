----------------------------- MODULE ProviderRelay -----------------------------
(***************************************************************************)
(* The one-use relay to a provider (api/lib/provider-relay.js), the grants *)
(* it asks for (relay-grant.js), and its Redis scripts in                  *)
(* api/lib/provider-policy-store.js.                                       *)
(*                                                                         *)
(* A forward first claims its grant and the buyer's payment authorization. *)
(* A paid answer consumes both and stores a signed receipt, indexed by the *)
(* covenant; an unpaid answer (402) frees them; after anything else they   *)
(* stay claimed, and only a recovery that finds the payment on chain can   *)
(* consume them.                                                           *)
(*                                                                         *)
(* A request's id is the hash of the quote's own fields, so all forwards   *)
(* and recoveries of a deal share it.  A grant is told by the invocation   *)
(* that issued it.                                                         *)
(***************************************************************************)
EXTENDS DirectDealChain

CONSTANTS
    NoReceipt,
    ClaimMargin,        \* RELAY_GRANT_CLAIM_EXPIRY_MARGIN_SECONDS
    Addresses           \* DNS records of the provider's endpoint

ASSUME RelayAssumption ==
    /\ ClaimMargin \in Nat /\ NoReceipt \notin Receipt
    /\ Addresses \in Nat \ {0}

VARIABLES
    grantClaim,         \* relay-grant:<id>, by issuing worker
    paymentClaim,       \* relay-payment:<authorization>
    claimsExpireAt,     \* when pending claims lapse
    relayReceipt,       \* the receipt relay-covenant:<id> points to
    forwarded           \* what became of each worker's paid request

relayVars == <<grantClaim, paymentClaim, claimsExpireAt, relayReceipt, forwarded>>

RelayTypeOK ==
    /\ grantClaim \in [Worker -> {"free", "pending", "consumed"}]
    /\ paymentClaim \in {"free", "pending", "consumed"}
    /\ claimsExpireAt \in Nat
    /\ relayReceipt \in Receipt \cup {NoReceipt}
    /\ forwarded \in [Worker -> {"no", "sent", "unpaid", "timely", "late"}]

RelayInit ==
    /\ grantClaim = [w \in Worker |-> "free"]
    /\ paymentClaim = "free"
    /\ claimsExpireAt = 0
    /\ relayReceipt = NoReceipt
    /\ forwarded = [w \in Worker |-> "no"]

-------------------------------------------------------------------------------
(* The store's scripts *)

\* Mutant: the claims lapse at once, as a lease does.
ClaimLifetimeOfLease == now + Lease

\* relayGrantClaimTtlSeconds: through the grant's expiry, which is the
\* authorization's, and a margin.
ClaimLifetime == (IF ValidBefore > now THEN ValidBefore ELSE now) + ClaimMargin

Lapsed(claim) == claim = "pending" /\ now >= claimsExpireAt

\* EXISTS
Claimed(claim) == claim # "free" /\ ~Lapsed(claim)

PendingBoth(g) ==
    /\ grantClaim[g.by] = "pending" /\ paymentClaim = "pending"
    /\ now < claimsExpireAt

CanReserve(g) == ~Claimed(grantClaim[g.by]) /\ ~Claimed(paymentClaim)

\* reserveRelayExecution.  Another grant's claim that is still pending here has
\* lapsed with the payment's.
ReserveRelayExecution(g) ==
    /\ CanReserve(g)
    /\ grantClaim' = [u \in Worker |-> IF u = g.by THEN "pending"
                                       ELSE IF grantClaim[u] = "pending" THEN "free"
                                       ELSE grantClaim[u]]
    /\ paymentClaim' = "pending"
    /\ claimsExpireAt' = ClaimLifetime
    /\ UNCHANGED <<relayReceipt, forwarded>>

\* Mutant: a commit looks at its own claims only.
CanCommitAgain(g, r) == PendingBoth(g) \/ paymentClaim = "consumed"

CanCommit(g, r) ==
    \/ PendingBoth(g)
    \/ grantClaim[g.by] = "consumed" /\ paymentClaim = "consumed" /\ relayReceipt = r

\* commitRelayExecutionReceipt: receipt, index and claims in one script.
CommitRelayExecutionReceipt(g, r) ==
    /\ CanCommit(g, r)
    /\ grantClaim' = [grantClaim EXCEPT ![g.by] = "consumed"]
    /\ paymentClaim' = "consumed"
    /\ relayReceipt' = r
    /\ UNCHANGED <<claimsExpireAt, forwarded>>

\* releaseRelayExecution: of claims that are still pending.
ReleaseRelayExecution(g) ==
    /\ IF PendingBoth(g)
         THEN /\ grantClaim' = [grantClaim EXCEPT ![g.by] = "free"]
              /\ paymentClaim' = "free"
         ELSE UNCHANGED <<grantClaim, paymentClaim>>
    /\ UNCHANGED <<claimsExpireAt, relayReceipt, forwarded>>

-------------------------------------------------------------------------------
(* Grants and receipts *)

\* A grant lasts as long as the authorization it is issued for.
GrantAlive == now < ValidBefore

IssuedGrant(w) == [by |-> w, issuedAt |-> now]

\* existingRecovery: the receipt on record is of another grant.
Mismatched(g) == relayReceipt.grant # g

\* When a late answer came is not looked at again.
PaidReceipt(kind, g, sentAt) ==
    [kind |-> kind, grant |-> g, startedAt |-> sentAt,
     completedAt |-> IF kind = "timely" THEN now ELSE 0]

\* A recovered payment has no delivery; its clock starts when it was made.
RecoveredReceipt(g) ==
    [kind |-> "recovery", grant |-> g, startedAt |-> settledAt, completedAt |-> 0]

Answered(w, kind) == forwarded' = [forwarded EXCEPT ![w] = kind]

-------------------------------------------------------------------------------
(* The provider *)

Answers(sentAt) == {"late"} \cup {k \in {"timely"} : now - sentAt <= Sla}

\* Who has the buyer's authorization executes it while it is valid, whatever it
\* answered.
ProviderSettles ==
    /\ settledAt = 0 /\ now < ValidBefore
    /\ \E w \in Worker : forwarded[w] # "no"
    /\ settledAt' = now
    /\ UNCHANGED <<covenant, feeState, feeUse, mempool, faults>>
===============================================================================
