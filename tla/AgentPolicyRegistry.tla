-------------------------- MODULE AgentPolicyRegistry --------------------------
(***************************************************************************)
(* src/AgentPolicyRegistry.sol: versioned, provider-signed coverage terms. *)
(*                                                                         *)
(* A policy id is the hash of a service key, a version and the signed      *)
(* terms; versions of a key are never reused, so an id is modelled as the  *)
(* pair of its service and version.  A policy can be covered while it is   *)
(* active, the latest of its service, unexpired, still described by the    *)
(* observed listing, owned by its provider and backed by free bond: the    *)
(* registry reads the vault, and the identity registry (external) that     *)
(* says who owns an agent.                                                 *)
(***************************************************************************)
EXTENDS ProviderBondVault

CONSTANTS
    Service,          \* service keys: marketplace, agent and service id
    Policy,           \* policy ids
    Fingerprint,      \* hashes of a listing's content
    Terms,            \* the terms a provider may sign
    MinimumBond,      \* minimumBondAtomic
    MaximumSla,       \* maximumSlaSeconds
    MaxVersion        \* bound of the model on versions of one service

ASSUME RegistryAssumption ==
    /\ MaxVersion \in Nat
    /\ Policy = [service : Service, version : 1 .. MaxVersion]
    /\ Terms \subseteq [slaSeconds : Nat, enrollmentWindowSeconds : Nat,
                        maxCapAtomic : Nat, payoutBasis : {0, 1}, clockMode : {0, 1},
                        expiresAt : Nat, serviceFingerprint : Fingerprint]
    /\ MinimumBond \in Nat \ {0} /\ MaximumSla \in Nat \ {0}

VARIABLES
    policies,          \* policies: policyId -> Policy
    latestVersion,     \* latestVersion: serviceKey -> version, 0 for none
    nonces,            \* nonces: provider -> next enrollment nonce
    registryOwner,     \* owner
    registryPendingOwner, \* pendingOwner
    monitor,           \* monitor
    agentOwner,        \* identityRegistry.ownerOf, of the agent behind a service
    enrollments,       \* the enrollments providers have signed off chain
    enrolledBy         \* history: the signed enrollment a policy was registered by

registryVars == <<policies, latestVersion, nonces, registryOwner, registryPendingOwner,
                  monitor, agentOwner, enrollments, enrolledBy>>

NoPolicy == [provider |-> NoAddress, active |-> FALSE]
PolicyRecord == [provider : Address, terms : Terms, active : BOOLEAN]

Enrollment == [provider : Address, service : Service, terms : Terms,
               nonce : Nat, deadline : Nat]

\* A policy nobody signed for: unregistered, or registered by its provider itself.
NoEnrollment == [provider |-> NoAddress, nonce |-> 0]

bySignature(id) == enrolledBy[id].provider # NoAddress

RegistryTypeOK ==
    /\ policies \in [Policy -> PolicyRecord \cup {NoPolicy}]
    /\ latestVersion \in [Service -> 0 .. MaxVersion]
    /\ nonces \in [Address -> Nat]
    /\ registryOwner \in Address /\ monitor \in Address
    /\ registryPendingOwner \in Address \cup {NoAddress}
    /\ agentOwner \in [Service -> Address]
    /\ enrollments \subseteq Enrollment
    /\ enrolledBy \in [Policy -> Enrollment \cup {NoEnrollment}]

RegistryInit ==
    /\ policies = [p \in Policy |-> NoPolicy]
    /\ latestVersion = [s \in Service |-> 0]
    /\ nonces = [a \in Address |-> 0]
    /\ registryOwner \in External
    /\ registryPendingOwner = NoAddress
    /\ monitor = registryOwner
    /\ agentOwner \in [Service -> External]
    /\ enrollments = {}
    /\ enrolledBy = [id \in Policy |-> NoEnrollment]

registered(id) == policies[id].provider # NoAddress

isLatest(id) == latestVersion[id.service] = id.version

\* Mutant: any active version will do.
isCoverableAnyVersion(id, observed) ==
    /\ registered(id) /\ policies[id].active
    /\ policies[id].terms.expiresAt > now
    /\ policies[id].terms.serviceFingerprint = observed
    /\ agentOwner[id.service] = policies[id].provider
    /\ availableBond(policies[id].provider) >= MinimumBond

isCoverable(id, observed) ==
    /\ registered(id) /\ policies[id].active /\ isLatest(id)
    /\ policies[id].terms.expiresAt > now
    /\ policies[id].terms.serviceFingerprint = observed
    /\ agentOwner[id.service] = policies[id].provider
    /\ availableBond(policies[id].provider) >= MinimumBond

-------------------------------------------------------------------------------
(* Enrollment *)

validateTerms(t) ==
    /\ t.maxCapAtomic > 0
    /\ t.slaSeconds > 0 /\ t.slaSeconds <= MaximumSla
    /\ t.enrollmentWindowSeconds > 0 /\ t.enrollmentWindowSeconds <= t.slaSeconds
    /\ t.expiresAt > now + t.slaSeconds

nextVersion(s) == latestVersion[s] + 1

\* _registerPolicy: a new version, active at once and the latest of its service.
register(p, s, t) ==
    /\ validateTerms(t)
    /\ agentOwner[s] = p
    /\ availableBond(p) >= MinimumBond
    /\ t.maxCapAtomic <= availableBond(p)
    /\ nextVersion(s) <= MaxVersion
    /\ latestVersion' = [latestVersion EXCEPT ![s] = nextVersion(s)]
    /\ policies' = [policies EXCEPT ![[service |-> s, version |-> nextVersion(s)]] =
                        [provider |-> p, terms |-> t, active |-> TRUE]]

RegisterPolicy(p, s, t) ==
    /\ register(p, s, t)
    /\ UNCHANGED <<nonces, registryOwner, registryPendingOwner, monitor, agentOwner,
                   enrollments, enrolledBy>>

\* A provider signs an enrollment for its next nonce; nothing is sent yet.
SignEnrollment(p, s, t, deadline) ==
    /\ enrollments' = enrollments \cup
          {[provider |-> p, service |-> s, terms |-> t,
            nonce |-> nonces[p], deadline |-> deadline]}
    /\ UNCHANGED <<policies, latestVersion, nonces, registryOwner, registryPendingOwner,
                   monitor, agentOwner, enrolledBy>>

\* Mutant: a signature of any nonce will do.
acceptsAnyNonce(e) == TRUE

acceptsNonce(e) == e.nonce = nonces[e.provider]

\* registerPolicyBySig: anybody submits a signed enrollment.  What follows the nonce
\* check sets the provider's next nonce from the nonce of the call.
RegisterPolicyBySig(e) ==
    /\ e \in enrollments
    /\ now <= e.deadline
    /\ acceptsNonce(e)
    /\ nonces' = [nonces EXCEPT ![e.provider] = e.nonce + 1]
    /\ register(e.provider, e.service, e.terms)
    /\ enrolledBy' = [enrolledBy EXCEPT
          ![[service |-> e.service, version |-> nextVersion(e.service)]] = e]
    /\ UNCHANGED <<registryOwner, registryPendingOwner, monitor, agentOwner, enrollments>>

-------------------------------------------------------------------------------
(* Suspension and administration *)

PausePolicy(caller, id) ==
    /\ policies[id].active
    /\ caller \in {policies[id].provider, registryOwner}
    /\ policies' = [policies EXCEPT ![id].active = FALSE]
    /\ UNCHANGED <<latestVersion, nonces, registryOwner, registryPendingOwner, monitor,
                   agentOwner, enrollments, enrolledBy>>

SuspendForFingerprint(caller, id, observed) ==
    /\ caller = monitor
    /\ policies[id].active
    /\ observed # policies[id].terms.serviceFingerprint
    /\ policies' = [policies EXCEPT ![id].active = FALSE]
    /\ UNCHANGED <<latestVersion, nonces, registryOwner, registryPendingOwner, monitor,
                   agentOwner, enrollments, enrolledBy>>

SetMonitor(caller, next) ==
    /\ caller = registryOwner
    /\ monitor' = next
    /\ UNCHANGED <<policies, latestVersion, nonces, registryOwner, registryPendingOwner,
                   agentOwner, enrollments, enrolledBy>>

TransferRegistry(caller, next) ==
    /\ caller = registryOwner
    /\ registryPendingOwner' = next
    /\ UNCHANGED <<policies, latestVersion, nonces, registryOwner, monitor, agentOwner,
                   enrollments, enrolledBy>>

AcceptRegistry(caller) ==
    /\ caller = registryPendingOwner
    /\ registryOwner' = caller
    /\ registryPendingOwner' = NoAddress
    /\ UNCHANGED <<policies, latestVersion, nonces, monitor, agentOwner, enrollments, enrolledBy>>

\* The identity registry (external): an agent changes hands.
TransferAgent(s, next) ==
    /\ agentOwner[s] # next
    /\ agentOwner' = [agentOwner EXCEPT ![s] = next]
    /\ UNCHANGED <<policies, latestVersion, nonces, registryOwner, registryPendingOwner,
                   monitor, enrollments, enrolledBy>>

RegistryActions ==
    \/ \E p \in External, s \in Service, t \in Terms : RegisterPolicy(p, s, t)
    \/ \E p \in External, s \in Service, t \in Terms, d \in 0 .. MaxTime :
          SignEnrollment(p, s, t, d)
    \/ \E e \in enrollments : RegisterPolicyBySig(e)
    \/ \E a \in External, id \in Policy : PausePolicy(a, id)
    \/ \E a \in External, id \in Policy, f \in Fingerprint : SuspendForFingerprint(a, id, f)
    \/ \E a, b \in External : SetMonitor(a, b)
    \/ \E a, b \in External : TransferRegistry(a, b)
    \/ \E a \in External : AcceptRegistry(a)
    \/ \E s \in Service, a \in External : TransferAgent(s, a)

RegistryNext ==
    \/ RegistryActions /\ UNCHANGED vaultVars
    \/ VaultNext /\ UNCHANGED registryVars

RegistrySpec == VaultInit /\ RegistryInit /\ [][RegistryNext]_<<vaultVars, registryVars>>

-------------------------------------------------------------------------------
(* Properties *)

\* A policy that was paused, suspended or superseded never covers again, though
\* its agent be sold and bought back, its listing be restored or its bond refilled.
RetiredNeverCovers ==
    [][ \A id \in Policy :
          registered(id) /\ ~(policies[id].active /\ isLatest(id)) =>
            \A f \in Fingerprint : ~isCoverable(id, f)' ]_<<vaultVars, registryVars>>

\* A signature enrolls at most once, and of the signatures a provider gave for one
\* nonce at most one ever enrolls: two policies registered by signature, of whatever
\* service and terms, were signed by different providers or for different nonces.
SignatureSpentOnce ==
    \A id1, id2 \in Policy :
       bySignature(id1) /\ bySignature(id2) /\ id1 # id2 =>
          \/ enrolledBy[id1].provider # enrolledBy[id2].provider
          \/ enrolledBy[id1].nonce # enrolledBy[id2].nonce
===============================================================================
