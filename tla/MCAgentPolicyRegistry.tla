------------------------- MODULE MCAgentPolicyRegistry -------------------------
(* Model checking of AgentPolicyRegistry and of the service's copy of it,    *)
(* ProviderEnrollment: one service that alice and bob may own in turn, terms *)
(* for two listings, two versions, bonds deposited and queued for withdrawal *)
(* while policies come and go, and invocations of the service among them.    *)
EXTENDS ProviderEnrollment, TLC

CONSTANTS alice, bob, vault, service, f1, f2, d1, d2

MCPolicy == [service : {service}, version : 1 .. MaxVersion]

MCTerms ==
    {[slaSeconds |-> 1, enrollmentWindowSeconds |-> 1, maxCapAtomic |-> 1,
      payoutBasis |-> b, clockMode |-> 0, expiresAt |-> 3, serviceFingerprint |-> f] :
        <<f, b>> \in {<<f1, 0>>, <<f1, 1>>, <<f2, 0>>}}

\* Two outstanding signatures are enough to race one another for a nonce.
MaxEnrollments == 2

\* The owner's calls, until it has handed the registry over.
MCAdminNext ==
    \/ SetMonitor(alice, bob)
    \/ TransferRegistry(alice, bob)
    \/ AcceptRegistry(bob)

\* Whether the service has been called.  It is called when alice has deposited her
\* bond and nothing is registered; from then on the rest holds still but for alice,
\* who signs and registers terms for one listing, the sale of her agent, and time.
Served == entryCount[service] # 0 \/ \E d \in Desk : desks[d] # Idle

MayServe ==
    \/ Served
    \/ /\ registryOwner = alice /\ registryPendingOwner = NoAddress /\ monitor = alice
       /\ availableBond(alice) = 1 /\ availableBond(bob) = 0
       /\ latestVersion[service] = 0
       /\ \A e \in enrollments : /\ e.provider = alice /\ e.deadline = MaxTime
                                 /\ e.terms.serviceFingerprint = f1

MCRegistryNext ==
    \/ \E e \in enrollments : RegisterPolicyBySig(e)
    \/ TransferAgent(service, bob)
    \/ /\ Cardinality(enrollments) < MaxEnrollments
       /\ \E p \in {alice, bob}, t \in Terms, d \in {0, MaxTime} :
             /\ Served => p = alice /\ d = MaxTime /\ t.serviceFingerprint = f1
             /\ SignEnrollment(p, service, t, d)
    \/ /\ ~Served
       /\ \/ \E p \in {alice, bob}, t \in Terms : RegisterPolicy(p, service, t)
          \/ \E a \in {alice, bob}, id \in Policy : PausePolicy(a, id)
          \/ \E a \in {alice, bob}, id \in Policy, f \in Fingerprint :
                SuspendForFingerprint(a, id, f)
          \/ MCAdminNext

\* The vault's own administration and the manager's calls are left to its own run.
MCVaultNext ==
    \/ InitializeManager(vaultOwner, bob)
    \/ \E p \in {alice, bob} : DepositFor(p, p, 1)
    \/ RequestWithdrawal(alice, 1)

MCNext ==
    \/ MCRegistryNext /\ UNCHANGED <<vaultVars, enrollmentVars>>
    \/ MayServe /\ EnrollmentNext /\ UNCHANGED <<vaultVars, registryVars>>
    \/ /\ (~Served /\ MCVaultNext) \/ Tick
       /\ UNCHANGED <<registryVars, enrollmentVars>>

MCInit ==
    /\ VaultInit /\ RegistryInit /\ EnrollmentInit
    /\ vaultOwner = alice /\ registryOwner = alice /\ agentOwner[service] = alice

MCSpec == MCInit /\ [][MCNext]_<<vaultVars, registryVars, enrollmentVars>>

\* Invocations differ in nothing but their name.
MCSymmetry == Permutations(Desk)
===============================================================================
