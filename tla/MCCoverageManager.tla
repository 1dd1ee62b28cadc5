--------------------------- MODULE MCCoverageManager ---------------------------
(* Model checking of CoverageManager on a deployment that has been set up:   *)
(* one provider with two registered policies (a task clock paying net loss,  *)
(* a relay clock paying a fixed credit) and a bond, and one buyer.  Of the   *)
(* covenants two are of one job, under either policy, and the bond is enough *)
(* for two.                                                                  *)
EXTENDS ChallengePeriod

CONSTANTS contract, provider, buyer, vault, task, relay, f1, feeA, feeB, j1, j2, Bond

MCPolicy == [service : {task, relay}, version : {1}]

TermsOf(s) ==
    [slaSeconds |-> 1, enrollmentWindowSeconds |-> 1, maxCapAtomic |-> 2,
     payoutBasis |-> IF s = task THEN 0 ELSE 1, clockMode |-> IF s = task THEN 0 ELSE 1,
     expiresAt |-> 100, serviceFingerprint |-> f1]
MCTerms == {TermsOf(s) : s \in Service}

TaskCovenant(j)  == [policyId |-> [service |-> task, version |-> 1], jobId |-> j,
                     buyer |-> buyer, feeAuthorizationHash |-> feeA]
RelayCovenant(j) == [policyId |-> [service |-> relay, version |-> 1], jobId |-> j,
                     buyer |-> buyer, feeAuthorizationHash |-> feeB]
MCThree == {TaskCovenant(j1), RelayCovenant(j1), RelayCovenant(j2)}

MCInit ==
    /\ ManagerInit /\ WatchInit
    /\ accounts = [a \in Address |-> [EmptyAccount EXCEPT !.balance =
                                        IF a = provider THEN Bond ELSE 0]]
    /\ covenantLocks = [c \in Covenant |-> NoLock]
    /\ vaultOwner = provider /\ vaultPendingOwner = NoAddress /\ manager = ManagerAddress
    /\ tokenBalance = [a \in Address |-> IF a = vault THEN Bond ELSE 0]
    /\ now = 1
    /\ policies = [id \in Policy |-> [provider |-> provider, terms |-> TermsOf(id.service),
                                      active |-> TRUE]]
    /\ latestVersion = [s \in Service |-> 1]
    /\ nonces = [a \in Address |-> 0]
    /\ registryOwner = provider /\ registryPendingOwner = NoAddress /\ monitor = provider
    /\ agentOwner = [s \in Service |-> provider]
    /\ enrollments = {} /\ enrolledBy = [id \in Policy |-> NoEnrollment]

\* Beside the covenants, the provider withdraws free bond.
MCManagerNext ==
    \/ ManagerActions
    \/ /\ \/ RequestWithdrawal(provider, 1)
          \/ ExecuteWithdrawal(provider)
          \/ Tick
       /\ UNCHANGED <<registryVars, managerVars>>

MCNext == MCManagerNext /\ Watch

MCSpec == MCInit /\ [][MCNext]_watchedVars

MCLiveSpec == MCSpec /\ ManagerFairness
===============================================================================
