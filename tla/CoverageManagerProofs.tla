------------------------- MODULE CoverageManagerProofs -------------------------
(***************************************************************************)
(* The manager's safety, for any covenants, periods and attesters.         *)
(*                                                                         *)
(* ManagerInv is inductive: it adds to the vault's and the registry's      *)
(* invariants that locks follow covenants, that the job index names the    *)
(* job's covenant, and that used evidence is behind the covenant's state.  *)
(* Every call is shown to be one of three shapes: it issues a covenant, it *)
(* moves a live one forward, or it leaves covenants and locks alone; each  *)
(* property is then proved for the shapes, not for the fourteen calls.     *)
(***************************************************************************)
EXTENDS ChallengePeriod, BondAndPolicyProofs

\* What issuing checked of every covenant's amounts and times.
IssuedWithinTerms ==
    \A c \in Covenant : state(c) # "None" =>
        /\ covenants[c].issuedAt <= now
        /\ covenants[c].issuedAt < covenants[c].enrollmentExpiresAt
        /\ 0 < covenants[c].coverageCapAtomic
        /\ covenants[c].coverageCapAtomic <= covenants[c].buyerPaidAtomic

ManagerInv ==
    /\ VaultInv
    /\ RegistryInv
    /\ ManagerTypeOK
    /\ LockFollowsCovenant
    /\ JobCoveredOnce
    /\ StateOutlivesEvidence
    /\ IssuedWithinTerms

-------------------------------------------------------------------------------
(* The shapes of a step *)

\* The fields a covenant keeps for life.
SameTerms(r, s) ==
    /\ r.provider = s.provider
    /\ r.coverageCapAtomic = s.coverageCapAtomic /\ r.buyerPaidAtomic = s.buyerPaidAtomic
    /\ r.issuedAt = s.issuedAt /\ r.enrollmentExpiresAt = s.enrollmentExpiresAt
    /\ r.feeAuthorizationValidBefore = s.feeAuthorizationValidBefore

ClockFollowsStart(r) == r.startAt # 0 => r.deadline = r.startAt + r.slaSeconds

\* A covenant is issued as r, and its provider's bond locked.
Issues(c, r) ==
    /\ NotYetCovered(c)
    /\ covenants' = [covenants EXCEPT ![c] = r]
    /\ r.state \in {"Active", "PendingStart"}
    /\ r.issuedAt = now /\ now < r.enrollmentExpiresAt
    /\ r.state = "Active" => now <= r.deadline
    /\ 0 < r.coverageCapAtomic /\ r.coverageCapAtomic <= r.buyerPaidAtomic
    /\ coveredJobCovenant' = [coveredJobCovenant EXCEPT ![c.jobId] = c]
    /\ consumedEvidence' = consumedEvidence \cup {<<"primary", "ISSUE", c>>}
    /\ covenantLocks' = [covenantLocks EXCEPT ![c] =
          [provider |-> r.provider, amount |-> r.coverageCapAtomic, active |-> TRUE]]
    /\ manager = ManagerAddress
    /\ now' = now /\ manager' = manager

\* The states that follow a live covenant's.
Follows(before, after) ==
    \/ before = "PendingStart" /\ after = "Active"
    \/ before = "Active" /\ after = "PayoutDue"
    \/ before \in Live /\ after \in {"Released", "CancelledUnpaid"}
    \/ before = "PayoutDue" /\ after \in {"Paid", "RecoveredWithoutPayout"}

\* A settlement out of c's own lock.
Settles(c, r) ==
    /\ state(c) = "PayoutDue" /\ ChallengeOver(c)
    /\ r.payoutAtomic > 0 /\ r.payoutAtomic <= covenants[c].coverageCapAtomic
    /\ SlashBond(ManagerAddress, c, c.buyer, r.payoutAtomic)

\* A live covenant moves on to r, and its bond is freed when it ends.
Moves(c, r) ==
    /\ Follows(state(c), r.state)
    /\ covenants' = [covenants EXCEPT ![c] = r]
    /\ SameTerms(r, covenants[c])
    /\ r.state = "Active" => covenants[c].issuedAt <= r.deadline
    /\ r.state = "PayoutDue" => r.payoutDueAt = now /\ r.deadline = covenants[c].deadline
    /\ r.state = "Paid" => Settles(c, r)
    /\ coveredJobCovenant' =
          IF r.state = "CancelledUnpaid" THEN JobFreed(c) ELSE coveredJobCovenant
    /\ \E used \in SUBSET (Quorum \X {a \in EvidenceAction : r.state \in StateAfter[a]} \X {c}) :
          consumedEvidence' = consumedEvidence \cup used
    /\ covenantLocks' = IF r.state \in Live THEN covenantLocks
                        ELSE [covenantLocks EXCEPT ![c].active = FALSE]
    /\ now' = now /\ manager' = manager

Acts(c) ==
    \E r \in CovenantRecord : ClockFollowsStart(r) /\ (Issues(c, r) \/ Moves(c, r))

(* A covenant's id names a policy, a job and a buyer outside the system. *)
LEMMA CovenantShape ==
  ASSUME ManagerAssumption, NEW c \in Covenant
  PROVE  c.policyId \in Policy /\ c.jobId \in Job /\ c.buyer \in External
BY DEF ManagerAssumption

(* A covenant is issued under a whole policy, so it is a whole record, and its *)
(* provider an address.                                                        *)
LEMMA IssueActs ==
  ASSUME RegistryAssumption, ManagerAssumption, VaultAssumption, VaultTypeOK, RegistryTypeOK,
         ManagerTypeOK, NEW c \in Covenant, NEW cap \in Amount, NEW paid \in Amount,
         NEW a \in 1 .. now, NEW v \in now + 1 .. now + MaxFeeWindow, Issue(c, cap, paid, a, v)
  PROVE  /\ Acts(c)
         /\ policies[c.policyId].provider \in Address
<1> DEFINE pol == policies[c.policyId]
           t == pol.terms
           e == a + t.enrollmentWindowSeconds
           r == NewCovenant(pol.provider, t, cap, paid, a, e, v)
<1>1. pol \in PolicyRecord
  <2>1. c.policyId \in Policy
    BY CovenantShape
  <2>2. pol.provider # NoAddress
    BY DEF Issue, registered
  <2>3. pol \in PolicyRecord \cup {NoPolicy}
    BY <2>1 DEF RegistryTypeOK
  <2>4. NoPolicy.provider = NoAddress
    BY DEF NoPolicy
  <2> QED
    BY <2>2, <2>3, <2>4
<1>2. pol.provider \in Address /\ t \in Terms
  BY <1>1 DEF PolicyRecord
<1>3. /\ t.slaSeconds \in Nat /\ t.enrollmentWindowSeconds \in Nat
      /\ t.payoutBasis \in {0, 1} /\ t.clockMode \in {0, 1}
  BY <1>2 DEF RegistryAssumption
<1>4. /\ cap \in Nat /\ paid \in Nat /\ a \in Nat /\ v \in Nat /\ e \in Nat /\ now \in Nat
      /\ a + t.slaSeconds \in Nat
  <2>1. cap \in Nat /\ paid \in Nat /\ now \in Nat /\ MaxFeeWindow \in Nat
    BY DEF VaultAssumption, VaultTypeOK, ManagerAssumption
  <2>2. a \in Nat /\ v \in Nat
    BY <2>1
  <2> QED
    BY <1>3, <2>1, <2>2
<1>5. /\ r.state = (IF t.clockMode = 0 THEN "Active" ELSE "PendingStart")
      /\ r.provider = pol.provider
      /\ r.coverageCapAtomic = cap /\ r.buyerPaidAtomic = paid /\ r.payoutAtomic = 0
      /\ r.issuedAt = now /\ r.startAt = (IF t.clockMode = 0 THEN a ELSE 0)
      /\ r.deadline = (IF t.clockMode = 0 THEN a + t.slaSeconds ELSE 0)
      /\ r.enrollmentExpiresAt = e /\ r.slaSeconds = t.slaSeconds
  BY DEF NewCovenant, EmptyCovenant
<1>6. r \in CovenantRecord
  BY <1>2, <1>3, <1>4 DEF NewCovenant, EmptyCovenant, CovenantRecord, CovenantState, Live
<1>7. ClockFollowsStart(r)
  BY <1>5 DEF ClockFollowsStart
<1>8. /\ covenants' = [covenants EXCEPT ![c] = r]
      /\ NotYetCovered(c)
      /\ validateIssueInput(cap, paid, a, e, v)
      /\ coveredJobCovenant' = [coveredJobCovenant EXCEPT ![c.jobId] = c]
      /\ consumedEvidence' = consumedEvidence \cup {<<"primary", "ISSUE", c>>}
      /\ LockBond(ManagerAddress, c, pol.provider, cap)
      /\ now' = now
      /\ t.clockMode = 0 => now < a + t.slaSeconds
  BY <1>4 DEF Issue, ConsumeEvidence
<1>9. Issues(c, r)
  <2>1. cap > 0 /\ cap <= paid /\ e > now
    BY <1>8 DEF validateIssueInput
  <2>2. /\ covenantLocks' = [covenantLocks EXCEPT ![c] =
                               [provider |-> pol.provider, amount |-> cap, active |-> TRUE]]
        /\ manager = ManagerAddress /\ manager' = manager
    BY <1>8 DEF LockBond
  <2>3. r.state = "Active" => now <= r.deadline
    BY <1>4, <1>5, <1>8
  <2> HIDE DEF r, e
  <2> QED
    BY <1>4, <1>5, <1>8, <2>1, <2>2, <2>3 DEF Issues
<1> QED
  BY <1>2, <1>6, <1>7, <1>9 DEF Acts

(* The clock of a pending covenant starts. *)
LEMMA StartClockActs ==
  ASSUME VaultTypeOK, ManagerTypeOK, NEW c \in Covenant, NEW t \in 0 .. now, StartClock(c, t)
  PROVE  Acts(c)
<1> DEFINE d == deadlineFrom(c, t)
           r == [covenants[c] EXCEPT !.state = "Active", !.startAt = t, !.deadline = d]
<1>1. covenants[c] \in CovenantRecord
  BY DEF ManagerTypeOK
<1>2. t \in Nat /\ d \in Nat /\ d = t + covenants[c].slaSeconds
  BY <1>1 DEF VaultTypeOK, deadlineFrom, CovenantRecord
<1>3. /\ state(c) = "PendingStart" /\ covenantLocks' = covenantLocks /\ now' = now
      /\ covenants[c].issuedAt <= t /\ manager' = manager
      /\ coveredJobCovenant' = coveredJobCovenant
      /\ consumedEvidence' = consumedEvidence \cup {<<"primary", "START_CLOCK", c>>}
  BY DEF StartClock, CanStartClock, ConsumeEvidence, vaultVars
<1>4. covenants' = [covenants EXCEPT ![c] = r]
  BY DEF StartClock, ManagerTypeOK
<1>5. /\ r.state = "Active" /\ r.startAt = t /\ r.deadline = d
      /\ r.slaSeconds = covenants[c].slaSeconds /\ SameTerms(r, covenants[c])
  BY <1>1 DEF CovenantRecord, SameTerms
<1>6. r \in CovenantRecord
  BY <1>1, <1>2 DEF CovenantRecord, CovenantState, Live
<1> HIDE DEF r, d
<1>7. ClockFollowsStart(r)
  BY <1>2, <1>5 DEF ClockFollowsStart
<1>8. {<<"primary", "START_CLOCK", c>>}
        \in SUBSET (Quorum \X {x \in EvidenceAction : r.state \in StateAfter[x]} \X {c})
  BY <1>5 DEF Quorum, EvidenceAction, StateAfter, CovenantState, Live
<1>9. covenants[c].issuedAt <= r.deadline
  <2>1. covenants[c].issuedAt \in Nat /\ covenants[c].slaSeconds \in Nat
    BY <1>1 DEF CovenantRecord
  <2> QED
    BY <1>2, <1>3, <1>5, <2>1
<1>10. Moves(c, r)
  BY <1>3, <1>4, <1>5, <1>8, <1>9 DEF Moves, Follows, Live
<1> QED
  BY <1>6, <1>7, <1>10 DEF Acts

(* A covenant's clock keeps following its start when its record changes elsewhere. *)
LEMMA ClockKept ==
  ASSUME ManagerTypeOK, NEW c \in Covenant, NEW r,
         r.startAt = covenants[c].startAt, r.deadline = covenants[c].deadline,
         r.slaSeconds = covenants[c].slaSeconds
  PROVE  ClockFollowsStart(r)
BY DEF ManagerTypeOK, ClockFollowsStart

(* An unstarted covenant expires. *)
LEMMA ExpireUnstartedActs ==
  ASSUME ManagerTypeOK, NEW c \in Covenant, ExpireUnstarted(c)
  PROVE  Acts(c)
<1> DEFINE r == [covenants[c] EXCEPT !.state = "Released"]
<1>1. covenants[c] \in CovenantRecord
  BY DEF ManagerTypeOK
<1>2. /\ state(c) = "PendingStart" /\ now' = now /\ manager' = manager
      /\ coveredJobCovenant' = coveredJobCovenant
      /\ consumedEvidence' = consumedEvidence \cup {}
      /\ covenantLocks' = [covenantLocks EXCEPT ![c].active = FALSE]
  BY DEF ExpireUnstarted, CanExpireUnstarted, ReleaseBond
<1>3. covenants' = [covenants EXCEPT ![c] = r]
  BY DEF ExpireUnstarted, ManagerTypeOK
<1>4. /\ r.state = "Released" /\ SameTerms(r, covenants[c])
      /\ r.startAt = covenants[c].startAt /\ r.deadline = covenants[c].deadline
      /\ r.slaSeconds = covenants[c].slaSeconds
  BY <1>1 DEF CovenantRecord, SameTerms
<1>5. r \in CovenantRecord
  BY <1>1 DEF CovenantRecord, CovenantState, Final
<1> HIDE DEF r
<1>6. {} \in SUBSET (Quorum \X {x \in EvidenceAction : r.state \in StateAfter[x]} \X {c})
  OBVIOUS
<1>7. Moves(c, r)
  BY <1>2, <1>3, <1>4, <1>6 DEF Moves, Follows, Live, Final
<1> QED
  BY <1>4, <1>5, <1>7, ClockKept DEF Acts

(* A live covenant is released on a timely completion. *)
LEMMA ReleaseActs ==
  ASSUME VaultTypeOK, ManagerTypeOK, NEW q \in Quorum, NEW c \in Covenant,
         NEW t \in 0 .. now, release(q, c, t)
  PROVE  Acts(c)
<1> DEFINE r == [covenants[c] EXCEPT !.state = "Released", !.completedAt = t]
<1>1. covenants[c] \in CovenantRecord /\ t \in Nat
  BY DEF ManagerTypeOK, VaultTypeOK
<1>2. /\ state(c) \in Live /\ now' = now /\ manager' = manager
      /\ coveredJobCovenant' = coveredJobCovenant
      /\ consumedEvidence' = consumedEvidence \cup {<<q, "RELEASE", c>>}
      /\ covenantLocks' = [covenantLocks EXCEPT ![c].active = FALSE]
  BY DEF release, CanRelease, ConsumeEvidence, ReleaseBond
<1>3. covenants' = [covenants EXCEPT ![c] = r]
  BY DEF release, ManagerTypeOK
<1>4. /\ r.state = "Released" /\ SameTerms(r, covenants[c])
      /\ r.startAt = covenants[c].startAt /\ r.deadline = covenants[c].deadline
      /\ r.slaSeconds = covenants[c].slaSeconds
  BY <1>1 DEF CovenantRecord, SameTerms
<1>5. r \in CovenantRecord
  BY <1>1 DEF CovenantRecord, CovenantState, Final
<1> HIDE DEF r
<1>6. {<<q, "RELEASE", c>>}
        \in SUBSET (Quorum \X {x \in EvidenceAction : r.state \in StateAfter[x]} \X {c})
  BY <1>4 DEF EvidenceAction, StateAfter
<1>7. Moves(c, r)
  BY <1>2, <1>3, <1>4, <1>6 DEF Moves, Follows, Live, Final
<1> QED
  BY <1>4, <1>5, <1>7, ClockKept DEF Acts

(* A breach of an active covenant is marked. *)
LEMMA MarkActs ==
  ASSUME VaultTypeOK, ManagerTypeOK, NEW q \in Quorum, NEW c \in Covenant, markPayoutDue(q, c)
  PROVE  Acts(c)
<1> DEFINE r == [covenants[c] EXCEPT !.state = "PayoutDue", !.payoutDueAt = now]
<1>1. covenants[c] \in CovenantRecord /\ now \in Nat
  BY DEF ManagerTypeOK, VaultTypeOK
<1>2. /\ state(c) = "Active" /\ now' = now /\ manager' = manager
      /\ coveredJobCovenant' = coveredJobCovenant
      /\ consumedEvidence' = consumedEvidence \cup {<<q, "BREACH", c>>}
      /\ covenantLocks' = covenantLocks
  BY DEF markPayoutDue, ConsumeEvidence, vaultVars
<1>3. covenants' = [covenants EXCEPT ![c] = r]
  BY DEF markPayoutDue, PayoutDueFrom, ManagerTypeOK
<1>4. /\ r.state = "PayoutDue" /\ r.payoutDueAt = now /\ SameTerms(r, covenants[c])
      /\ r.startAt = covenants[c].startAt /\ r.deadline = covenants[c].deadline
      /\ r.slaSeconds = covenants[c].slaSeconds
  BY <1>1 DEF CovenantRecord, SameTerms
<1>5. r \in CovenantRecord
  BY <1>1 DEF CovenantRecord, CovenantState, Live
<1> HIDE DEF r
<1>6. {<<q, "BREACH", c>>}
        \in SUBSET (Quorum \X {x \in EvidenceAction : r.state \in StateAfter[x]} \X {c})
  BY <1>4 DEF EvidenceAction, StateAfter, CovenantState, Live
<1>7. Moves(c, r)
  BY <1>2, <1>3, <1>4, <1>6 DEF Moves, Follows, Live
<1> QED
  BY <1>4, <1>5, <1>7, ClockKept DEF Acts

(* What a settlement pays is a number within the cap. *)
LEMMA PayoutWithinCap ==
  ASSUME ManagerTypeOK, NEW c \in Covenant, NEW x \in 0 .. covenants[c].buyerPaidAtomic
  PROVE  payoutFor(c, x) \in Nat /\ payoutFor(c, x) <= covenants[c].coverageCapAtomic
<1>1. /\ covenants[c].buyerPaidAtomic \in Nat /\ covenants[c].coverageCapAtomic \in Nat
  BY DEF ManagerTypeOK, CovenantRecord
<1>2. x \in Nat /\ (covenants[c].buyerPaidAtomic > x => covenants[c].buyerPaidAtomic - x \in Nat)
  BY <1>1
<1> QED
  BY <1>1, <1>2 DEF payoutFor

(* A breached covenant is settled, out of its lock. *)
LEMMA SettleActs ==
  ASSUME ManagerTypeOK, NEW q \in Quorum, NEW c \in Covenant,
         NEW x \in 0 .. covenants[c].buyerPaidAtomic, NEW t \in 0 .. now,
         settleNetLoss(q, c, x, t)
  PROVE  Acts(c)
<1> DEFINE n == payoutFor(c, x)
           after == IF n = 0 THEN "RecoveredWithoutPayout" ELSE "Paid"
           r == [covenants[c] EXCEPT !.payoutAtomic = n, !.state = after]
<1>1. covenants[c] \in CovenantRecord
  BY DEF ManagerTypeOK
<1>2. n \in Nat /\ n <= covenants[c].coverageCapAtomic
  BY PayoutWithinCap
<1>3. /\ state(c) = "PayoutDue" /\ ChallengeOver(c) /\ now' = now
      /\ coveredJobCovenant' = coveredJobCovenant
      /\ consumedEvidence' = consumedEvidence \cup {<<q, "SETTLEMENT", c>>}
      /\ \/ n = 0 /\ ReleaseBond(ManagerAddress, c)
         \/ n > 0 /\ SlashBond(ManagerAddress, c, c.buyer, n)
  BY DEF settleNetLoss, ConsumeEvidence
<1>4. covenants' = [covenants EXCEPT ![c] = r]
  BY DEF settleNetLoss, ManagerTypeOK
<1>5. /\ covenantLocks' = [covenantLocks EXCEPT ![c].active = FALSE]
      /\ manager' = manager
  BY <1>3 DEF ReleaseBond, SlashBond
<1>6. r.state = after /\ r.payoutAtomic = n
  BY <1>1 DEF CovenantRecord
<1>7. /\ SameTerms(r, covenants[c])
      /\ r.startAt = covenants[c].startAt /\ r.deadline = covenants[c].deadline
      /\ r.slaSeconds = covenants[c].slaSeconds
  BY <1>1 DEF CovenantRecord, SameTerms
<1>8. after \in {"RecoveredWithoutPayout", "Paid"} /\ (after = "Paid" => n > 0)
  BY <1>2
<1>9. r \in CovenantRecord
  <2>1. after \in CovenantState
    BY <1>8 DEF CovenantState, Final
  <2> HIDE DEF n, after
  <2> QED
    BY <1>1, <1>2, <2>1 DEF CovenantRecord
<1> HIDE DEF r, after
<1>10. {<<q, "SETTLEMENT", c>>}
        \in SUBSET (Quorum \X {a \in EvidenceAction : r.state \in StateAfter[a]} \X {c})
  BY <1>6, <1>8 DEF EvidenceAction, StateAfter
<1>11. r.state = "Paid" => Settles(c, r)
  BY <1>2, <1>3, <1>6, <1>8 DEF Settles
<1> HIDE DEF n
<1>12. Moves(c, r)
  BY <1>3, <1>4, <1>5, <1>6, <1>7, <1>8, <1>10, <1>11 DEF Moves, Follows, Live, Final
<1> QED
  BY <1>7, <1>9, <1>12, ClockKept DEF Acts

(* A covenant whose fee was never paid is cancelled, and its job freed. *)
LEMMA CancelActs ==
  ASSUME ManagerTypeOK, NEW q \in Quorum, NEW c \in Covenant, NEW t \in 0 .. now,
         cancelUnpaid(q, c, t)
  PROVE  Acts(c)
<1> DEFINE r == [covenants[c] EXCEPT !.state = "CancelledUnpaid"]
<1>1. covenants[c] \in CovenantRecord
  BY DEF ManagerTypeOK
<1>2. /\ state(c) \in Live /\ now' = now /\ manager' = manager
      /\ coveredJobCovenant' = JobFreed(c)
      /\ consumedEvidence' = consumedEvidence \cup {<<q, "CANCEL_UNPAID", c>>}
      /\ covenantLocks' = [covenantLocks EXCEPT ![c].active = FALSE]
  BY DEF cancelUnpaid, ConsumeEvidence, ReleaseBond
<1>3. covenants' = [covenants EXCEPT ![c] = r]
  BY DEF cancelUnpaid, ManagerTypeOK
<1>4. /\ r.state = "CancelledUnpaid" /\ SameTerms(r, covenants[c])
      /\ r.startAt = covenants[c].startAt /\ r.deadline = covenants[c].deadline
      /\ r.slaSeconds = covenants[c].slaSeconds
  BY <1>1 DEF CovenantRecord, SameTerms
<1>5. r \in CovenantRecord
  BY <1>1 DEF CovenantRecord, CovenantState, Final
<1> HIDE DEF r
<1>6. {<<q, "CANCEL_UNPAID", c>>}
        \in SUBSET (Quorum \X {x \in EvidenceAction : r.state \in StateAfter[x]} \X {c})
  BY <1>4 DEF EvidenceAction, StateAfter
<1>7. Moves(c, r)
  BY <1>2, <1>3, <1>4, <1>6 DEF Moves, Follows, Live, Final
<1> QED
  BY <1>4, <1>5, <1>7, ClockKept DEF Acts

-------------------------------------------------------------------------------
(* Every step has a shape, and is a step of the registry and the vault *)

\* One call on a covenant that keeps now and the registry, and moves bond only as
\* the vault lets its manager.
ManagerCall(c) ==
    /\ Acts(c)
    /\ UNCHANGED registryVars /\ UNCHANGED now
    /\ VaultManagerNext \/ UNCHANGED vaultVars

(* The vault lets the manager lock, release and slash. *)
LEMMA ManagerMovesBond ==
  ASSUME ManagerAssumption, VaultAssumption, VaultTypeOK, NEW c \in Covenant, UNCHANGED now
  PROVE  /\ \A p \in Address, n \in Amount : LockBond(ManagerAddress, c, p, n) => VaultManagerNext
         /\ ReleaseBond(ManagerAddress, c) => VaultManagerNext
         /\ \A n \in Nat : SlashBond(ManagerAddress, c, c.buyer, n) => VaultManagerNext
<1>1. ManagerAddress \in External
  BY DEF ManagerAssumption
<1>2. c.buyer \in Address
  BY CovenantShape DEF External
<1>3. ASSUME NEW n \in Nat, SlashBond(ManagerAddress, c, c.buyer, n)
      PROVE  n \in 1 .. covenantLocks[c].amount
  <2>1. covenantLocks[c].amount \in Nat
    BY DEF VaultTypeOK, CovenantLock
  <2> QED
    BY <1>3, <2>1 DEF SlashBond
<1> QED
  BY <1>1, <1>2, <1>3 DEF VaultManagerNext

(* The calls of either quorum, and expiry. *)
LEMMA QuorumCall ==
  ASSUME RegistryAssumption, ManagerAssumption, VaultAssumption,
         VaultTypeOK, RegistryTypeOK, ManagerTypeOK, NEW q \in Quorum, NEW c \in Covenant
  PROVE  /\ \A t \in 0 .. now : release(q, c, t) => ManagerCall(c)
         /\ markPayoutDue(q, c) => ManagerCall(c)
         /\ \A t \in 0 .. now, x \in 0 .. covenants[c].buyerPaidAtomic :
               settleNetLoss(q, c, x, t) => ManagerCall(c)
         /\ \A t \in 0 .. now : cancelUnpaid(q, c, t) => ManagerCall(c)
<1>1. ASSUME NEW t \in 0 .. now, release(q, c, t)
      PROVE  ManagerCall(c)
  BY <1>1, ReleaseActs, ManagerMovesBond DEF release, ManagerCall
<1>2. ASSUME markPayoutDue(q, c)
      PROVE  ManagerCall(c)
  BY <1>2, MarkActs DEF markPayoutDue, ManagerCall, vaultVars
<1>3. ASSUME NEW t \in 0 .. now, NEW x \in 0 .. covenants[c].buyerPaidAtomic,
             settleNetLoss(q, c, x, t)
      PROVE  ManagerCall(c)
  <2>1. payoutFor(c, x) \in Nat
    BY PayoutWithinCap
  <2>2. \/ ReleaseBond(ManagerAddress, c)
        \/ SlashBond(ManagerAddress, c, c.buyer, payoutFor(c, x))
    BY <1>3 DEF settleNetLoss
  <2>3. UNCHANGED registryVars /\ UNCHANGED now
    BY <1>3 DEF settleNetLoss
  <2> QED
    BY <1>3, <2>1, <2>2, <2>3, SettleActs, ManagerMovesBond DEF ManagerCall
<1>4. ASSUME NEW t \in 0 .. now, cancelUnpaid(q, c, t)
      PROVE  ManagerCall(c)
  BY <1>4, CancelActs, ManagerMovesBond DEF cancelUnpaid, ManagerCall
<1> QED
  BY <1>1, <1>2, <1>3, <1>4

(* Whatever anybody sends the manager is one call on one covenant. *)
LEMMA ManagerActionsCall ==
  ASSUME RegistryAssumption, ManagerAssumption, VaultAssumption,
         VaultTypeOK, RegistryTypeOK, ManagerTypeOK, ManagerActions
  PROVE  \E c \in Covenant : ManagerCall(c)
<1>0. "primary" \in Quorum /\ "recovery" \in Quorum
  BY DEF Quorum
<1>1. ASSUME NEW c \in Covenant, NEW cap \in Amount, NEW paid \in Amount,
             NEW a \in 1 .. now, NEW v \in now + 1 .. now + MaxFeeWindow,
             Issue(c, cap, paid, a, v)
      PROVE  ManagerCall(c)
  <2>1. /\ LockBond(ManagerAddress, c, policies[c.policyId].provider, cap)
        /\ UNCHANGED registryVars /\ UNCHANGED now
    BY <1>1 DEF Issue
  <2> QED
    BY <1>1, <2>1, IssueActs, ManagerMovesBond DEF ManagerCall
<1>2. ASSUME NEW c \in Covenant, NEW t \in 0 .. now, StartClock(c, t)
      PROVE  ManagerCall(c)
  BY <1>2, StartClockActs DEF StartClock, ManagerCall, vaultVars
<1>3. ASSUME NEW c \in Covenant, ExpireUnstarted(c)
      PROVE  ManagerCall(c)
  BY <1>3, ExpireUnstartedActs, ManagerMovesBond DEF ExpireUnstarted, ManagerCall
<1>4. CASE PrimaryNext
  BY <1>0, <1>1, <1>2, <1>4, QuorumCall
     DEF PrimaryNext, Release, MarkPayoutDue, SettleNetLoss, CancelUnpaid
<1>5. CASE RecoveryNext
  BY <1>0, <1>5, QuorumCall
     DEF RecoveryNext, RecoveryActs, EmergencyRelease, EmergencyMarkPayoutDue,
         EmergencySettleNetLoss, EmergencyCancelUnpaid
<1> QED
  BY <1>3, <1>4, <1>5 DEF ManagerActions

\* A step that leaves covenants and locks alone; time may pass, and the vault may
\* get its manager.
LeavesCovenants ==
    /\ UNCHANGED <<covenants, coveredJobCovenant, consumedEvidence, covenantLocks>>
    /\ manager' \in {manager, ManagerAddress}

(* The vault's users and the clock touch no lock, and the manager is set to none but *)
(* the given ones.                                                                   *)
LEMMA UsersKeepLocks ==
  ASSUME NEW users, NEW managers, VaultUsersNext(users, managers) \/ Tick
  PROVE  covenantLocks' = covenantLocks /\ manager' \in {manager} \cup managers
BY DEF VaultUsersNext, TransferOwnership, AcceptOwnership, InitializeManager, DirectTransfer,
   DepositFor, RequestWithdrawal, CancelWithdrawal, ExecuteWithdrawal, Tick

(* Every step of the system is a call on one covenant, or leaves them all alone. *)
LEMMA ManagerSteps ==
  ASSUME RegistryAssumption, ManagerAssumption, VaultAssumption,
         VaultTypeOK, RegistryTypeOK, ManagerTypeOK, [ManagerNext]_allManagerVars
  PROVE  (\E c \in Covenant : Acts(c)) \/ LeavesCovenants
<1>1. CASE ManagerActions
  BY <1>1, ManagerActionsCall DEF ManagerCall
<1>2. CASE RegistryActions /\ UNCHANGED <<vaultVars, managerVars>>
  BY <1>2 DEF LeavesCovenants, vaultVars, managerVars
<1>3. CASE (VaultUsersNext(External, {ManagerAddress}) \/ Tick) /\ UNCHANGED <<registryVars, managerVars>>
  BY <1>3, UsersKeepLocks DEF LeavesCovenants, managerVars
<1>4. CASE UNCHANGED allManagerVars
  BY <1>4 DEF LeavesCovenants, allManagerVars, vaultVars, managerVars
<1> QED
  BY <1>1, <1>2, <1>3, <1>4 DEF ManagerNext

(* Every step of the system is a step of the registry over its vault. *)
LEMMA ManagerStepIsRegistryStep ==
  ASSUME RegistryAssumption, ManagerAssumption, VaultAssumption,
         VaultTypeOK, RegistryTypeOK, ManagerTypeOK, [ManagerNext]_allManagerVars
  PROVE  [RegistryNext]_allRegistryVars
<1>1. CASE ManagerActions
  BY <1>1, ManagerActionsCall DEF ManagerCall, RegistryNext, VaultNext, allRegistryVars
<1>2. CASE RegistryActions /\ UNCHANGED <<vaultVars, managerVars>>
  BY <1>2 DEF RegistryNext
<1>3. CASE (VaultUsersNext(External, {ManagerAddress}) \/ Tick) /\ UNCHANGED <<registryVars, managerVars>>
  <2>1. ManagerAddress \in Address
    BY DEF ManagerAssumption, External
  <2>2. VaultUsersNext(External, {ManagerAddress}) => VaultUserNext
    BY <2>1 DEF VaultUserNext, VaultUsersNext
  <2> QED
    BY <1>3, <2>2 DEF RegistryNext, VaultNext
<1>4. CASE UNCHANGED allManagerVars
  BY <1>4 DEF allManagerVars, allRegistryVars
<1> QED
  BY <1>1, <1>2, <1>3, <1>4 DEF ManagerNext

-------------------------------------------------------------------------------
(* Each part of the invariant, for each shape *)

(* A covenant moves from a live state to a later one, never back to None. *)
LEMMA FollowsFacts ==
  ASSUME NEW before, NEW after, Follows(before, after)
  PROVE  /\ before \in Live /\ after \in CovenantState \ {"None", "PendingStart"}
         /\ after # before
         /\ after = "Active" => before = "PendingStart"
         /\ after = "PayoutDue" => before = "Active"
         /\ after \notin Live => after \in Final
BY DEF Follows, Live, Final, CovenantState

(* The one covenant that changes, and all the others that do not. *)
LEMMA OneCovenantChanges ==
  ASSUME ManagerTypeOK, NEW c \in Covenant, NEW r, Issues(c, r) \/ Moves(c, r)
  PROVE  /\ covenants'[c] = r /\ \A d \in Covenant \ {c} : covenants'[d] = covenants[d]
         /\ state(c)' = r.state /\ \A d \in Covenant \ {c} : state(d)' = state(d)
<1>1. covenants' = [covenants EXCEPT ![c] = r] /\ covenants \in [Covenant -> CovenantRecord]
  BY DEF Issues, Moves, ManagerTypeOK
<1> QED
  BY <1>1 DEF state

(* A call keeps every record typed, and every deadline at its clock's start. *)
LEMMA TypeKept ==
  ASSUME ManagerAssumption, ManagerTypeOK, NEW c \in Covenant, Acts(c)
  PROVE  ManagerTypeOK'
<1> PICK r \in CovenantRecord : ClockFollowsStart(r) /\ (Issues(c, r) \/ Moves(c, r))
  BY DEF Acts
<1>1. covenants' = [covenants EXCEPT ![c] = r]
  BY DEF Issues, Moves
<1>2. covenants' \in [Covenant -> CovenantRecord]
  BY <1>1 DEF ManagerTypeOK
<1>3. \A d \in Covenant : covenants'[d].startAt # 0 =>
          covenants'[d].deadline = covenants'[d].startAt + covenants'[d].slaSeconds
  BY OneCovenantChanges DEF ClockFollowsStart, ManagerTypeOK
<1>4. coveredJobCovenant' \in [Job -> Covenant \cup {NoCovenant}]
  BY CovenantShape DEF Issues, Moves, JobFreed, ManagerTypeOK
<1>5. consumedEvidence' \subseteq Quorum \X EvidenceAction \X Covenant
  <2>1. CASE Issues(c, r)
    <3>1. <<"primary", "ISSUE", c>> \in Quorum \X EvidenceAction \X Covenant
      BY DEF Quorum, EvidenceAction
    <3> QED
      BY <2>1, <3>1 DEF Issues, ManagerTypeOK
  <2>2. CASE Moves(c, r)
    <3>1. PICK used \in SUBSET (Quorum \X {a \in EvidenceAction : r.state \in StateAfter[a]} \X {c}) :
             consumedEvidence' = consumedEvidence \cup used
      BY <2>2 DEF Moves
    <3> QED
      BY <3>1 DEF ManagerTypeOK
  <2> QED
    BY <2>1, <2>2
<1> QED
  BY <1>2, <1>3, <1>4, <1>5 DEF ManagerTypeOK

(* A call locks the bond of what it issues and frees the bond of what it ends. *)
LEMMA LockKept ==
  ASSUME VaultTypeOK, ManagerTypeOK, LockFollowsCovenant, NEW c \in Covenant, Acts(c)
  PROVE  LockFollowsCovenant'
<1> PICK r \in CovenantRecord : Issues(c, r) \/ Moves(c, r)
  BY DEF Acts
<1>0. covenantLocks \in [Covenant -> CovenantLock]
  BY DEF VaultTypeOK
<1>1. ASSUME NEW d \in Covenant \ {c}
      PROVE  covenantLocks'[d] = covenantLocks[d]
  BY <1>0 DEF Issues, Moves
<1>2. CASE Issues(c, r)
  <2>1. covenantLocks'[c] = [provider |-> r.provider, amount |-> r.coverageCapAtomic, active |-> TRUE]
    BY <1>0, <1>2 DEF Issues
  <2>2. r.state \in Live
    BY <1>2 DEF Issues, Live
  <2> QED
    BY <1>1, <2>1, <2>2, OneCovenantChanges DEF LockFollowsCovenant
<1>3. CASE Moves(c, r)
  <2>1. state(c) \in Live /\ SameTerms(r, covenants[c])
    BY <1>3, FollowsFacts DEF Moves
  <2>2. covenantLocks'[c] = IF r.state \in Live THEN covenantLocks[c]
                             ELSE [covenantLocks[c] EXCEPT !.active = FALSE]
    BY <1>0, <1>3 DEF Moves
  <2>3. /\ covenantLocks'[c].provider = covenantLocks[c].provider
        /\ covenantLocks'[c].amount = covenantLocks[c].amount
        /\ covenantLocks'[c].active <=> r.state \in Live /\ covenantLocks[c].active
    BY <1>0, <2>2 DEF CovenantLock
  <2> QED
    BY <1>1, <2>1, <2>3, OneCovenantChanges DEF LockFollowsCovenant, SameTerms
<1> QED
  BY <1>2, <1>3

(* Issuing takes a free job, cancelling frees the job it took, and nothing else *)
(* touches one.                                                                  *)
LEMMA JobKept ==
  ASSUME ManagerAssumption, ManagerTypeOK, JobCoveredOnce, NEW c \in Covenant, Acts(c)
  PROVE  JobCoveredOnce'
<1> PICK r \in CovenantRecord : Issues(c, r) \/ Moves(c, r)
  BY DEF Acts
<1>0. /\ coveredJobCovenant \in [Job -> Covenant \cup {NoCovenant}] /\ NoCovenant \notin Covenant
      /\ \A d \in Covenant : d.jobId \in Job
  BY CovenantShape DEF ManagerTypeOK, ManagerAssumption
<1>1. CASE Issues(c, r)
  <2>1. /\ coveredJobCovenant[c.jobId] = NoCovenant
        /\ coveredJobCovenant' = [coveredJobCovenant EXCEPT ![c.jobId] = c]
        /\ r.state \in {"Active", "PendingStart"}
    BY <1>1 DEF Issues, NotYetCovered
  <2> QED
    BY <1>0, <2>1, OneCovenantChanges DEF JobCoveredOnce
<1>2. CASE Moves(c, r)
  <2>1. /\ state(c) \notin {"None", "CancelledUnpaid"} /\ r.state # "None"
    BY <1>2, FollowsFacts DEF Moves, Live
  <2>2. coveredJobCovenant[c.jobId] = c
    BY <2>1 DEF JobCoveredOnce
  <2>3. CASE r.state = "CancelledUnpaid"
    <3>1. coveredJobCovenant' = [coveredJobCovenant EXCEPT ![c.jobId] = NoCovenant]
      BY <1>2, <2>2, <2>3 DEF Moves, JobFreed
    <3> QED
      BY <1>0, <2>2, <2>3, <3>1, OneCovenantChanges DEF JobCoveredOnce
  <2>4. CASE r.state # "CancelledUnpaid"
    <3>1. coveredJobCovenant' = coveredJobCovenant
      BY <1>2, <2>4 DEF Moves
    <3> QED
      BY <2>1, <2>2, <2>4, <3>1, OneCovenantChanges DEF JobCoveredOnce
  <2> QED
    BY <2>3, <2>4
<1> QED
  BY <1>1, <1>2

(* Evidence that was used stays behind the state it led to. *)
LEMMA EvidenceKept ==
  ASSUME ManagerTypeOK, StateOutlivesEvidence, NEW c \in Covenant, Acts(c)
  PROVE  StateOutlivesEvidence'
<1> PICK r \in CovenantRecord : Issues(c, r) \/ Moves(c, r)
  BY DEF Acts
<1> SUFFICES ASSUME NEW e \in consumedEvidence'
             PROVE  state(e[3])' \in StateAfter[e[2]]
  BY DEF StateOutlivesEvidence
<1>1. CASE e \in consumedEvidence
  <2>1. state(e[3]) \in StateAfter[e[2]] /\ e[3] \in Covenant /\ e[2] \in EvidenceAction
    BY <1>1 DEF StateOutlivesEvidence, ManagerTypeOK
  <2>2. CASE e[3] # c
    BY <2>1, <2>2, OneCovenantChanges
  <2>3. CASE e[3] = c /\ Issues(c, r)
    <3>1. state(c) = "None"
      BY <2>3 DEF Issues, NotYetCovered
    <3> QED
      BY <2>1, <2>3, <3>1 DEF EvidenceAction, StateAfter
  <2>4. CASE e[3] = c /\ Moves(c, r)
    <3>1. Follows(state(c), r.state) /\ state(c)' = r.state
      BY <2>4, OneCovenantChanges DEF Moves
    <3>2. r.state \in StateAfter[e[2]]
      BY <2>1, <2>4, <3>1 DEF Follows, EvidenceAction, StateAfter, CovenantState, Live, Final
    <3> QED
      BY <2>4, <3>1, <3>2
  <2> QED
    BY <2>2, <2>3, <2>4
<1>2. CASE e \notin consumedEvidence /\ Issues(c, r)
  <2>1. e = <<"primary", "ISSUE", c>> /\ r.state \in {"Active", "PendingStart"}
    BY <1>2 DEF Issues
  <2>2. r.state \in StateAfter["ISSUE"]
    BY <2>1 DEF StateAfter, CovenantState, Live
  <2> QED
    BY <1>2, <2>1, <2>2, OneCovenantChanges
<1>3. CASE e \notin consumedEvidence /\ Moves(c, r)
  <2>1. e \in Quorum \X {a \in EvidenceAction : r.state \in StateAfter[a]} \X {c}
    BY <1>3 DEF Moves
  <2>2. e[3] = c /\ r.state \in StateAfter[e[2]]
    BY <2>1
  <2> QED
    BY <1>3, <2>2, OneCovenantChanges
<1> QED
  BY <1>1, <1>2, <1>3

(* What issuing checked of amounts and times stays true. *)
LEMMA TermsKept ==
  ASSUME VaultTypeOK, ManagerTypeOK, IssuedWithinTerms, NEW c \in Covenant, Acts(c)
  PROVE  IssuedWithinTerms'
<1> PICK r \in CovenantRecord : Issues(c, r) \/ Moves(c, r)
  BY DEF Acts
<1>0. now' = now /\ now \in Nat
  BY DEF Issues, Moves, VaultTypeOK
<1>1. CASE Issues(c, r)
  <2>1. /\ r.issuedAt = now /\ now < r.enrollmentExpiresAt
        /\ 0 < r.coverageCapAtomic /\ r.coverageCapAtomic <= r.buyerPaidAtomic
    BY <1>1 DEF Issues
  <2> QED
    BY <1>0, <2>1, OneCovenantChanges DEF IssuedWithinTerms
<1>2. CASE Moves(c, r)
  <2>1. SameTerms(r, covenants[c]) /\ state(c) # "None"
    BY <1>2, FollowsFacts DEF Moves, Live
  <2> QED
    BY <1>0, <1>2, <2>1, OneCovenantChanges DEF SameTerms, IssuedWithinTerms
<1> QED
  BY <1>1, <1>2

-------------------------------------------------------------------------------
(* The invariant *)

(* A step that leaves covenants and locks alone, and does not turn time back, keeps *)
(* what is said of them.                                                            *)
LEMMA LeavesKeeps ==
  ASSUME ManagerInv, LeavesCovenants, now' \in Nat, now' >= now
  PROVE  /\ ManagerTypeOK' /\ LockFollowsCovenant' /\ JobCoveredOnce'
         /\ StateOutlivesEvidence' /\ IssuedWithinTerms'
<1>1. ManagerTypeOK' /\ LockFollowsCovenant' /\ JobCoveredOnce' /\ StateOutlivesEvidence'
  BY DEF ManagerInv, LeavesCovenants, ManagerTypeOK, LockFollowsCovenant, JobCoveredOnce,
     StateOutlivesEvidence, state
<1>2. ASSUME NEW c \in Covenant, state(c)' # "None"
      PROVE  covenants[c].issuedAt <= now'
  <2>1. covenants[c].issuedAt <= now /\ covenants[c].issuedAt \in Nat /\ now \in Nat
    BY <1>2 DEF LeavesCovenants, ManagerInv, IssuedWithinTerms, state, ManagerTypeOK,
       CovenantRecord, VaultInv, VaultTypeOK
  <2> QED
    BY <2>1
<1>3. IssuedWithinTerms'
  BY <1>2 DEF ManagerInv, LeavesCovenants, IssuedWithinTerms, state
<1> QED
  BY <1>1, <1>3

(* Time never goes back. *)
LEMMA TimeAdvances ==
  ASSUME VaultTypeOK, [VaultNext]_vaultVars
  PROVE  now' \in Nat /\ now' >= now
<1>1. CASE Tick
  BY <1>1 DEF Tick, VaultTypeOK
<1>2. CASE VaultUserNext
  <2>1. now' = now
    BY <1>2 DEF VaultUserNext, VaultUsersNext, TransferOwnership, AcceptOwnership,
       InitializeManager, DirectTransfer, DepositFor, RequestWithdrawal, CancelWithdrawal,
       ExecuteWithdrawal
  <2> QED
    BY <2>1 DEF VaultTypeOK
<1>3. CASE VaultManagerNext \/ UNCHANGED vaultVars
  BY <1>3 DEF VaultManagerNext, vaultVars, VaultTypeOK
<1> QED
  BY <1>1, <1>2, <1>3 DEF VaultNext

(* Every step keeps the invariant. *)
LEMMA ManagerStepKeeps ==
  ASSUME RegistryAssumption, ManagerAssumption, VaultAssumption,
         ManagerInv, [ManagerNext]_allManagerVars
  PROVE  ManagerInv'
<1>0. VaultTypeOK /\ RegistryTypeOK /\ ManagerTypeOK
  BY DEF ManagerInv, VaultInv, RegistryInv
<1>1. [RegistryNext]_allRegistryVars
  BY <1>0, ManagerStepIsRegistryStep
<1>2. [VaultNext]_vaultVars
  BY <1>1 DEF RegistryNext, allRegistryVars, vaultVars
<1>3. VaultInv'
  BY <1>2, VaultStepKeeps, VaultInvStep DEF ManagerInv
<1>4. RegistryInv'
  BY <1>1, RegistryStepKeeps DEF ManagerInv
<1>5. ASSUME NEW c \in Covenant, Acts(c)
      PROVE  /\ ManagerTypeOK' /\ LockFollowsCovenant' /\ JobCoveredOnce'
             /\ StateOutlivesEvidence' /\ IssuedWithinTerms'
  BY <1>0, <1>5, TypeKept, LockKept, JobKept, EvidenceKept, TermsKept DEF ManagerInv
<1>6. ASSUME LeavesCovenants
      PROVE  /\ ManagerTypeOK' /\ LockFollowsCovenant' /\ JobCoveredOnce'
             /\ StateOutlivesEvidence' /\ IssuedWithinTerms'
  BY <1>0, <1>2, <1>6, TimeAdvances, LeavesKeeps
<1>7. (\E c \in Covenant : Acts(c)) \/ LeavesCovenants
  BY <1>0, ManagerSteps
<1> QED
  BY <1>3, <1>4, <1>5, <1>6, <1>7 DEF ManagerInv

(* Nothing is covered at deployment. *)
LEMMA ManagerInvInit ==
  ASSUME RegistryAssumption, ManagerAssumption, VaultAssumption,
         VaultInit, RegistryInit, ManagerInit
  PROVE  ManagerInv
<1>1. EmptyCovenant \in CovenantRecord
  BY DEF EmptyCovenant, CovenantRecord, CovenantState
<1>2. EmptyCovenant.startAt = 0 /\ EmptyCovenant.state = "None"
      /\ EmptyCovenant.provider = NoAddress /\ EmptyCovenant.coverageCapAtomic = 0
  BY DEF EmptyCovenant
<1>3. ManagerTypeOK
  BY <1>1, <1>2 DEF ManagerInit, ManagerTypeOK
<1>4. \A c \in Covenant : state(c) = "None" /\ c.jobId \in Job
  BY <1>2, CovenantShape DEF ManagerInit, state
<1>5. LockFollowsCovenant
  BY <1>2, <1>4 DEF VaultInit, ManagerInit, NoLock, LockFollowsCovenant, Live
<1>6. JobCoveredOnce
  BY <1>4 DEF ManagerInit, JobCoveredOnce, ManagerAssumption
<1>7. StateOutlivesEvidence /\ IssuedWithinTerms
  BY <1>4 DEF ManagerInit, StateOutlivesEvidence, IssuedWithinTerms
<1> QED
  BY <1>3, <1>5, <1>6, <1>7, VaultInvInit, RegistryInvInit DEF ManagerInv

(* The invariant holds in every state the system reaches. *)
LEMMA ManagerInvariant == ManagerSpec => []ManagerInv
<1>1. VaultInit /\ RegistryInit /\ ManagerInit => ManagerInv
  BY VaultAssumption, RegistryAssumption, ManagerAssumption, ManagerInvInit
<1>2. ManagerInv /\ [ManagerNext]_allManagerVars => ManagerInv'
  BY VaultAssumption, RegistryAssumption, ManagerAssumption, ManagerStepKeeps
<1> QED
  BY <1>1, <1>2, PTL DEF ManagerSpec

-------------------------------------------------------------------------------
(* Theorems *)

(* Every reachable covenant is a whole record with its deadline at the start of its *)
(* clock, whatever was attested.                                                    *)
THEOREM ManagerTypes == ManagerSpec => []ManagerTypeOK
<1>1. ManagerInv => ManagerTypeOK
  BY DEF ManagerInv
<1> QED
  BY <1>1, ManagerInvariant, PTL

(* Bond is locked exactly while its covenant is live, on every path a covenant can take. *)
THEOREM ManagerLocksFollow == ManagerSpec => []LockFollowsCovenant
<1>1. ManagerInv => LockFollowsCovenant
  BY DEF ManagerInv
<1> QED
  BY <1>1, ManagerInvariant, PTL

(* A job never has two covenants in force, and the index names the one it has. *)
THEOREM ManagerCoversJobOnce == ManagerSpec => []JobCoveredOnce
<1>1. ManagerInv => JobCoveredOnce
  BY DEF ManagerInv
<1> QED
  BY <1>1, ManagerInvariant, PTL

(* No action is taken twice on a covenant, whatever further evidence is signed for it. *)
THEOREM ManagerOutlivesEvidence == ManagerSpec => []StateOutlivesEvidence
<1>1. ManagerInv => StateOutlivesEvidence
  BY DEF ManagerInv
<1> QED
  BY <1>1, ManagerInvariant, PTL

(* A pending covenant can be started or expired, never both and never neither. *)
THEOREM ManagerStartsOrExpires == ManagerSpec => []StartsOrExpires
<1>1. ManagerInv => StartsOrExpires
  <2> SUFFICES ASSUME ManagerInv, NEW c \in Covenant, state(c) = "PendingStart"
               PROVE  ~((\E t \in 0 .. now : CanStartClock(c, t)) <=> CanExpireUnstarted(c))
    BY DEF StartsOrExpires
  <2>1. /\ covenants[c].issuedAt \in Nat /\ covenants[c].enrollmentExpiresAt \in Nat
        /\ covenants[c].feeAuthorizationValidBefore \in Nat /\ now \in Nat
    BY DEF ManagerInv, ManagerTypeOK, CovenantRecord, VaultInv, VaultTypeOK
  <2>2. covenants[c].issuedAt <= now /\ covenants[c].issuedAt <= covenants[c].enrollmentExpiresAt
    BY <2>1 DEF ManagerInv, IssuedWithinTerms
  <2>3. clockCutoff(c) \in Nat
    BY <2>1, ManagerAssumption DEF clockCutoff, ManagerAssumption
  <2>4. now <= clockCutoff(c) => CanStartClock(c, covenants[c].issuedAt)
    BY <2>1, <2>2 DEF CanStartClock
  <2>5. CanExpireUnstarted(c) <=> now > clockCutoff(c)
    BY DEF CanExpireUnstarted, clockCutoff
  <2> QED
    BY <2>1, <2>2, <2>3, <2>4, <2>5 DEF CanStartClock
<1> QED
  BY <1>1, ManagerInvariant, PTL

(* With the manager in place the registry and the vault behave as they do without   *)
(* it, so every theorem about RegistrySpec, and through it VaultSpec, holds of it.  *)
THEOREM ManagerImplementsRegistry == ManagerSpec => RegistrySpec
<1>1. ManagerInv /\ [ManagerNext]_allManagerVars => [RegistryNext]_allRegistryVars
  BY VaultAssumption, RegistryAssumption, ManagerAssumption, ManagerStepIsRegistryStep
     DEF ManagerInv, VaultInv, RegistryInv
<1> QED
  BY <1>1, ManagerInvariant, PTL DEF ManagerSpec, RegistrySpec, allRegistryVars

(* A covenant is paid only by settling it, and never left again. *)
LEMMA PaidBySettling ==
  ASSUME RegistryAssumption, ManagerAssumption, VaultAssumption,
         ManagerInv, [ManagerNext]_allManagerVars, NEW c \in Covenant, state(c)' = "Paid"
  PROVE  \/ state(c) = "Paid"
         \/ \E r \in CovenantRecord : Moves(c, r) /\ Settles(c, r) /\ covenants'[c] = r
<1>0. VaultTypeOK /\ RegistryTypeOK /\ ManagerTypeOK
  BY DEF ManagerInv, VaultInv, RegistryInv
<1>1. CASE LeavesCovenants
  BY <1>1 DEF LeavesCovenants, state
<1>2. ASSUME NEW d \in Covenant, NEW r \in CovenantRecord, Issues(d, r) \/ Moves(d, r),
             state(c) # "Paid"
      PROVE  Moves(c, r) /\ Settles(c, r) /\ covenants'[c] = r
  <2>1. d = c /\ r.state = "Paid" /\ covenants'[c] = r
    BY <1>0, <1>2, OneCovenantChanges
  <2> QED
    BY <1>2, <2>1 DEF Issues, Moves
<1> QED
  BY <1>0, <1>1, <1>2, ManagerSteps DEF Acts

(* A settlement pays the buyer out of this covenant's lock and nothing else. *)
THEOREM ManagerPaysFromTheLock == ManagerSpec => PaidFromTheLock
<1> DEFINE Pays == \A c \in Covenant :
          (state(c) # "Paid" /\ state(c)' = "Paid") =>
            LET payout == covenants'[c].payoutAtomic
                p      == covenants[c].provider IN
            /\ payout > 0 /\ payout <= covenants[c].coverageCapAtomic
            /\ payout <= covenants[c].buyerPaidAtomic
            /\ tokenBalance'[c.buyer] = tokenBalance[c.buyer] + payout
            /\ accounts'[p].balance = accounts[p].balance - payout
            /\ \A q \in Address \ {p} : accounts'[q] = accounts[q]
<1>1. ManagerInv /\ [ManagerNext]_allManagerVars => [Pays]_allManagerVars
  <2> SUFFICES ASSUME ManagerInv, [ManagerNext]_allManagerVars,
                      NEW c \in Covenant, state(c) # "Paid", state(c)' = "Paid"
               PROVE  LET payout == covenants'[c].payoutAtomic
                          p      == covenants[c].provider IN
                      /\ payout > 0 /\ payout <= covenants[c].coverageCapAtomic
                      /\ payout <= covenants[c].buyerPaidAtomic
                      /\ tokenBalance'[c.buyer] = tokenBalance[c.buyer] + payout
                      /\ accounts'[p].balance = accounts[p].balance - payout
                      /\ \A q \in Address \ {p} : accounts'[q] = accounts[q]
    OBVIOUS
  <2> DEFINE n == covenants'[c].payoutAtomic
             p == covenants[c].provider
  <2>1. PICK r \in CovenantRecord : Settles(c, r) /\ covenants'[c] = r
    BY VaultAssumption, RegistryAssumption, ManagerAssumption, PaidBySettling
  <2>2. /\ n > 0 /\ n <= covenants[c].coverageCapAtomic /\ n \in Nat
        /\ SlashBond(ManagerAddress, c, c.buyer, n) /\ state(c) = "PayoutDue"
    BY <2>1 DEF Settles, CovenantRecord
  <2>3. n <= covenants[c].buyerPaidAtomic
    <3>1. covenants[c].coverageCapAtomic <= covenants[c].buyerPaidAtomic
      BY <2>2 DEF ManagerInv, IssuedWithinTerms
    <3>2. covenants[c].coverageCapAtomic \in Nat /\ covenants[c].buyerPaidAtomic \in Nat
      BY DEF ManagerInv, ManagerTypeOK, CovenantRecord
    <3> QED
      BY <2>2, <3>1, <3>2
  <2>4. tokenBalance'[c.buyer] = tokenBalance[c.buyer] + n
    BY <2>2 DEF SlashBond, SafeTransfer, ReceivedExactly
  <2>5. p = covenantLocks[c].provider /\ p \in Address
    <3>1. covenantLocks[c].active
      BY <2>2 DEF SlashBond
    <3> QED
      BY <3>1 DEF ManagerInv, LockFollowsCovenant, VaultInv, LocksNameProvider
  <2>6. accounts' = [accounts EXCEPT ![p] = AccountAfterSlash(@, covenantLocks[c].amount, n)]
    BY <2>2, <2>5 DEF SlashBond
  <2>7. accounts \in [Address -> BondAccount]
    BY DEF ManagerInv, VaultInv, VaultTypeOK
  <2>8. accounts'[p].balance = accounts[p].balance - n
    BY <2>5, <2>6, <2>7 DEF AccountAfterSlash, BondAccount
  <2>9. \A q \in Address \ {p} : accounts'[q] = accounts[q]
    BY <2>6, <2>7
  <2> QED
    BY <2>2, <2>3, <2>4, <2>8, <2>9
<1> QED
  BY <1>1, ManagerInvariant, PTL DEF ManagerSpec, PaidFromTheLock

-------------------------------------------------------------------------------
(* The challenge period *)

\* When each covenant was last seen unbreached, against what the manager recorded.
UnbreachedTracked ==
    /\ unbreachedAt \in [Covenant -> Nat]
    /\ \A c \in Covenant :
          /\ state(c) = "Active" => unbreachedAt[c] = now
          /\ state(c) = "PayoutDue" => unbreachedAt[c] <= covenants[c].payoutDueAt
          /\ state(c) = "Paid" => now > unbreachedAt[c] + SettlementChallenge

(* A covenant becomes payout-due at the time its breach is mined, and is paid more *)
(* than a challenge period later, so the history keeps its distance.               *)
LEMMA WatchKeeps ==
  ASSUME RegistryAssumption, ManagerAssumption, VaultAssumption,
         ManagerInv, UnbreachedTracked, [ManagerNext /\ Watch]_watchedVars
  PROVE  UnbreachedTracked'
<1>0. /\ VaultTypeOK /\ RegistryTypeOK /\ ManagerTypeOK
      /\ now \in Nat /\ SettlementChallenge \in Nat
      /\ \A c \in Covenant : covenants[c].payoutDueAt \in Nat
  BY DEF ManagerInv, VaultInv, RegistryInv, VaultTypeOK, ManagerTypeOK, CovenantRecord,
     ManagerAssumption
<1>1. CASE UNCHANGED watchedVars
  BY <1>1 DEF watchedVars, allManagerVars, vaultVars, managerVars, UnbreachedTracked, state
<1>2. CASE ManagerNext /\ Watch
  <2>1. [VaultNext]_vaultVars
    BY <1>0, <1>2, ManagerStepIsRegistryStep DEF RegistryNext, allRegistryVars, vaultVars
  <2>2. now' \in Nat /\ now' >= now
    BY <1>0, <2>1, TimeAdvances
  <2>3. \A c \in Covenant : unbreachedAt'[c] =
          IF state(c)' = "Active" THEN now'
          ELSE IF state(c)' \in {"PayoutDue", "Paid"} THEN unbreachedAt[c] ELSE 0
    BY <1>2 DEF Watch
  <2>4. unbreachedAt' \in [Covenant -> Nat]
    BY <1>2, <2>2 DEF Watch, UnbreachedTracked
  <2>5. ASSUME NEW c \in Covenant, state(c)' = "PayoutDue"
        PROVE  unbreachedAt'[c] <= covenants'[c].payoutDueAt
    <3>1. CASE LeavesCovenants
      BY <2>3, <2>5, <3>1 DEF LeavesCovenants, state, UnbreachedTracked
    <3>2. ASSUME NEW d \in Covenant, NEW r \in CovenantRecord, Issues(d, r) \/ Moves(d, r)
          PROVE  unbreachedAt'[c] <= covenants'[c].payoutDueAt
      <4>1. CASE d # c
        BY <1>0, <2>3, <2>5, <3>2, <4>1, OneCovenantChanges DEF UnbreachedTracked
      <4>2. CASE d = c
        <5>1. r.state = "PayoutDue" /\ covenants'[c] = r
          BY <1>0, <2>5, <3>2, <4>2, OneCovenantChanges
        <5>2. Moves(c, r)
          BY <3>2, <4>2, <5>1 DEF Issues
        <5>3. state(c) = "Active" /\ r.payoutDueAt = now
          BY <5>1, <5>2, FollowsFacts DEF Moves
        <5> QED
          BY <1>0, <2>3, <2>5, <5>1, <5>3 DEF UnbreachedTracked
      <4> QED
        BY <4>1, <4>2
    <3> QED
      BY <1>0, <1>2, <3>1, <3>2, ManagerSteps DEF Acts
  <2>6. ASSUME NEW c \in Covenant, state(c)' = "Paid"
        PROVE  now' > unbreachedAt'[c] + SettlementChallenge
    <3>1. unbreachedAt'[c] = unbreachedAt[c] /\ unbreachedAt[c] \in Nat
      BY <2>3, <2>6 DEF UnbreachedTracked
    <3>2. CASE state(c) = "Paid"
      BY <1>0, <2>2, <3>1, <3>2 DEF UnbreachedTracked
    <3>3. CASE state(c) # "Paid"
      <4>1. state(c) = "PayoutDue" /\ now > covenants[c].payoutDueAt + SettlementChallenge
        BY <1>2, <2>6, <3>3, PaidBySettling DEF Settles, ChallengeOver
      <4> QED
        BY <1>0, <2>2, <3>1, <4>1 DEF UnbreachedTracked
    <3> QED
      BY <3>2, <3>3
  <2> QED
    BY <2>3, <2>4, <2>5, <2>6 DEF UnbreachedTracked
<1> QED
  BY <1>1, <1>2

(* No covenant is paid before a whole challenge period after it was last unbreached. *)
THEOREM ManagerChallengesBeforePayout == WatchedSpec => []ChallengeBeforePayout
<1> DEFINE Inv == ManagerInv /\ UnbreachedTracked
<1>1. VaultInit /\ RegistryInit /\ ManagerInit /\ WatchInit => Inv
  <2> SUFFICES ASSUME VaultInit, RegistryInit, ManagerInit, WatchInit
               PROVE  Inv
    OBVIOUS
  <2>1. ManagerInv
    BY VaultAssumption, RegistryAssumption, ManagerAssumption, ManagerInvInit
  <2>2. UnbreachedTracked
    BY DEF ManagerInit, EmptyCovenant, WatchInit, UnbreachedTracked, state
  <2> QED
    BY <2>1, <2>2
<1>2. Inv /\ [ManagerNext /\ Watch]_watchedVars => Inv'
  <2> SUFFICES ASSUME Inv, [ManagerNext /\ Watch]_watchedVars
               PROVE  Inv'
    OBVIOUS
  <2>1. [ManagerNext]_allManagerVars
    BY DEF watchedVars
  <2> QED
    BY <2>1, VaultAssumption, RegistryAssumption, ManagerAssumption, ManagerStepKeeps, WatchKeeps
<1>3. Inv => ChallengeBeforePayout
  BY DEF UnbreachedTracked, ChallengeBeforePayout
<1> QED
  BY <1>1, <1>2, <1>3, PTL DEF WatchedSpec

-------------------------------------------------------------------------------
(* A timely completion is accepted *)

\* Covenants have their deadline no earlier than they were issued, and bond is
\* locked by the manager contract only.
DeadlineAfterIssue ==
    \A c \in Covenant : state(c) \in {"Active", "PayoutDue"} =>
        covenants[c].issuedAt <= covenants[c].deadline
LockedByManager == \A c \in Covenant : covenantLocks[c].active => manager = ManagerAddress

\* No check of manager or vault stands between a live covenant and its release: at
\* the least a completion at its issue is timely, its bond is locked, and the vault
\* takes the call.
NothingRefusesRelease ==
    \A c \in Covenant : state(c) \in Live =>
        /\ \E t \in 0 .. now : CanRelease(c, t)
        /\ covenantLocks[c].active /\ manager = ManagerAddress

(* A covenant is issued before its deadline, started after its issue, and its lock *)
(* taken by the manager.                                                           *)
LEMMA ReleasableKept ==
  ASSUME RegistryAssumption, ManagerAssumption, VaultAssumption,
         ManagerInv, DeadlineAfterIssue, LockedByManager, [ManagerNext]_allManagerVars
  PROVE  DeadlineAfterIssue' /\ LockedByManager'
<1>0. VaultTypeOK /\ RegistryTypeOK /\ ManagerTypeOK
  BY DEF ManagerInv, VaultInv, RegistryInv
<1>1. CASE LeavesCovenants
  BY <1>1 DEF LeavesCovenants, DeadlineAfterIssue, LockedByManager, state
<1>2. ASSUME NEW c \in Covenant, NEW r \in CovenantRecord, Issues(c, r)
      PROVE  DeadlineAfterIssue' /\ LockedByManager'
  <2>1. r.state # "PayoutDue" /\ (r.state = "Active" => r.issuedAt <= r.deadline)
    BY <1>2 DEF Issues
  <2>2. DeadlineAfterIssue'
    BY <1>0, <1>2, <2>1, OneCovenantChanges DEF DeadlineAfterIssue
  <2>3. LockedByManager'
    BY <1>2 DEF Issues, LockedByManager
  <2> QED
    BY <2>2, <2>3
<1>3. ASSUME NEW c \in Covenant, NEW r \in CovenantRecord, Moves(c, r)
      PROVE  DeadlineAfterIssue' /\ LockedByManager'
  <2>1. r.state \in {"Active", "PayoutDue"} => r.issuedAt <= r.deadline
    BY <1>3, FollowsFacts DEF Moves, SameTerms, DeadlineAfterIssue
  <2>2. DeadlineAfterIssue'
    BY <1>0, <1>3, <2>1, OneCovenantChanges DEF DeadlineAfterIssue
  <2>3. \A d \in Covenant : covenantLocks'[d].active => covenantLocks[d].active
    BY <1>0, <1>3 DEF Moves, VaultTypeOK, CovenantLock
  <2>4. LockedByManager'
    BY <1>3, <2>3 DEF Moves, LockedByManager
  <2> QED
    BY <2>2, <2>4
<1> QED
  BY <1>0, <1>1, <1>2, <1>3, ManagerSteps DEF Acts

(* A timely completion of a live covenant is never refused: what                   *)
(* TimelyCompletionAlwaysAccepted says of the call, said of each check it makes.   *)
THEOREM ManagerNeverRefusesTimely == ManagerSpec => []NothingRefusesRelease
<1> DEFINE Inv == ManagerInv /\ DeadlineAfterIssue /\ LockedByManager
<1>1. VaultInit /\ RegistryInit /\ ManagerInit => Inv
  <2> SUFFICES ASSUME VaultInit, RegistryInit, ManagerInit
               PROVE  Inv
    OBVIOUS
  <2>1. ManagerInv
    BY VaultAssumption, RegistryAssumption, ManagerAssumption, ManagerInvInit
  <2>2. DeadlineAfterIssue /\ LockedByManager
    BY DEF VaultInit, NoLock, ManagerInit, EmptyCovenant, DeadlineAfterIssue, LockedByManager, state
  <2> QED
    BY <2>1, <2>2
<1>2. Inv /\ [ManagerNext]_allManagerVars => Inv'
  BY VaultAssumption, RegistryAssumption, ManagerAssumption, ManagerStepKeeps, ReleasableKept
<1>3. Inv => NothingRefusesRelease
  <2> SUFFICES ASSUME Inv, NEW c \in Covenant, state(c) \in Live
               PROVE  /\ \E t \in 0 .. now : CanRelease(c, t)
                      /\ covenantLocks[c].active /\ manager = ManagerAddress
    BY DEF NothingRefusesRelease
  <2>1. covenantLocks[c].active /\ manager = ManagerAddress
    BY DEF ManagerInv, LockFollowsCovenant, LockedByManager
  <2>2. /\ covenants[c].issuedAt \in Nat /\ covenants[c].enrollmentExpiresAt \in Nat
        /\ covenants[c].deadline \in Nat /\ now \in Nat
    BY DEF ManagerInv, ManagerTypeOK, CovenantRecord, VaultInv, VaultTypeOK
  <2>3. covenants[c].issuedAt <= now /\ covenants[c].issuedAt <= covenants[c].enrollmentExpiresAt
    BY <2>2 DEF ManagerInv, IssuedWithinTerms, Live
  <2>4. covenants[c].issuedAt <= releaseDeadline(c)
    BY <2>3 DEF DeadlineAfterIssue, releaseDeadline, Live
  <2>5. CanRelease(c, covenants[c].issuedAt)
    BY <2>2, <2>3, <2>4 DEF CanRelease
  <2> QED
    BY <2>1, <2>2, <2>3, <2>5
<1> QED
  BY <1>1, <1>2, <1>3, PTL DEF ManagerSpec
===============================================================================
