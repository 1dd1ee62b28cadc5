SPECIFICATION MCLiveSpec
CONSTANTS
    provider = provider
    buyer = buyer
    vault = vault
    contract = contract
    NoAddress = NoAddress
    Address = {provider, buyer, vault, contract}
    VaultAddress = vault
    ManagerAddress = contract
    task = task
    relay = relay
    f1 = f1
    feeA = feeA
    feeB = feeB
    j1 = j1
    j2 = j2
    Covenant <- MCThree
    Amount = {1, 2}
    InitialTokens = 0
    Bond = 2
    WithdrawalDelay = 2
    MaxTime = 6
    Service = {task, relay}
    Policy <- MCPolicy
    Fingerprint = {f1}
    Terms <- MCTerms
    MinimumBond = 1
    MaximumSla = 1
    MaxVersion = 1
    Job = {j1, j2}
    FeeAuthorization = {feeA, feeB}
    NoCovenant = NoCovenant
    MaxFeeWindow = 1
    ClockStartRecovery = 1
    SettlementMaxAge = 1
    CancellationMaxAge = 1
    SettlementChallenge = 1
    EmergencyDelay = 1
    LastIssueTime = 2
    LastBreachTime = 3
INVARIANTS
    StateOutlivesEvidence
    TimelyCompletionAlwaysAccepted
    StartsOrExpires
    ChallengeBeforePayout
    LockFollowsCovenant
    JobCoveredOnce
PROPERTIES
    PaidFromTheLock
    EveryCovenantResolves
CHECK_DEADLOCK FALSE
