SPECIFICATION MCLiveSpec
CONSTANTS
    provider = provider
    buyer = buyer
    vault = vault
    contract = contract
    escrow = escrow
    treasury = treasury
    NoAddress = NoAddress
    Address = {provider, buyer, vault, contract, escrow, treasury}
    VaultAddress = vault
    ManagerAddress = contract
    EscrowAddress = escrow
    Treasury = treasury
    relay = relay
    f1 = f1
    j1 = j1
    j2 = j2
    Covenant <- MCTwoCovenants
    FeeAuthorization <- MCTwoFees
    FeeAmount = 2
    LateClose = 4
    MaxAuthorizationWindow = 3
    RefundGrace = 1
    CaptureMaxAge = 1
    TokenSupply = 6
    Amount = {1}
    InitialTokens = 0
    Bond = 2
    MCRecoveryFrom = 5
    WithdrawalDelay = 2
    MaxTime = 5
    Service = {relay}
    Policy <- MCPolicy
    Fingerprint = {f1}
    Terms <- MCTerms
    MinimumBond = 1
    MaximumSla = 1
    MaxVersion = 1
    Job = {j1, j2}
    NoCovenant = NoCovenant
    MaxFeeWindow = 2
    ClockStartRecovery = 1
    SettlementMaxAge = 1
    CancellationMaxAge = 1
    SettlementChallenge = 1
    EmergencyDelay = 2
    LastIssueTime = 2
    LastBreachTime = 6
    Signers <- MCSigners
    Threshold <- MCThreshold
    Key = {1, 2, 3, 4, 5, 6, 7, 8, 9, 10, 11}
    Payment <- MCPayment
    Purchase <- MCPurchase
    MaxSignatures = 3
INVARIANTS
    EveryFeeIsBacked
    RefundAfterProviderWindow
    OutcomesAreTrue
    MoneyFollowsService
PROPERTIES
    ImplementsDeals
    EveryFeeLeaves
CHECK_DEADLOCK FALSE
