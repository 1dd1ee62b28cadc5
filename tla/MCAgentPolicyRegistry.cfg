SPECIFICATION MCSpec
CONSTANTS
    alice = alice
    bob = bob
    vault = vault
    service = service
    f1 = f1
    f2 = f2
    Address = {alice, bob, vault}
    NoAddress = NoAddress
    VaultAddress = vault
    Covenant = {}
    Amount = {1}
    InitialTokens = 1
    WithdrawalDelay = 1
    MaxTime = 1
    Service = {service}
    Policy <- MCPolicy
    Fingerprint = {f1, f2}
    Terms <- MCTerms
    MinimumBond = 1
    MaximumSla = 1
    MaxVersion = 2
    d1 = d1
    d2 = d2
    Desk = {d1, d2}
    MaxEntry = 2
    SignatureTtl = 1
SYMMETRY MCSymmetry
INVARIANTS
    OfferedIsRegistered
    SignatureSpentOnce
PROPERTIES
    EntriesOnlyAdvance
    RetiredNeverCovers
CHECK_DEADLOCK FALSE
