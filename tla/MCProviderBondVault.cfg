SPECIFICATION VaultSpec
CONSTANTS
    alice = alice
    bob = bob
    vault = vault
    zero = zero
    c1 = c1
    c2 = c2
    Address = {alice, bob, vault}
    NoAddress = zero
    VaultAddress = vault
    Covenant = {c1, c2}
    Amount = {1, 2}
    InitialTokens = 2
    WithdrawalDelay = 1
    MaxTime = 1
SYMMETRY Symmetry
INVARIANTS
    LockedIsSumOfActiveLocks
    BondCoversCommitments
PROPERTIES
    SurplusNeverFalls
    LocksAreOneShot
CHECK_DEADLOCK FALSE
