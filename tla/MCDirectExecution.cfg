SPECIFICATION MCExecutionSpec
CONSTANTS
    b1 = b1
    b2 = b2
    Quote = {q}
    Deal = q
    Worker = {b1, b2}
    Buyer = {b1, b2}
    Stage = {"covenantIssued", "feeFunded", "clockStarted", "feeCaptured", "feeRefunded"}
    NoGrant = NoGrant
    NoReceipt = NoReceipt
    QuoteTtl = 4
    Lease = 1
    MaxTime = 4
    LateCall = {}
    MaxFaults = 1
    ValidBefore = 3
    EnrollmentWindow = 1
    RefundGrace = 1
    ClockRecovery = 2
    Sla = 1
    Challenge = 1
    ClaimMargin = 1
    Addresses = 2
SYMMETRY Symmetry
INVARIANTS
    OneInvocationForwards
PROPERTIES
    ReceiptNeverReplaced
CHECK_DEADLOCK FALSE
