SPECIFICATION Spec
CONSTANTS
    Quote = {q}
    Deal = q
    Worker = {b1, r}
    Buyer = {b1}
    Reconciler = r
    Stage = {"covenantIssued", "feeFunded", "clockStarted", "feeCaptured", "feeRefunded"}
    NoGrant = NoGrant
    NoReceipt = NoReceipt
    QuoteTtl = 4
    Lease = 1
    MaxTime = 4
    LateCall = {"issue", "fund", "startClock", "capture"}
    MaxFaults = 1
    ValidBefore = 2
    EnrollmentWindow = 1
    RefundGrace = 1
    ClockRecovery = 1
    Sla = 1
    Challenge = 0
    ClaimMargin = 1
    Addresses = 2
INVARIANTS
    PaidIsCovered
    CapturedForStartedCover
    TimelyNeverInBreach
    CompleteIsSettled
PROPERTIES
    ImplementsDeal
CHECK_DEADLOCK FALSE
