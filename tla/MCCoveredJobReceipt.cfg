SPECIFICATION MCServiceSpec
CONSTANTS
    r1 = r1
    r2 = r2
    p1 = p1
    p2 = p2
    p3 = p3
    a1 = a1
    a2 = a2
    c1 = c1
    c2 = c2
    k1 = k1
    k2 = k2
    o1 = o1
    o2 = o2
    NoRequest = NoRequest
    NoPayment = NoPayment
    NoPayout = NoPayout
    Request = {r1, r2}
    Payment = {p1, p2, p3}
    RequestOf <- ThreeForTwoJobs
    Authorization = {a1, a2}
    AuthorizationOf <- TwoHeaders
    Cap = {1, 2}
    CapOf <- ThreeCaps
    InitialReserve = 2
    Bonded = {}
    Relayed = {}
    Call = {c1, c2}
    Reconciler = {k1, k2}
    Recorder = {o1, o2}
    Payout = {t1}
    MaxCrashes = 1
INVARIANTS
    IssuedLiabilityCounted
    ChargedIsRecorded
    PayoutPaysOneReceipt
PROPERTIES
    ReceiptsOnlyAdvance
    HeaderSubmittedByOne
    ChargedGetsReceipt
