SPECIFICATION MCBuyersSpec
CONSTANTS
    r1 = r1
    r2 = r2
    p1 = p1
    p2 = p2
    p3 = p3
    a1 = a1
    a2 = a2
    c1 = c1
    c2 = c2
    k1 = k1
    k2 = k2
    o1 = o1
    o2 = o2
    NoRequest = NoRequest
    NoPayment = NoPayment
    NoPayout = NoPayout
    Request = {r1}
    Payment = {p1, p2}
    RequestOf <- OneJob
    Authorization = {a1, a2}
    AuthorizationOf <- OwnAuthorization
    Call = {c1, c2}
    Reconciler = {}
    Recorder = {}
    Payout = {}
    Cap = {1}
    CapOf <- EqualCaps
    InitialReserve = 1
    Bonded = {}
    Relayed = {}
    MaxCrashes = 0
INVARIANTS
    ChargedIsRecorded
