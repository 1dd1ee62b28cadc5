SPECIFICATION MCUniversalSpec
CONSTANTS
    r1 = r1
    r2 = r2
    p1 = p1
    p2 = p2
    NoRequest = NoRequest
    NoPayment = NoPayment
    NoPayout = NoPayout
    Request = {r1, r2}
    Payment = {p1, p2}
    RequestOf <- OwnJob
    Authorization = {p1, p2}
    AuthorizationOf <- OwnAuthorization
    Payout = {}
    Cap = {1}
    CapOf <- OneEach
    Bonded = {r1, r2}
    Relayed = {r2}
    Credit = {r2}
    InitialReserve = 0
    Call = {c1}
    Reconciler = {}
    Recorder = {}
    Run = {u1}
    MaxCrashes = 1
    SlowRead = TRUE
PROPERTIES
    RecordOutlivesCover
