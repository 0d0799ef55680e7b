SPECIFICATION Spec
CONSTANTS
    Clients = {c1}
    Nonces = {n1}
    Families = {f1, f2}
    Tokens = {t1, t2, t3}
    Reqs = {r1, r2}
    Baseline = {"read", "write"}
    Entitlements = {"review"}
    Read = "read"
    Review = "review"
    Asked <- Consents
    PendingTTL = 1
    CodeTTL = 1
    AccessTTL = 1
    RefreshTTL = 1
    Retention = 1
    MaxTime = 2
INVARIANTS
    TypeOK
    OneSessionPerApproval
    LiveIsProjection
    ReviewIsSeparate
    SparedByOverlap
PROPERTIES
    NothingNeededIsForgotten
SYMMETRY Interchangeable
