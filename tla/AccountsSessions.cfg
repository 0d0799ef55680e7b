SPECIFICATION Spec
CONSTANTS
    Ids = {u1, u2}
    Emails = {e1, e2}
    SteamIds = {s1}
    Tokens = {t1, t2}
    Reqs = {r1, r2}
    AccessTTL = 2
    RefreshTTL = 1
    MaxTime = 2
INVARIANTS
    TypeOK
    IdentitiesAgree
    AccessIsTrue
    SessionsAreChains
PROPERTIES
    IdentityKeepsOwner
SYMMETRY Interchangeable
