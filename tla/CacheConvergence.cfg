SPECIFICATION FairCacheSpec
CONSTANTS
    Modes = {m1}
    Filters <- AnyMode
    Stores = {w1, w2}
    Reqs = {r1, r2}
    TTL = 1
    MaxChanges = 1
INVARIANTS
    StaleOnlyByOverlap
PROPERTIES
    EventuallyCurrent
