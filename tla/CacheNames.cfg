SPECIFICATION CacheSpec
CONSTANTS
    Modes = {"latest", "all"}
    Filters <- AwkwardFilters
    Stores = {w1}
    Reqs = {r1}
    TTL = 1
    MaxChanges = 1
INVARIANTS
    AnswersTheRequest
