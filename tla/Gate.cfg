SPECIFICATION ScopedSpec
CONSTANTS
    Credentials = {c1, c2}
    Principals = {"agent"}
    Reqs = {r1, r2}
    Operators = {o1, o2}
    Kinds = {"search", "note"}
    Scopes = {"vault:read", "vault:write"}
    Parts = 2
    Limits <- SmallLimits
    PrincipalLimits <- AgentOverrides
    PruneAbove = 0
    PoolSize = 1
    TouchAfter = 1
    Lifetimes = {1}
    MaxTime = 2
    First = c1
    Lone = r1
INVARIANTS TypeOK QuotaHolds AuthorityIsTrue
