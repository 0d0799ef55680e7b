SPECIFICATION ScopedSpec
CONSTANTS
    Ids = {d1, d2, d3}
    ProposalIds = {p1, p2}
    Reqs = {r1, r2}
    Authors = {"ann", "bob"}
    Keys = {"k0", "k1", "k2"}
    Titles = {"t", "u"}
    Bodies = {"b1", "b2"}
    Summaries = {"s"}
    Metas = {"m0", "m1", "m2"}
    Contributions <- Posts
    Legacy <- Imported
    Replacements <- Edits
    Additions = {"s"}
    NewMetas = {"m1"}
    Changes <- Amendments
    Promotions = {"none", "candidate"}
    SimilarLimit = 2
    MaxRev = 3
INVARIANTS
    TypeOK
    EmbeddingMatchesText
    GateHolds
    LedgerIsTrue
    StaleIsTrue
    OneAcceptedPerRevision
    PathsAreNames
PROPERTIES
    AcceptedOnItsBase
    EditsAreSerial
SYMMETRY Interchangeable
