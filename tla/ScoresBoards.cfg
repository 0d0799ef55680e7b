SPECIFICATION ScopedSpec
CONSTANTS
    Users = {u1}
    Newcomers = {u1}
    Modes = {m1}
    Keys = {k1, k2}
    Histories <- Boards
    RawScores = {1, 2}
    RunBodies <- TwoRuns
    Reqs = {r1, r2}
    DaysPerWeek = 2
    Retention = 1
    MaxDay = 2
    BigintMax = 3
INVARIANTS
    TypeOK
    BoardIsExact
    CreditIsRecordedOnce
    BoardShowsWhatCounts
    AnswersAreTrue
SYMMETRY Interchangeable
