\* Two notes and one compile run, or one note and two runs, with writers that start before and
\* commit after each of their steps.
SPECIFICATION SmallSpec
CONSTANTS
    Notes = {n1, n2}
    Existing = {n1}
    Pages = {p1}
    Runs = {c1, c2}
    Reqs = {r1, r2}
    AllPages <- Incremental
    MaxRev = 2
    MaxTime = 4
SYMMETRY Interchangeable
CHECK_DEADLOCK FALSE
INVARIANTS
    TypeOK
    PlansAreExact
PROPERTIES
    SettledIsClosed
