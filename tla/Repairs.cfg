\* The repairs of a small corpus, interleaved with governed writers.
SPECIFICATION SmallSpec
CONSTANTS
    page = page
    note = note
    twin = twin
    other = other
    first = first
    second = second
    third = third
    fourth = fourth
    former = former
    bare = bare
    t = t
    u = u
    v = v
    w = w
    Ids = {page, note, twin, other, first, second, third, fourth}
    Formers = {former, bare}
    Names = {t, u, v, w}
    Reqs = {r1, r2}
    Classes <- OneClass
    Lists <- Edges
    Corpora <- Finds
    Files <- Batch
    Mints <- Pairs
    Slugs = {"old", "a", "b"}
    MaxRev = 3
    MaxChanges = 2
SYMMETRY Interchangeable
CHECK_DEADLOCK FALSE
INVARIANTS
    EdgesMeanWhatWasSaid
    EmbeddingFollows
PROPERTIES
    SummariesFit
    ImportsAreTrue
