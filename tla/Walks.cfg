\* Walks of a changing listing, and exports of a changing corpus.
SPECIFICATION SmallSpec
CONSTANTS
    Notes = {1, 2, 3}
    Titles = {1, 2}
    Readers = {r1}
    Labels = {"x"}
    Limit = 1
    PageSize = 1
    Cites <- Citing
    Corpora <- Both
    MaxTime = 1
    MaxStrays = 1
INVARIANTS
    WalkIsFaithful
    ExportIsOneCorpus
