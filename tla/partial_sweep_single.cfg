\* Partial merges of one tile each.
SPECIFICATION Spec
CONSTANTS
    TotalTiles = 4
    Requests = {1}
    FullMerges = FALSE
INVARIANT
    WaitBound
