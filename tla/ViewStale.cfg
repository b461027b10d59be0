\* A failed request that leaves the grid on an old version.
SPECIFICATION Spec
CONSTANTS
    None = None
    Tasks = {t1, t2, t3}
    Rows <- TwoRows
    Sorts = {""}
    Filters <- EvenOrHuge
    Matching <- MatchingRows
    Ahead <- RowOrder
    Refused = {"huge"}
    MaxRequests = 2
SYMMETRY TaskSymmetry
INVARIANT SettledGridIsCurrent
CHECK_DEADLOCK FALSE
