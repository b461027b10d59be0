\* Checked rows that are read while another view is painted.
SPECIFICATION Spec
CONSTANTS
    None = None
    Tasks = {t1, t2, t3}
    Rows <- ThreeRows
    Sorts = {""}
    Filters <- EvenOrHuge
    Matching <- MatchingRows
    Ahead <- RowOrder
    Refused = {"huge"}
    MaxRequests = 2
SYMMETRY TaskSymmetry
INVARIANT OnlyCheckedRowsAreDeleted
CHECK_DEADLOCK FALSE
