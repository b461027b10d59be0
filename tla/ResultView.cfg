\* Two handlers, fair backend and front end.
SPECIFICATION FairSpec
CONSTANTS
    None = None
    Tasks = {t1, t2}
    Rows <- TwoRows
    Sorts = {"", "name"}
    Filters <- EvenOrHuge
    Matching <- MatchingRows
    Ahead <- RowOrder
    Refused = {"huge"}
    MaxRequests = 2
INVARIANTS
    TypeOK
    OnlyDeletedRowsLeave
    PageIsOfItsVersion
    GridConverges
PROPERTIES
    ImplementsRegister
    RequestsEnd
CHECK_DEADLOCK FALSE
