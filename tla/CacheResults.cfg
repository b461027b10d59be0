\* Two tasks and every operation on the results of one tab.
SPECIFICATION Spec
CONSTANTS
    None = None
    Clients = {c1, c2}
    Operations = {"store", "fetch", "edit", "reexecute", "close"}
    MaxRuns = 2
    MaxEdits = 1
    MaxGen = 4
SYMMETRY ClientSymmetry
CONSTRAINT NoRaceYet
CHECK_DEADLOCK FALSE
INVARIANTS
    CacheInv
