\* Two tabs, two runs each, user cancels and a broken connection, no export.
SPECIFICATION Spec
CONSTANTS
    None = None
    Tabs = {t1, t2}
    Jobs = {}
    MaxRuns = 2
    MaxStatements = 2
    MaxTabCancels = 1
    MaxJobCancels = 0
    MaxThreads = 2
    Faults = {"broken_connection", "lost_reply"}
SYMMETRY TabSymmetry
CHECK_DEADLOCK FALSE
INVARIANTS
    CancelTargetsOwnSession
    StatementsOfOwner
    ClosedSessionIsDropped
