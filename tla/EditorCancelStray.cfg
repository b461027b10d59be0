\* A user cancel that arrives after its run has ended.
SPECIFICATION Spec
CONSTANTS
    None = None
    Tabs = {t1, t2}
    Jobs = {}
    MaxRuns = 1
    MaxStatements = 1
    MaxTabCancels = 1
    MaxJobCancels = 0
    MaxThreads = 1
    Faults = {}
INVARIANTS
    CancelKillsOnlyItsTab
CHECK_DEADLOCK FALSE
