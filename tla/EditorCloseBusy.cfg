\* close_connection while one tab runs and another one waits.
SPECIFICATION Spec
CONSTANTS
    None = None
    Tabs = {t1, t2}
    Jobs = {}
    MaxRuns = 1
    MaxStatements = 1
    MaxTabCancels = 0
    MaxJobCancels = 0
    MaxThreads = 1
    Faults = {}
PROPERTIES
    BusySessionEndsWithItsQuery
CHECK_DEADLOCK FALSE
