\* A tab and an export, a KILL that may hang, fair tasks and server.
SPECIFICATION FairSpec
CONSTANTS
    None = None
    Tabs = {t1}
    Jobs = {j1}
    MaxRuns = 1
    MaxStatements = 1
    MaxTabCancels = 0
    MaxJobCancels = 1
    MaxThreads = 1
    Faults = {}
CHECK_DEADLOCK FALSE
PROPERTIES
    WaitersEnd
