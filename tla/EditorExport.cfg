\* One tab and one full export, a cancel of each, and close_connection.
SPECIFICATION Spec
CONSTANTS
    None = None
    Tabs = {t1}
    Jobs = {j1}
    MaxRuns = 1
    MaxStatements = 1
    MaxTabCancels = 1
    MaxJobCancels = 1
    MaxThreads = 1
    Faults = {"broken_connection", "lost_reply"}
CHECK_DEADLOCK FALSE
INVARIANTS
    TypeOK
    CancelTargetsOwnSession
    StatementsOfOwner
    ClosedSessionIsDropped
    KillsLandOnTarget
    ExportWaitsForItsKills
    NoSilentTruncation
PROPERTIES
    EndedJobIsFinal
    ImplementsFifo
